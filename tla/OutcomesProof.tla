---------------------------- MODULE OutcomesProof ----------------------------
(***************************************************************************)
(* Proofs about how a tool ends: what detection decides, what a capture    *)
(* leaves behind, what a check says, and that a command of rtl83xx or      *)
(* rrcpcli that is through with its registers has done what it says; for   *)
(* any other tools at work on the switch meanwhile.                        *)
(***************************************************************************)
EXTENDS ToolsProof

-----------------------------------------------------------------------------
(***************************************************************************)
(* What is left of a sequence                                              *)
(***************************************************************************)
From(s, k) == [n \in 1 .. Len(s) - k + 1 |-> s[n + k - 1]]

LEMMA FromNext ==
    ASSUME NEW S, NEW s \in Seq(S), NEW k \in 1 .. Len(s)
    PROVE  From(s, k) # <<>> /\ Head(From(s, k)) = s[k] /\ Tail(From(s, k)) = From(s, k + 1)
<1> DEFINE t == From(s, k)
<1>1. Len(s) \in Nat /\ k \in Nat /\ k <= Len(s)
  OBVIOUS
<1>2. t \in Seq(S) /\ Len(t) = Len(s) - k + 1 /\ Len(t) >= 1
  BY <1>1 DEF From
<1>3. Head(t) = s[k]
  BY <1>1, <1>2 DEF From
<1>4. /\ Tail(t) \in Seq(S) /\ Len(Tail(t)) = Len(s) - k
      /\ \A n \in 1 .. Len(s) - k : Tail(t)[n] = s[n + k]
  <2>1. /\ t # <<>> /\ Tail(t) \in Seq(S) /\ Len(Tail(t)) = Len(t) - 1
        /\ \A n \in 1 .. Len(Tail(t)) : Tail(t)[n] = t[n + 1]
    BY <1>2, HeadTailProperties
  <2>2. \A n \in 1 .. Len(s) - k : t[n + 1] = s[n + k]
    BY <1>1 DEF From
  <2> QED
    BY <1>1, <1>2, <2>1, <2>2
<1>5. From(s, k + 1) \in Seq(S) /\ Len(From(s, k + 1)) = Len(s) - k
      /\ \A n \in 1 .. Len(s) - k : From(s, k + 1)[n] = s[n + k]
  BY <1>1 DEF From
<1> HIDE DEF t
<1>6. Tail(t) = From(s, k + 1)
  BY <1>1, <1>4, <1>5
<1> QED
  BY <1>2, <1>3, <1>6 DEF t

LEMMA FromEnds ==
    ASSUME NEW S, NEW s \in Seq(S)
    PROVE  From(s, 1) = s /\ From(s, Len(s) + 1) = <<>>
BY DEF From

-----------------------------------------------------------------------------
(***************************************************************************)
(* The capture                                                             *)
(***************************************************************************)
\* While it restores, a process has in hand what it has not yet put back; its
\* copy is what it puts back, and what it has put back is there since, unless
\* a SET was lost.
PutBack(a, r) == \A f \in FieldsIn[r] : hw[f] = copy[a][f] \/ f \in foreign[a]

Restores(a) ==
    /\ \A f \in DOMAIN edit[a] : edit[a][f] = copy[a][f]
    /\ \E k \in 1 .. Len(Restoring) + 1 :
          /\ todo[a] = From(Restoring, k)
          /\ ~lost[a] => \A n \in 1 .. k - 1 : PutBack(a, Restoring[n][2])

CaptureInv == \A a \in Actor :
    Is(a, "capture") /\ Running(a) /\ stage[a] = "restore" => Restores(a)

\* While it restores a process of a capture only writes, or is gone.
LEMMA RestoreSteps ==
    ASSUME Owned, NEW a \in Actor, Step(a), Is(a, "capture"), Running(a), stage[a] = "restore",
           \A kind : AtOp(a, kind) => kind = "write"
    PROVE  \/ (WriteReg(a) \/ LoseWrite(a)) /\ UNCHANGED toolVars
           \/ ~Running(a)'
<1>1. ASSUME NEW how, how # "running", Exit(a, how) PROVE ~Running(a)'
  BY <1>1 DEF Exit, Leave, Running, Owned, Shape, OfActors
<1>2. CASE Session(a)
  <2>1. ~StartRtl83xx(a) /\ ~StartRrcpCli(a) /\ ~GiveCommand(a) /\ ~Finish(a)
    BY DEF StartRtl83xx, StartRrcpCli, GiveCommand, Prompt, Finish, AtEnd, Is
  <2>2. ~ReadReg(a) /\ ~SkipWrite(a)
    BY DEF ReadReg, SkipWrite
  <2> QED
    BY <1>1, <1>2, <2>1, <2>2 DEF Session, Access, EndInside
<1>3. CASE Capture(a)
  <2>1. ~StartCapture(a) /\ ~Signal(a) /\ ~BeginReset(a) /\ ~StopCapturing(a)
    BY DEF StartCapture, Begin, Running, Signal, Handled, BeginReset, StopCapturing
  <2>2. ~SetSecondWord(a) /\ ~ClearCaptured(a)
    BY DEF SetSecondWord, ClearCaptured
  <2> QED
    BY <1>1, <1>3, <2>1, <2>2 DEF Capture, FinishCapture
<1>4. ~CheckRun(a)
  <2>1. ~StartCheck(a) /\ ~Alarm(a)
    BY DEF StartCheck, Alarm, Is
  <2>2. ~HelloAnswered(a) /\ ~HelloFails(a) /\ ~CheckAnswered(a) /\ ~CheckFails(a)
    BY DEF HelloAnswered, HelloFails, CheckAnswered, CheckFails
  <2>3. ~UseNewKey(a) /\ ~Conclude(a) /\ ~ExitCheck(a)
    BY DEF UseNewKey, Conclude, ExitCheck, Verdicts
  <2> QED
    BY <2>1, <2>2, <2>3 DEF CheckRun
<1>5. ~DetectRun(a)
  <2>1. ~StartDetection(a) /\ ~Decide(a) /\ ~FinishDetection(a)
    BY DEF StartDetection, Decide, FinishDetection, Is
  <2>2. ~CountPorts(a) /\ ~ReadId(a) /\ ~CompareByte(a) /\ ~TestEcho(a)
    BY DEF CountPorts, ReadId, CompareByte, TestEcho, AtStep
  <2> QED
    BY <2>1, <2>2 DEF DetectRun
<1> QED
  BY <1>2, <1>3, <1>4, <1>5 DEF Step

\* It comes to that only by turning everything back.
LEMMA IntoRestore ==
    ASSUME Owned, NEW a \in Actor, Step(a), Is(a, "capture"),
           ~(Running(a) /\ stage[a] = "restore"), Running(a)', stage'[a] = "restore"
    PROVE  Restore(a)
<1> USE DEF Owned, Rest, Shape, OfActors
<1>1. ASSUME NEW how, how # "running", Exit(a, how) PROVE FALSE
  BY <1>1 DEF Exit, Leave, Running
<1>2. ASSUME status' = status, stage'[a] # "restore" \/ stage' = stage PROVE FALSE
  BY <1>2 DEF Running
<1>3. CASE Session(a)
  <2>1. ~StartRtl83xx(a) /\ ~StartRrcpCli(a) /\ ~GiveCommand(a)
    BY DEF StartRtl83xx, StartRrcpCli, GiveCommand, Prompt, Is
  <2>2. ~Access(a)
    BY <1>2 DEF Access, ReadReg, WriteReg, LoseWrite, SkipWrite, toolVars
  <2> QED
    BY <1>1, <1>3, <2>1, <2>2 DEF Session, Finish, EndInside
<1>4. CASE Capture(a)
  <2>1. ~StartCapture(a)
    BY DEF StartCapture, Begin
  <2>2. ~Signal(a) /\ ~SetSecondWord(a) /\ ~BeginReset(a)
    BY <1>2 DEF Signal, SetSecondWord, BeginReset, sharedVars, toolVars
  <2>3. ~FinishCapture(a)
    BY <1>1 DEF FinishCapture
  <2>4. ASSUME ClearCaptured(a), ~Restore(a) PROVE FALSE
    BY <1>2, <2>4 DEF ClearCaptured
  <2> QED
    BY <1>4, <2>1, <2>2, <2>3, <2>4 DEF Capture, StopCapturing
<1>5. ~CheckRun(a)
  <2>1. ~StartCheck(a) /\ ~Alarm(a)
    BY DEF StartCheck, Alarm, Is
  <2>2. ~HelloAnswered(a) /\ ~HelloFails(a) /\ ~UseNewKey(a) /\ ~Conclude(a)
    BY <1>2 DEF HelloAnswered, HelloFails, UseNewKey, Conclude, GoOn, Quit
  <2>3. ~CheckAnswered(a) /\ ~CheckFails(a)
    BY <1>2 DEF CheckAnswered, CheckFails, toolVars
  <2>4. ~ExitCheck(a)
    BY <1>1 DEF ExitCheck
  <2> QED
    BY <2>1, <2>2, <2>3, <2>4 DEF CheckRun
<1>6. ~DetectRun(a)
  <2>1. ~StartDetection(a) /\ ~Decide(a)
    BY DEF StartDetection, Decide, Is
  <2>2. ~ (CountPorts(a) \/ ReadId(a) \/ CompareByte(a) \/ TestEcho(a))
    BY <1>2 DEF CountPorts, ReadId, CompareByte, TestEcho, PastEnd, NextPlace, EndsUnread, NextSteps
  <2>3. ~FinishDetection(a)
    BY <1>1 DEF FinishDetection
  <2> QED
    BY <2>1, <2>2, <2>3 DEF DetectRun
<1> QED
  BY <1>3, <1>4, <1>5, <1>6 DEF Step

\* What others do leaves what has been put back, or is known to be theirs.
LEMMA RestoreApart ==
    ASSUME Owned, NEW a \in Actor, Apart(a), Running(a), Restores(a)
    PROVE  Restores(a)'
<1>1. ASSUME NEW r \in Reg, PutBack(a, r) PROVE PutBack(a, r)'
  <2> SUFFICES ASSUME NEW f \in FieldsIn[r]
               PROVE  (hw[f] = copy[a][f] \/ f \in foreign[a])'
    BY DEF PutBack
  <2>1. f \in Field
    BY RegFields
  <2> QED
    BY <1>1, <2>1 DEF PutBack, Apart
<1>2. PICK k \in 1 .. Len(Restoring) + 1 :
         /\ todo[a] = From(Restoring, k)
         /\ ~lost[a] => \A n \in 1 .. k - 1 : PutBack(a, Restoring[n][2])
  BY DEF Restores
<1>3. \A n \in 1 .. k - 1 : Restoring[n][2] \in Reg
  <2> SUFFICES ASSUME NEW n \in 1 .. k - 1 PROVE Restoring[n] \in {"write"} \X Reg
    OBVIOUS
  <2> QED
    BY Masks
<1>4. \A n \in 1 .. k - 1 : PutBack(a, Restoring[n][2]) => PutBack(a, Restoring[n][2])'
  BY <1>1, <1>3
<1> QED
  BY <1>2, <1>4 DEF Restores, Apart

\* A register is put back as the process has it in its copy.
LEMMA RestoreOwn ==
    ASSUME Owned, NEW a \in Actor, Step(a), Is(a, "capture"), Running(a), stage[a] = "restore",
           Restores(a)
    PROVE  Running(a)' => Restores(a)'
<1>1. PICK k \in 1 .. Len(Restoring) + 1 :
         /\ todo[a] = From(Restoring, k)
         /\ ~lost[a] => \A n \in 1 .. k - 1 : PutBack(a, Restoring[n][2])
  BY DEF Restores
<1>2. \/ k = Len(Restoring) + 1 /\ todo[a] = <<>>
      \/ /\ k \in 1 .. Len(Restoring)
         /\ Head(todo[a]) = Restoring[k] /\ Tail(todo[a]) = From(Restoring, k + 1)
         /\ Restoring[k] \in {"write"} \X Reg
  <2>1. Len(Restoring) \in Nat
    BY Masks
  <2>2. CASE k = Len(Restoring) + 1
    BY <1>1, <2>2, Masks, FromEnds
  <2>3. CASE k \in 1 .. Len(Restoring)
    BY <1>1, <2>3, Masks, FromNext
  <2> QED
    BY <2>1, <2>2, <2>3
<1>3. \A kind : AtOp(a, kind) => kind = "write" /\ todo[a] # <<>>
  BY <1>2 DEF AtOp
<1>4. CASE (WriteReg(a) \/ LoseWrite(a)) /\ UNCHANGED toolVars
  <2> DEFINE r == OpReg(a)
  <2>1. /\ k \in 1 .. Len(Restoring) /\ r = Restoring[k][2] /\ r \in Reg
        /\ todo'[a] = From(Restoring, k + 1)
        /\ UNCHANGED <<copy, edit>>
    <3>1. todo[a] # <<>> /\ Advance(a) /\ UNCHANGED <<copy, edit>>
      BY <1>4 DEF WriteReg, LoseWrite, AtWrite, AtOp
    <3> QED
      BY <1>2, <3>1 DEF OpReg, Advance, Owned, Rest, OfActors
  <2>2. k + 1 \in 1 .. Len(Restoring) + 1 /\ k + 1 - 1 = k
    BY <2>1, Masks
  <2>3. CASE LoseWrite(a)
    <3>1. lost'[a]
      BY <2>3 DEF LoseWrite, Owned, Rest, OfActors
    <3> QED
      BY <2>1, <2>2, <3>1 DEF Restores
  <2>4. CASE WriteReg(a)
    <3>1. hw' = Written(a, r) /\ Overtake(a, hw', FieldsIn[r]) /\ lost' = lost
      BY <2>4 DEF WriteReg
    <3> HIDE DEF r
    <3>2. \A f \in FieldsIn[r] : hw'[f] = copy[a][f]
      BY <2>1, <3>1, RegFields DEF Written, Value, Restores
    <3>3. \A f \in Field : f \notin FieldsIn[r] => hw'[f] = hw[f]
      BY <3>1 DEF Written
    <3>4. foreign'[a] = foreign[a] \ FieldsIn[r]
      BY <3>1 DEF Overtake
    <3>5. ASSUME NEW q \in Reg, PutBack(a, q) PROVE PutBack(a, q)'
      <4>1. \A f \in FieldsIn[q] : (hw[f] = copy[a][f] \/ f \in foreign[a])'
        BY <2>1, <3>2, <3>3, <3>4, <3>5, RegFields DEF PutBack
      <4> QED
        BY <4>1 DEF PutBack
    <3>6. ASSUME NEW q, q = r PROVE PutBack(a, q)'
      BY <2>1, <3>2, <3>6 DEF PutBack
    <3>7. ASSUME ~lost[a], NEW n \in 1 .. k PROVE PutBack(a, Restoring[n][2])'
      <4>1. CASE n = k
        BY <2>1, <3>6, <4>1
      <4>2. CASE n \in 1 .. k - 1
        <5>1. n \in 1 .. Len(Restoring)
          BY <2>1, <4>2, Masks
        <5>2. Restoring[n][2] \in Reg
          <6>1. Restoring[n] \in {"write"} \X Reg
            BY <5>1, Masks
          <6> QED
            BY <6>1
        <5>3. PutBack(a, Restoring[n][2])
          BY <1>1, <3>7, <4>2
        <5> QED
          BY <3>5, <5>2, <5>3
      <4> QED
        BY <2>1, <4>1, <4>2
    <3> QED
      BY <2>1, <2>2, <3>1, <3>7 DEF Restores
  <2> QED
    BY <1>4, <2>3, <2>4
<1> QED
  BY <1>3, <1>4, RestoreSteps

LEMMA RestoreBegins ==
    ASSUME Owned, NEW a \in Actor, Restore(a)
    PROVE  Restores(a)'
<1>1. /\ edit'[a] = [f \in DOMAIN edit[a] |-> copy[a][f]]
      /\ todo'[a] = Restoring
      /\ copy' = copy
  BY DEF Restore, Owned, Rest, Shape, OfActors
<1>2. 1 \in 1 .. Len(Restoring) + 1 /\ 1 .. 1 - 1 = {} /\ todo'[a] = From(Restoring, 1)
  BY <1>1, Masks, FromEnds
<1> QED
  BY <1>1, <1>2 DEF Restores

LEMMA CaptureKept ==
    ASSUME Owned, CaptureInv, [Next]_vars
    PROVE  CaptureInv'
<1> SUFFICES ASSUME NEW a \in Actor, (Is(a, "capture") /\ Running(a) /\ stage[a] = "restore")'
             PROVE  Restores(a)'
  BY DEF CaptureInv
<1>1. CASE Step(a)
  <2>1. Is(a, "capture")
    BY <1>1, RestStep DEF Is
  <2>2. CASE Running(a) /\ stage[a] = "restore"
    BY <1>1, <2>1, <2>2, RestoreOwn DEF CaptureInv
  <2>3. CASE ~ (Running(a) /\ stage[a] = "restore")
    BY <1>1, <2>1, <2>3, IntoRestore, RestoreBegins
  <2> QED
    BY <2>2, <2>3
<1>2. CASE Apart(a)
  <2>1. Is(a, "capture") /\ Running(a) /\ stage[a] = "restore"
    BY <1>2 DEF Apart, Is, Running
  <2> QED
    BY <1>2, <2>1, RestoreApart DEF CaptureInv
<1>3. CASE UNCHANGED vars
  BY <1>3 DEF vars, sharedVars, toolVars, CaptureInv, Restores, PutBack, Is, Running
<1> QED
  BY <1>1, <1>2, <1>3, StepOrApart

\* A capture cut short or not, with a register lost for a time to others or
\* not, ends with the registers as it found them: do_capture_mac_address puts
\* back all of what it read, whatever it has set meanwhile.
THEOREM LearningRestoredHolds == Spec => []LearningRestored
<1>1. Init => CaptureInv
  BY DEF Init, SharedInit, CaptureInv, Running
<1>2. Owned /\ CaptureInv /\ [Next]_vars => CaptureInv'
  BY CaptureKept
<1>3. CaptureInv => LearningRestored
  <2> SUFFICES ASSUME CaptureInv, NEW a \in Actor, Is(a, "capture"), Running(a),
                      stage[a] = "restore", todo[a] = <<>>, ~lost[a],
                      NEW n \in 1 .. Len(Learning), NEW f \in FieldsIn[Learning[n][2]]
               PROVE  hw[f] = copy[a][f] \/ f \in foreign[a]
    BY DEF LearningRestored
  <2>1. PICK k \in 1 .. Len(Restoring) + 1 :
           /\ todo[a] = From(Restoring, k)
           /\ \A m \in 1 .. k - 1 : PutBack(a, Restoring[m][2])
    BY DEF CaptureInv, Restores
  <2>2. k = Len(Restoring) + 1
    <3>1. k \notin 1 .. Len(Restoring)
      BY <2>1, Masks, FromNext
    <3>2. Len(Restoring) \in Nat
      BY Masks
    <3> QED
      BY <3>1, <3>2
  <2>3. n \in 1 .. k - 1 /\ Learning[n][2] = Restoring[n][2]
    BY <2>2, Masks
  <2> QED
    BY <2>1, <2>3 DEF PutBack
<1> QED
  BY <1>1, <1>2, <1>3, AlwaysOwned, PTL DEF Spec

-----------------------------------------------------------------------------
(***************************************************************************)
(* Detection                                                               *)
(***************************************************************************)
ErrCnt == <<"errcnt", 1>>
Asides == {Fault, ErrCnt}
Counted(p) == <<"ports", p>>

\* The steps of detection, in the order of what they have in hand.
AtPhy(a) ==
    /\ stage[a] = "detect" /\ notes[a] = {}
    /\ todo[a] = <<<<"phy", 3>>>>

AtIds(a) ==
    /\ stage[a] = "detect" /\ notes[a] = {Counted(cmd[a].ports)} /\ cmd[a].ports # 26
    /\ \E j \in 1 .. IdBytes : todo[a] = From(Ids, j)

\* All the places before reach into the EEPROM, and the bytes compared are
\* the same.
AtPlace(a) ==
    /\ stage[a] = "detect" /\ notes[a] = {Counted(cmd[a].ports)} /\ cmd[a].ports # 26
    /\ \E i \in Places, j \in 1 .. IdBytes :
          /\ todo[a] = From(Compare(i), j)
          /\ i <= cmd[a].size
          /\ \A k \in 1 .. j - 1 : IsSame(cmd[a], i, k)

\* The ports p and the size s have been found out; errcnt tells of a fault, of
\* an EEPROM that is not there, or of 0x218.
Found(c, noted, p, s) ==
    /\ p \in {16, 24, 26} /\ s \in 0 .. 5
    /\ s <= c.size
    /\ Fault \notin noted /\ ~Blank(c) => p = c.ports /\ s = TrueSize(c)
    /\ Fault \notin noted /\ c.ports # 26 => (ErrCnt \in noted <=> c.size = NoEeprom)

AtEcho(a) ==
    /\ stage[a] = "detect"
    /\ \E p \in {16, 24, 26}, s \in 0 .. 5 :
          /\ notes[a] \ Asides = {Counted(p), Sized(s)}
          /\ Found(cmd[a], notes[a], p, s)
    /\ \E n \in 1 .. 5 : /\ todo[a] = From(Echoes, n)
                         /\ ErrCnt \notin notes[a] => n - 1 <= cmd[a].echoes

Decided(a) ==
    /\ stage[a] = "detected" /\ todo[a] = <<>>
    /\ \E p \in {16, 24, 26}, s \in 0 .. 5, t \in 0 .. 26 :
          /\ notes[a] \ Asides = {Counted(p), Sized(s), <<"type", t>>}
          /\ s <= cmd[a].size
          /\ Fault \notin notes[a] /\ ~Blank(cmd[a]) =>
                s = TrueSize(cmd[a]) /\ (~Misnamed(cmd[a]) => t = cmd[a].type)

Detected(a) ==
    IF Running(a) THEN /\ IsChip(cmd[a])
                       /\ AtPhy(a) \/ AtIds(a) \/ AtPlace(a) \/ AtEcho(a) \/ Decided(a)
    ELSE stage[a] = "none" /\ notes[a] = {}

DetectInv == sitting \in Sittings /\ \A a \in Actor : Is(a, "detect") => Detected(a)

\* What a list of steps has at its place j, and behind it.
LEMMA Listed ==
    ASSUME NEW S, NEW s \in Seq(S), NEW j \in 1 .. Len(s)
    PROVE  /\ From(s, j) # <<>> /\ Head(From(s, j)) = s[j]
           /\ Tail(From(s, j)) = From(s, j + 1)
           /\ From(s, j + 1) = <<>> <=> j = Len(s)
<1>1. Len(s) \in Nat
  OBVIOUS
<1>2. j < Len(s) => j + 1 \in 1 .. Len(s)
  BY <1>1
<1>3. From(s, Len(s) + 1) = <<>>
  BY FromEnds
<1> QED
  BY <1>1, <1>2, <1>3, FromNext

LEMMA IdsListed ==
    /\ Ids = From(Ids, 1) /\ 1 \in 1 .. IdBytes
    /\ \A j \in 1 .. IdBytes : /\ From(Ids, j) # <<>> /\ Head(From(Ids, j)) = <<"id", j>>
                               /\ Tail(From(Ids, j)) = From(Ids, j + 1)
                               /\ From(Ids, j + 1) = <<>> <=> j = IdBytes
<1>1. IdBytes \in Nat \ {0}
  BY DetectionAssumption
<1>2. Ids \in Seq({"id"} \X Nat) /\ Len(Ids) = IdBytes /\ \A j \in 1 .. IdBytes : Ids[j] = <<"id", j>>
  BY <1>1 DEF Ids
<1>3. Ids = From(Ids, 1)
  BY <1>2, FromEnds
<1>4. ASSUME NEW j \in 1 .. IdBytes
      PROVE  /\ From(Ids, j) # <<>> /\ Head(From(Ids, j)) = Ids[j]
             /\ Tail(From(Ids, j)) = From(Ids, j + 1)
             /\ From(Ids, j + 1) = <<>> <=> j = IdBytes
  BY <1>2, Listed
<1>5. 1 \in 1 .. IdBytes
  BY <1>1
<1> QED
  BY <1>2, <1>3, <1>4, <1>5

LEMMA CompareListed ==
    ASSUME NEW i \in Places
    PROVE  /\ Compare(i) = From(Compare(i), 1) /\ 1 \in 1 .. IdBytes
           /\ \A j \in 1 .. IdBytes :
                 /\ From(Compare(i), j) # <<>> /\ Head(From(Compare(i), j)) = <<"compare", i, j>>
                 /\ Tail(From(Compare(i), j)) = From(Compare(i), j + 1)
<1>1. IdBytes \in Nat \ {0} /\ i \in Nat
  BY DetectionAssumption DEF Places
<1>2. /\ Compare(i) \in Seq({"compare"} \X Nat \X Nat) /\ Len(Compare(i)) = IdBytes
      /\ \A j \in 1 .. IdBytes : Compare(i)[j] = <<"compare", i, j>>
  BY <1>1 DEF Compare
<1>3. Compare(i) = From(Compare(i), 1)
  BY <1>2, FromEnds
<1>4. ASSUME NEW j \in 1 .. IdBytes
      PROVE  /\ From(Compare(i), j) # <<>> /\ Head(From(Compare(i), j)) = Compare(i)[j]
             /\ Tail(From(Compare(i), j)) = From(Compare(i), j + 1)
  BY <1>2, Listed
<1>5. 1 \in 1 .. IdBytes
  BY <1>1
<1> QED
  BY <1>2, <1>3, <1>4, <1>5

LEMMA EchoesListed ==
    /\ Echoes = From(Echoes, 1) /\ From(Echoes, 5) = <<>>
    /\ \A n \in 1 .. 4 : /\ From(Echoes, n) # <<>> /\ Head(From(Echoes, n)) = <<"echo", n>>
                         /\ Tail(From(Echoes, n)) = From(Echoes, n + 1)
<1>1. Echoes \in Seq({"echo"} \X Nat) /\ Len(Echoes) = 4 /\ \A n \in 1 .. 4 : Echoes[n] = <<"echo", n>>
  BY DEF Echoes
<1>2. Echoes = From(Echoes, 1) /\ From(Echoes, Len(Echoes) + 1) = <<>>
  BY <1>1, FromEnds
<1>3. ASSUME NEW n \in 1 .. 4
      PROVE  /\ From(Echoes, n) # <<>> /\ Head(From(Echoes, n)) = Echoes[n]
             /\ Tail(From(Echoes, n)) = From(Echoes, n + 1)
  BY <1>1, Listed
<1>4. From(Echoes, 5) = <<>>
  <2>1. Len(Echoes) + 1 = 5
    BY <1>1
  <2> QED
    BY <1>2, <2>1
<1>5. \A n \in 1 .. 4 : Echoes[n] = <<"echo", n>>
  BY <1>1
<1> QED
  BY <1>2, <1>3, <1>4, <1>5

\* What a process of detection has in hand, and where.
LEMMA InHand ==
    ASSUME NEW a \in Actor, AtPhy(a) \/ AtIds(a) \/ AtPlace(a) \/ AtEcho(a) \/ Decided(a)
    PROVE  /\ \A kind : AtOp(a, kind) => \/ kind = "phy" /\ AtPhy(a)
                                         \/ kind = "id" /\ AtIds(a)
                                         \/ kind = "compare" /\ AtPlace(a)
                                         \/ kind = "echo" /\ AtEcho(a)
           /\ stage[a] \in {"detect", "detected"}
           /\ todo[a] = <<>> => AtEcho(a) \/ Decided(a)
           /\ stage[a] = "detected" => Decided(a)
<1>1. CASE AtPhy(a)
  BY <1>1 DEF AtPhy, AtOp
<1>2. CASE AtIds(a)
  <2>1. PICK j \in 1 .. IdBytes : todo[a] = From(Ids, j)
    BY <1>2 DEF AtIds
  <2>2. Head(todo[a])[1] = "id" /\ todo[a] # <<>>
    <3>1. Head(todo[a]) = <<"id", j>> /\ todo[a] # <<>>
      BY <2>1, IdsListed
    <3> QED
      BY <3>1
  <2> QED
    BY <1>2, <2>2 DEF AtIds, AtOp
<1>3. CASE AtPlace(a)
  <2>1. PICK i \in Places, j \in 1 .. IdBytes : todo[a] = From(Compare(i), j)
    BY <1>3 DEF AtPlace
  <2>2. Head(todo[a])[1] = "compare" /\ todo[a] # <<>>
    <3>1. Head(todo[a]) = <<"compare", i, j>> /\ todo[a] # <<>>
      BY <2>1, CompareListed
    <3> QED
      BY <3>1
  <2> QED
    BY <1>3, <2>2 DEF AtPlace, AtOp
<1>4. CASE AtEcho(a)
  <2>1. PICK n \in 1 .. 5 : todo[a] = From(Echoes, n)
    BY <1>4 DEF AtEcho
  <2>2. CASE n = 5
    BY <1>4, <2>1, <2>2, EchoesListed DEF AtEcho, AtOp
  <2>3. CASE n \in 1 .. 4
    <3>1. Head(todo[a]) = <<"echo", n>> /\ todo[a] # <<>>
      BY <2>1, <2>3, EchoesListed
    <3>2. Head(todo[a])[1] = "echo"
      BY <3>1
    <3> QED
      BY <1>4, <3>1, <3>2 DEF AtEcho, AtOp
  <2> QED
    BY <2>2, <2>3
<1>5. CASE Decided(a)
  BY <1>5 DEF Decided, AtOp
<1> QED
  BY <1>1, <1>2, <1>3, <1>4, <1>5

\* A process of detection takes the steps of detection, and may end inside.
LEMMA DetectSteps ==
    ASSUME Owned, NEW a \in Actor, Step(a), Is(a, "detect"), Detected(a)
    PROVE  DetectRun(a) \/ EndInside(a)
<1>1. /\ \A kind : AtOp(a, kind) => kind \in {"phy", "id", "compare", "echo"}
      /\ Running(a) => stage[a] \in {"detect", "detected"}
      /\ ~Running(a) => stage[a] = "none"
  BY InHand DEF Detected, AtOp
<1>2. ~AtWrite(a)
  BY <1>1 DEF AtWrite
<1>3. CASE Session(a)
  <2>1. ~StartRtl83xx(a) /\ ~StartRrcpCli(a) /\ ~GiveCommand(a) /\ ~Finish(a)
    BY <1>1 DEF StartRtl83xx, StartRrcpCli, GiveCommand, Prompt, Finish, AtEnd, Is
  <2>2. ~ReadReg(a) /\ ~SkipWrite(a) /\ ~WriteReg(a) /\ ~LoseWrite(a)
    BY <1>1, <1>2 DEF ReadReg, SkipWrite, WriteReg, LoseWrite
  <2> QED
    BY <1>3, <2>1, <2>2 DEF Session, Access
<1>4. ~Capture(a)
  <2>1. ~StartCapture(a) /\ ~Signal(a) /\ ~BeginReset(a)
    BY DEF StartCapture, Signal, Handled, BeginReset, Is
  <2>2. ~StopCapturing(a) /\ ~FinishCapture(a)
    BY <1>1 DEF StopCapturing, FinishCapture
  <2>3. ~AtOp(a, "writeUnlessBreak") /\ ~AtOp(a, "clear")
    BY <1>1
  <2>4. ~SetSecondWord(a) /\ ~ClearCaptured(a)
    BY <2>3 DEF SetSecondWord, ClearCaptured
  <2> QED
    BY <2>1, <2>2, <2>4 DEF Capture
<1>5. ~CheckRun(a)
  <2>1. ~StartCheck(a) /\ ~Alarm(a)
    BY DEF StartCheck, Alarm, Is
  <2>2. ~HelloAnswered(a) /\ ~HelloFails(a) /\ ~CheckAnswered(a) /\ ~CheckFails(a)
    BY <1>1 DEF HelloAnswered, HelloFails, CheckAnswered, CheckFails
  <2>3. ~UseNewKey(a) /\ ~Conclude(a) /\ ~ExitCheck(a)
    BY <1>1 DEF UseNewKey, Conclude, ExitCheck, Verdicts
  <2> QED
    BY <2>1, <2>2, <2>3 DEF CheckRun
<1> QED
  BY <1>3, <1>4, <1>5 DEF Step

LEMMA Moved ==
    ASSUME Owned, NEW a \in Actor, NEW ops, NEW learnt, NextSteps(a, ops, learnt)
    PROVE  /\ todo'[a] = ops /\ notes'[a] = notes[a] \cup learnt
           /\ UNCHANGED <<cmd[a], stage[a], status[a], sitting>>
BY DEF NextSteps, Owned, Rest, Shape, OfActors

LEMMA Chips ==
    ASSUME NEW c, IsChip(c)
    PROVE  /\ c.ports \in {16, 24, 26} /\ c.size \in 0 .. 5 /\ c.echoes \in 0 .. 4
           /\ c.echoes = 4 <=> c.ports # 26
           /\ \A i \in Places : c.same[i] \in 0 .. IdBytes
<1>1. c.type \in {0, 1, 4, 7, 8, 9, 10}
  BY DEF IsChip, SwitchTypes
<1>2. c.ports = SwitchTypes[c.type].ports /\ c.size \in SwitchTypes[c.type].sizes
  BY DEF IsChip
<1>3. c.ports \in {16, 24, 26} /\ c.size \in 0 .. 5
  BY <1>1, <1>2 DEF SwitchTypes
<1> QED
  BY <1>3 DEF IsChip

\* What the decision makes of a switch it does not misname, of the size it has.
LEMMA EntryFound ==
    ASSUME NEW c, IsChip(c), ~Misnamed(c)
    PROVE  Product(c, TrueSize(c), IF c.ports = 26 THEN 0 ELSE IF c.ports = 16 THEN 1 ELSE 4) = c.type
<1>1. c.type \in {0, 1, 4, 7, 8, 9, 10}
  BY DEF IsChip, SwitchTypes
<1>2. /\ c.ports = SwitchTypes[c.type].ports /\ c.size \in SwitchTypes[c.type].sizes
      /\ c.vendor \in SwitchTypes[c.type].vendors /\ (c.vendor = "7005" => c.chip = "000c")
  BY DEF IsChip
<1>3. CASE c.type \in {0, 1, 4}
  <2>1. /\ c.vendor = "other"
        /\ c.ports = IF c.type = 0 THEN 26 ELSE IF c.type = 1 THEN 16 ELSE 24
    BY <1>2, <1>3 DEF SwitchTypes
  <2> QED
    BY <1>3, <2>1 DEF Product
<1>4. CASE c.type = 7
  <2>1. c.vendor = "7002" /\ c.ports = 24 /\ c.size = 3
    BY <1>2, <1>4 DEF SwitchTypes
  <2> QED
    BY <1>4, <2>1 DEF Product, TrueSize, Eeprom2404
<1>5. CASE c.type = 8
  <2>1. c.vendor = "7001" /\ c.ports = 16 /\ c.size \in {3, 4}
    BY <1>2, <1>5 DEF SwitchTypes
  <2> QED
    BY <1>5, <2>1 DEF Product, TrueSize, Eeprom2404, Eeprom2408
<1>6. CASE c.type = 9
  <2>1. c.vendor = "7004" /\ c.ports = 16 /\ c.size \in {3, 4}
    BY <1>2, <1>6 DEF SwitchTypes, Misnamed
  <2> QED
    BY <1>6, <2>1 DEF Product, TrueSize, Eeprom2404, Eeprom2408
<1>7. CASE c.type = 10
  <2>1. c.vendor = "7005" /\ c.chip = "000c" /\ c.ports = 16 /\ c.size = 4
    BY <1>2, <1>7 DEF SwitchTypes
  <2> QED
    BY <1>7, <2>1 DEF Product, TrueSize, Eeprom2408
<1> QED
  BY <1>1, <1>3, <1>4, <1>5, <1>6, <1>7

\* What has been learnt does not hide what the notes say aside.
LEMMA FirstNotes ==
    ASSUME NEW p, NEW s, NEW more \in SUBSET Asides
    PROVE  /\ ({Counted(p)} \cup {Sized(s)} \cup more) \ Asides = {Counted(p), Sized(s)}
           /\ \A x \in Asides : x \in {Counted(p)} \cup {Sized(s)} \cup more <=> x \in more
BY DEF Asides, Counted, Sized, Fault, ErrCnt

\* The size has been found out: the echoes are next.
LEMMA ToEcho ==
    ASSUME Owned, NEW a \in Actor, IsChip(cmd[a]), stage[a] = "detect",
           NEW p, NEW s, NEW more \in SUBSET Asides,
           \/ notes[a] = {Counted(p)} /\ NextSteps(a, Echoes, {Sized(s)} \cup more)
           \/ notes[a] = {} /\ NextSteps(a, Echoes, {Counted(p), Sized(s)} \cup more),
           p \in {16, 24, 26}, s \in 0 .. 5, Found(cmd[a], more, p, s)
    PROVE  AtEcho(a)'
<1> DEFINE noted == {Counted(p)} \cup {Sized(s)} \cup more
<1>1. todo'[a] = Echoes /\ notes'[a] = noted /\ cmd'[a] = cmd[a] /\ stage'[a] = "detect"
  <2>1. CASE notes[a] = {Counted(p)} /\ NextSteps(a, Echoes, {Sized(s)} \cup more)
    BY <2>1, Moved
  <2>2. CASE notes[a] = {} /\ NextSteps(a, Echoes, {Counted(p), Sized(s)} \cup more)
    BY <2>2, Moved
  <2> QED
    BY <2>1, <2>2
<1>2. notes'[a] \ Asides = {Counted(p), Sized(s)}
  BY <1>1, FirstNotes
<1>3. Found(cmd[a], noted, p, s)
  <2>1. (Fault \in noted <=> Fault \in more) /\ (ErrCnt \in noted <=> ErrCnt \in more)
    BY FirstNotes DEF Asides
  <2> HIDE DEF noted
  <2> QED
    BY <2>1 DEF Found
<1> HIDE DEF noted
<1>4. todo'[a] = From(Echoes, 1)
  BY <1>1, EchoesListed
<1>5. 1 - 1 <= cmd'[a].echoes
  BY <1>1, Chips
<1> QED
  BY <1>1, <1>2, <1>3, <1>4, <1>5 DEF AtEcho

LEMMA CountPortsStep ==
    ASSUME Owned, NEW a \in Actor, IsChip(cmd[a]), AtPhy(a), CountPorts(a)
    PROVE  AtIds(a)' \/ AtEcho(a)'
<1>1. CASE cmd[a].ports # 26 /\ NextSteps(a, Ids, {<<"ports", cmd[a].ports>>})
  BY <1>1, Moved, IdsListed DEF AtPhy, AtIds, Counted
<1>2. CASE NextSteps(a, Echoes, {<<"ports", 26>>, Sized(NoEeprom)}
                                   \cup IF cmd[a].ports = 26 THEN {} ELSE {Fault})
  <2> DEFINE more == IF cmd[a].ports = 26 THEN {} ELSE {Fault}
  <2>1. more \in SUBSET Asides
    BY DEF Asides
  <2>2. Found(cmd[a], more, 26, NoEeprom)
    BY Chips DEF Found, TrueSize, NoEeprom
  <2>3. NextSteps(a, Echoes, {Counted(26), Sized(NoEeprom)} \cup more)
    BY <1>2 DEF Counted
  <2>4. NoEeprom \in 0 .. 5
    BY DEF NoEeprom
  <2> HIDE DEF more
  <2> QED
    BY <2>1, <2>2, <2>3, <2>4, ToEcho DEF AtPhy
<1> QED
  BY <1>1, <1>2 DEF CountPorts

LEMMA ReadIdStep ==
    ASSUME Owned, NEW a \in Actor, IsChip(cmd[a]), AtIds(a), ReadId(a)
    PROVE  AtIds(a)' \/ AtPlace(a)' \/ AtEcho(a)'
<1>1. PICK j \in 1 .. IdBytes : todo[a] = From(Ids, j)
  BY DEF AtIds
<1>2. CASE /\ cmd[a].size # NoEeprom
           /\ NextSteps(a, IF Tail(todo[a]) = <<>> THEN Compare(1) ELSE Tail(todo[a]), {})
  <2>1. /\ notes'[a] = {Counted(cmd'[a].ports)} /\ cmd'[a] = cmd[a] /\ cmd[a].ports # 26
        /\ stage'[a] = "detect"
        /\ todo'[a] = IF Tail(todo[a]) = <<>> THEN Compare(1) ELSE Tail(todo[a])
    <3>1. /\ cmd'[a] = cmd[a] /\ stage'[a] = stage[a] /\ notes'[a] = notes[a] \cup {}
          /\ todo'[a] = IF Tail(todo[a]) = <<>> THEN Compare(1) ELSE Tail(todo[a])
      BY <1>2, Moved
    <3> QED
      BY <3>1 DEF AtIds
  <2>2. CASE Tail(todo[a]) = <<>>
    <3>1. 1 \in Places /\ todo'[a] = From(Compare(1), 1) /\ 1 \in 1 .. IdBytes
      BY <2>1, <2>2, CompareListed DEF Places
    <3>2. 1 <= cmd[a].size
      BY <1>2, Chips DEF NoEeprom
    <3>3. \A k \in 1 .. 1 - 1 : IsSame(cmd[a], 1, k)
      OBVIOUS
    <3> QED
      BY <2>1, <3>1, <3>2, <3>3 DEF AtPlace
  <2>3. CASE Tail(todo[a]) # <<>>
    <3>1. todo'[a] = From(Ids, j + 1) /\ j # IdBytes
      BY <1>1, <2>1, <2>3, IdsListed
    <3>2. j + 1 \in 1 .. IdBytes
      BY <3>1, DetectionAssumption
    <3> QED
      BY <2>1, <3>1, <3>2 DEF AtIds
  <2> QED
    BY <2>2, <2>3
<1>3. CASE NextSteps(a, Echoes, {Sized(NoEeprom), <<"errcnt", 1>>}
                                   \cup IF cmd[a].size = NoEeprom THEN {} ELSE {Fault})
  <2> DEFINE more == {ErrCnt} \cup IF cmd[a].size = NoEeprom THEN {} ELSE {Fault}
  <2>1. more \in SUBSET Asides
    BY DEF Asides
  <2>2. Found(cmd[a], more, cmd[a].ports, NoEeprom)
    BY Chips DEF Found, TrueSize, NoEeprom, ErrCnt, Fault
  <2>3. NextSteps(a, Echoes, {Sized(NoEeprom)} \cup more)
    <3>1. {Sized(NoEeprom)} \cup more = {Sized(NoEeprom), <<"errcnt", 1>>}
                                   \cup IF cmd[a].size = NoEeprom THEN {} ELSE {Fault}
      BY DEF ErrCnt
    <3> QED
      BY <1>3, <3>1
  <2>4. NoEeprom \in 0 .. 5 /\ cmd[a].ports \in {16, 24, 26}
    BY Chips DEF NoEeprom
  <2> HIDE DEF more
  <2> QED
    BY <2>1, <2>2, <2>3, <2>4, ToEcho DEF AtIds
<1> QED
  BY <1>2, <1>3 DEF ReadId

LEMMA CompareByteStep ==
    ASSUME Owned, NEW a \in Actor, IsChip(cmd[a]), AtPlace(a), CompareByte(a)
    PROVE  AtPlace(a)' \/ AtEcho(a)'
<1> DEFINE c == cmd[a]
<1>1. PICK i \in Places, j \in 1 .. IdBytes :
         /\ todo[a] = From(Compare(i), j)
         /\ i <= c.size
         /\ \A k \in 1 .. j - 1 : IsSame(c, i, k)
  BY DEF AtPlace
<1>2. /\ Head(todo[a])[2] = i /\ Head(todo[a])[3] = j /\ Tail(todo[a]) = From(Compare(i), j + 1)
  <2>1. Head(todo[a]) = <<"compare", i, j>> /\ Tail(todo[a]) = From(Compare(i), j + 1)
    BY <1>1, CompareListed
  <2> QED
    BY <2>1
<1>3. /\ notes[a] = {Counted(c.ports)} /\ stage[a] = "detect" /\ c.ports # 26
      /\ c.ports \in {16, 24, 26} /\ c.size \in 0 .. 5 /\ i \in 1 .. 4 /\ i \in 0 .. 5
      /\ c.same[i] \in 0 .. IdBytes /\ IdBytes \in Nat \ {0} /\ j \in Nat
      /\ c.size # NoEeprom
  BY <1>1, Chips, DetectionAssumption DEF AtPlace, Places, NoEeprom
\* The end of the EEPROM is taken to be at place i.
<1>4. ASSUME NEW more \in SUBSET {Fault}, PastEnd(a, i, more),
             Fault \notin more /\ ~Blank(c) => i = c.size
      PROVE  AtEcho(a)'
  <2>1. more \in SUBSET Asides
    BY DEF Asides
  <2>2. ErrCnt \notin more
    BY DEF ErrCnt, Fault
  <2>3. Found(c, more, c.ports, i)
    BY <1>1, <1>3, <1>4, <2>2 DEF Found, TrueSize
  <2>4. NextSteps(a, Echoes, {Sized(i)} \cup more)
    BY <1>4 DEF PastEnd
  <2> QED
    BY <1>3, <2>1, <2>3, <2>4, ToEcho
<1>5. CASE ~ReadFails(c, i) /\ IsSame(c, i, j)
           /\ IF j < IdBytes THEN NextSteps(a, Tail(todo[a]), {}) ELSE PastEnd(a, i, {})
  <2>1. CASE j < IdBytes
    <3>1. /\ todo'[a] = From(Compare(i), j + 1) /\ notes'[a] = notes[a] /\ cmd'[a] = c
          /\ stage'[a] = stage[a]
      <4>1. NextSteps(a, From(Compare(i), j + 1), {})
        BY <1>2, <1>5, <2>1
      <4>2. notes[a] \cup {} = notes[a]
        OBVIOUS
      <4> QED
        BY <4>1, <4>2, Moved
    <3>2. j + 1 \in 1 .. IdBytes /\ \A k \in 1 .. j + 1 - 1 : k = j \/ k \in 1 .. j - 1
      BY <1>3, <2>1
    <3>3. \A k \in 1 .. j + 1 - 1 : IsSame(c, i, k)
      BY <1>1, <1>5, <3>2
    <3> HIDE DEF c
    <3> QED
      BY <1>1, <1>3, <3>1, <3>2, <3>3 DEF AtPlace
  <2>2. CASE ~ (j < IdBytes)
    <3>1. j = IdBytes /\ PastEnd(a, i, {})
      BY <1>3, <1>5, <2>2
    <3>2. ~Blank(c) => i = c.size
      BY <1>1, <1>3, <1>5, <3>1 DEF Blank, IsSame, Reached
    <3> QED
      BY <1>4, <3>1, <3>2
  <2> QED
    BY <2>1, <2>2
<1>6. CASE ~ReadFails(c, i) /\ ~IsSame(c, i, j) /\ NextPlace(a, i, {})
  <2>1. i + 1 <= c.size
    BY <1>1, <1>3, <1>6 DEF IsSame, Reached
  <2>2. CASE i + 1 \in Places
    <3>1. /\ todo'[a] = Compare(i + 1) /\ notes'[a] = notes[a] /\ cmd'[a] = c
          /\ stage'[a] = stage[a]
      <4>1. NextSteps(a, Compare(i + 1), {})
        BY <1>6, <2>2 DEF NextPlace
      <4>2. notes[a] \cup {} = notes[a]
        OBVIOUS
      <4> QED
        BY <4>1, <4>2, Moved
    <3>2. todo'[a] = From(Compare(i + 1), 1) /\ 1 \in 1 .. IdBytes
      BY <2>2, <3>1, CompareListed
    <3>3. \A k \in 1 .. 1 - 1 : IsSame(c, i + 1, k)
      OBVIOUS
    <3> HIDE DEF c
    <3> QED
      BY <1>3, <2>1, <2>2, <3>1, <3>2, <3>3 DEF AtPlace
  <2>3. CASE i + 1 \notin Places
    <3>1. i = 4 /\ c.size = 5
      BY <1>3, <2>1, <2>3 DEF Places
    <3> DEFINE none == {}
    <3>2. NextSteps(a, Echoes, {Sized(5)} \cup none)
      BY <1>6, <2>3 DEF NextPlace, Eeprom2416
    <3>3. Found(c, none, c.ports, 5)
      BY <1>3, <3>1 DEF Found, TrueSize
    <3>4. none \in SUBSET Asides /\ 5 \in 0 .. 5
      OBVIOUS
    <3> HIDE DEF none
    <3> QED
      BY <1>3, <3>2, <3>3, <3>4, ToEcho
  <2> QED
    BY <2>2, <2>3
<1>7. CASE EndsUnread(a, i, IF ReadFails(c, i) THEN {} ELSE {Fault})
  <2> DEFINE more == IF ReadFails(c, i) THEN {} ELSE {Fault}
  <2>1. Fault \notin more => i = c.size
    BY <1>1, <1>3 DEF ReadFails, Reached
  <2>2. more \in SUBSET {Fault} /\ PastEnd(a, i, more)
    BY <1>7 DEF EndsUnread
  <2> HIDE DEF more
  <2> QED
    BY <1>4, <2>1, <2>2
<1> QED
  BY <1>2, <1>5, <1>6, <1>7 DEF CompareByte

LEMMA TestEchoStep ==
    ASSUME Owned, NEW a \in Actor, IsChip(cmd[a]), AtEcho(a), TestEcho(a)
    PROVE  AtEcho(a)'
<1> DEFINE c == cmd[a]
<1>1. PICK p \in {16, 24, 26}, s \in 0 .. 5 :
         notes[a] \ Asides = {Counted(p), Sized(s)} /\ Found(c, notes[a], p, s)
  BY DEF AtEcho
<1>2. PICK n \in 1 .. 5 : /\ todo[a] = From(Echoes, n)
                          /\ ErrCnt \notin notes[a] => n - 1 <= c.echoes
  BY DEF AtEcho
<1>3. n \in 1 .. 4 /\ Head(todo[a])[2] = n /\ Tail(todo[a]) = From(Echoes, n + 1)
  <2>1. n # 5
    BY <1>2, EchoesListed DEF TestEcho, AtStep, AtOp
  <2>2. Head(todo[a]) = <<"echo", n>> /\ Tail(todo[a]) = From(Echoes, n + 1)
    BY <1>2, <2>1, EchoesListed
  <2> QED
    BY <2>1, <2>2
<1>4. stage[a] = "detect" /\ c.echoes \in 0 .. 4 /\ (c.echoes = 4 <=> c.ports # 26)
  BY Chips DEF AtEcho
<1>5. CASE n <= c.echoes /\ NextSteps(a, Tail(todo[a]), {})
  <2>1. /\ todo'[a] = From(Echoes, n + 1) /\ notes'[a] = notes[a] /\ cmd'[a] = c
        /\ stage'[a] = "detect"
    <3>1. NextSteps(a, From(Echoes, n + 1), {})
      BY <1>3, <1>5
    <3>2. notes[a] \cup {} = notes[a]
      OBVIOUS
    <3> QED
      BY <1>4, <3>1, <3>2, Moved
  <2>2. n + 1 \in 1 .. 5 /\ n + 1 - 1 <= c.echoes
    BY <1>3, <1>4, <1>5
  <2> HIDE DEF c
  <2> QED
    BY <1>1, <2>1, <2>2 DEF AtEcho
<1>6. CASE NextSteps(a, <<>>, {<<"errcnt", 1>>} \cup IF n > c.echoes THEN {} ELSE {Fault})
  <2> DEFINE noted == notes[a] \cup {ErrCnt} \cup IF n > c.echoes THEN {} ELSE {Fault}
  <2>1. /\ todo'[a] = From(Echoes, 5) /\ notes'[a] = noted /\ cmd'[a] = c
        /\ stage'[a] = "detect"
    BY <1>4, <1>6, Moved, EchoesListed DEF ErrCnt
  <2>2. noted \ Asides = notes[a] \ Asides /\ ErrCnt \in noted
    BY DEF Asides
  <2>3. Fault \notin noted => Fault \notin notes[a] /\ c.ports = 26
    BY <1>3, <1>4
  <2> HIDE DEF noted, c
  <2>4. Found(c, noted, p, s)
    BY <1>1, <2>3 DEF Found
  <2> QED
    BY <1>1, <2>1, <2>2, <2>4 DEF AtEcho
<1> QED
  BY <1>3, <1>5, <1>6 DEF TestEcho

\* The type decided on is one of the list.
LEMMA Types ==
    ASSUME NEW c, NEW s, NEW g \in 0 .. 26
    PROVE  Product(c, s, g) \in 0 .. 26
BY DEF Product

LEMMA Known ==
    ASSUME NEW a \in Actor, NEW p \in 0 .. 26, NEW s \in 0 .. 26,
           NEW more, more \in SUBSET {<<"type", t>> : t \in 0 .. 26},
           notes[a] \ Asides = {Counted(p), Sized(s)} \cup more
    PROVE  Learnt(a, "ports") = p /\ Learnt(a, "size") = s
<1>1. \A v \in 0 .. 26 : <<"ports", v>> \in notes[a] <=> v = p
  BY DEF Asides, Fault, ErrCnt, Counted, Sized
<1>2. \A v \in 0 .. 26 : <<"size", v>> \in notes[a] <=> v = s
  BY DEF Asides, Fault, ErrCnt, Counted, Sized
<1> QED
  BY <1>1, <1>2 DEF Learnt

LEMMA DecideStep ==
    ASSUME Owned, NEW a \in Actor, IsChip(cmd[a]), AtEcho(a), Decide(a)
    PROVE  Decided(a)'
<1> DEFINE c == cmd[a]
           g == Generic(Errors(a), Learnt(a, "ports"))
           t == Product(c, Learnt(a, "size"), g)
<1>1. PICK p \in {16, 24, 26}, s \in 0 .. 5 :
         notes[a] \ Asides = {Counted(p), Sized(s)} /\ Found(c, notes[a], p, s)
  BY DEF AtEcho
<1>2. PICK n \in 1 .. 5 : /\ todo[a] = From(Echoes, n)
                          /\ ErrCnt \notin notes[a] => n - 1 <= c.echoes
  BY DEF AtEcho
<1>3. n = 5
  BY <1>2, EchoesListed DEF Decide
<1>4. c.ports \in {16, 24, 26} /\ c.size \in 0 .. 5 /\ c.echoes \in 0 .. 4
      /\ (c.echoes = 4 <=> c.ports # 26)
  BY Chips
<1>5. Learnt(a, "ports") = p /\ Learnt(a, "size") = s
  <2> DEFINE more == {}
  <2>1. /\ more \in SUBSET {<<"type", v>> : v \in 0 .. 26} /\ p \in 0 .. 26 /\ s \in 0 .. 26
        /\ notes[a] \ Asides = {Counted(p), Sized(s)} \cup more
    BY <1>1
  <2> HIDE DEF more
  <2> QED
    BY <2>1, Known
<1>6. g \in {0, 1, 4} /\ t \in 0 .. 26
  <2>1. g \in {0, 1, 4}
    BY DEF Generic
  <2> HIDE DEF g
  <2> QED
    BY <2>1, Types
<1>7. /\ notes'[a] = notes[a] \cup {<<"type", t>>} /\ todo'[a] = <<>> /\ cmd'[a] = c
      /\ stage'[a] = "detected"
  BY DEF Decide, Owned, Rest, Shape, OfActors, sharedVars
<1>8. ASSUME Fault \notin notes[a], ~Blank(c)
      PROVE  s = TrueSize(c) /\ (~Misnamed(c) => t = c.type)
  <2>1. p = c.ports /\ s = TrueSize(c) /\ (c.ports # 26 => (ErrCnt \in notes[a] <=> c.size = NoEeprom))
    BY <1>1, <1>8 DEF Found
  <2>2. c.ports = 26 => ErrCnt \in notes[a]
    BY <1>2, <1>3, <1>4
  <2>3. Errors(a) <=> ErrCnt \in notes[a]
    BY DEF Errors, ErrCnt
  <2>4. Errors(a) <=> c.ports = 26 \/ c.size = NoEeprom
    BY <2>1, <2>2, <2>3
  <2>5. ASSUME ~Misnamed(c)
        PROVE  g = IF c.ports = 26 THEN 0 ELSE IF c.ports = 16 THEN 1 ELSE 4
    <3>1. c.size = NoEeprom => c.ports = 26
      BY <2>5 DEF Misnamed
    <3>2. Errors(a) <=> c.ports = 26
      BY <2>4, <3>1
    <3>3. Learnt(a, "ports") = c.ports
      BY <1>5, <2>1
    <3> QED
      BY <1>4, <3>2, <3>3 DEF Generic
  <2>6. ~Misnamed(c) => t = c.type
    <3>1. Learnt(a, "size") = TrueSize(c)
      BY <1>5, <2>1
    <3> HIDE DEF g
    <3> QED
      BY <2>5, <3>1, EntryFound
  <2> QED
    BY <2>1, <2>6
<1>9. s <= c.size
  BY <1>1 DEF Found
<1> HIDE DEF g, t, c
<1>10. notes'[a] \ Asides = {Counted(p), Sized(s), <<"type", t>>} /\ (Fault \in notes'[a] <=> Fault \in notes[a])
  <2>1. <<"type", t>> # Fault /\ <<"type", t>> # ErrCnt
    BY DEF Fault, ErrCnt
  <2> QED
    BY <1>1, <1>7, <2>1 DEF Asides
<1> QED
  BY <1>6, <1>7, <1>8, <1>9, <1>10 DEF Decided

\* A process that has ended, or has just begun.
LEMMA EndsDetection ==
    ASSUME Owned, NEW a \in Actor, NEW how, how # "running", Exit(a, how)
    PROVE  Detected(a)'
BY DEF Exit, Leave, Detected, Running, Owned, Rest, Shape, OfActors

LEMMA StartsDetection ==
    ASSUME Owned, DetectInv, NEW a \in Actor, StartDetection(a)
    PROVE  Detected(a)'
<1>1. PICK c \in sitting[a].commands : Begin(a, c, Job(<<<<"phy", 3>>>>, Keep), "detect")
  BY DEF StartDetection
<1>2. IsChip(c)
  BY DetectionAssumption DEF DetectInv, StartDetection, Is
<1>3. notes[a] = {}
  BY <1>1 DEF DetectInv, Detected, StartDetection, Begin, Running
<1>4. /\ status'[a] = "running" /\ cmd'[a] = c /\ stage'[a] = "detect"
      /\ todo'[a] = <<<<"phy", 3>>>> /\ notes'[a] = {}
  BY <1>1, <1>3 DEF Begin, Job, Owned, Rest, Shape, OfActors
<1> QED
  BY <1>2, <1>4 DEF Detected, Running, AtPhy

LEMMA DetectKept ==
    ASSUME Owned, DetectInv, [Next]_vars
    PROVE  DetectInv'
<1>1. sitting' = sitting
  <2>1. CASE \E b \in Actor : Step(b)
    BY <2>1, RestStep
  <2>2. CASE \E f \in Field : Wire(f)
    BY <2>2 DEF Wire, toolVars
  <2>3. CASE UNCHANGED vars
    BY <2>3 DEF vars, toolVars
  <2> QED
    BY <2>1, <2>2, <2>3 DEF Next, Step
<1>2. SUFFICES ASSUME NEW a \in Actor, Is(a, "detect"), Detected(a) PROVE Detected(a)'
  BY <1>1 DEF Is, DetectInv
<1>3. CASE Apart(a) \/ UNCHANGED vars
  <2>1. /\ status'[a] = status[a] /\ todo'[a] = todo[a] /\ cmd'[a] = cmd[a]
        /\ stage'[a] = stage[a] /\ notes'[a] = notes[a]
    BY <1>3 DEF Apart, vars, sharedVars, toolVars
  <2> QED
    <3>1. /\ (AtPhy(a) => AtPhy(a)') /\ (AtIds(a) => AtIds(a)')
          /\ (AtPlace(a) => AtPlace(a)')
      BY <2>1 DEF AtPhy, AtIds, AtPlace
    <3>2. AtEcho(a) => AtEcho(a)'
      BY <2>1 DEF AtEcho
    <3>3. Decided(a) => Decided(a)'
      BY <2>1 DEF Decided
    <3> QED
      BY <1>2, <2>1, <3>1, <3>2, <3>3 DEF Detected, Running
<1>4. CASE Step(a)
  <2>1. DetectRun(a) \/ EndInside(a)
    BY <1>2, <1>4, DetectSteps
  <2>2. CASE EndInside(a) \/ FinishDetection(a)
    BY <2>2, EndsDetection DEF EndInside, FinishDetection
  <2>3. CASE StartDetection(a)
    BY <2>3, StartsDetection
  <2>4. CASE CountPorts(a) \/ ReadId(a) \/ CompareByte(a) \/ TestEcho(a) \/ Decide(a)
    <3>1. Running(a) /\ IsChip(cmd[a])
      BY <1>2, <2>4 DEF Detected, CountPorts, ReadId, CompareByte, TestEcho, Decide, AtStep, AtOp, Reaches
    <3>2. AtPhy(a) \/ AtIds(a) \/ AtPlace(a) \/ AtEcho(a) \/ Decided(a)
      BY <1>2, <3>1 DEF Detected
    <3>3. (AtIds(a) \/ AtPlace(a) \/ AtEcho(a) \/ Decided(a))' /\ Running(a)' /\ cmd'[a] = cmd[a]
      <4>1. CASE CountPorts(a)
        <5>1. AtPhy(a)
          BY <3>2, <4>1, InHand DEF CountPorts, AtStep
        <5>2. PICK ops, learnt : NextSteps(a, ops, learnt)
          BY <4>1 DEF CountPorts
        <5> QED
          BY <3>1, <4>1, <5>1, <5>2, Moved, CountPortsStep DEF Running
      <4>2. CASE ReadId(a)
        <5>1. AtIds(a)
          BY <3>2, <4>2, InHand DEF ReadId, AtStep
        <5>2. PICK ops, learnt : NextSteps(a, ops, learnt)
          BY <4>2 DEF ReadId
        <5> QED
          BY <3>1, <4>2, <5>1, <5>2, Moved, ReadIdStep DEF Running
      <4>3. CASE CompareByte(a)
        <5>1. AtPlace(a)
          BY <3>2, <4>3, InHand DEF CompareByte, AtStep
        <5>2. PICK ops, learnt : NextSteps(a, ops, learnt)
          BY <4>3 DEF CompareByte, PastEnd, NextPlace, EndsUnread
        <5> QED
          BY <3>1, <4>3, <5>1, <5>2, Moved, CompareByteStep DEF Running
      <4>4. CASE TestEcho(a)
        <5>1. AtEcho(a)
          BY <3>2, <4>4, InHand DEF TestEcho, AtStep
        <5>2. PICK ops, learnt : NextSteps(a, ops, learnt)
          BY <4>4 DEF TestEcho
        <5> QED
          BY <3>1, <4>4, <5>1, <5>2, Moved, TestEchoStep DEF Running
      <4>5. CASE Decide(a)
        <5>1. AtEcho(a)
          BY <3>2, <4>5, InHand DEF Decide, Decided
        <5> QED
          BY <3>1, <4>5, <5>1, DecideStep DEF Decide, sharedVars, Running
      <4> QED
        BY <2>4, <4>1, <4>2, <4>3, <4>4, <4>5
    <3> QED
      BY <3>1, <3>3 DEF Detected
  <2> QED
    BY <2>1, <2>2, <2>3, <2>4 DEF DetectRun
<1> QED
  BY <1>3, <1>4, StepOrApart

\* Whatever fails, detection never takes the EEPROM for a larger one; when
\* nothing fails and the EEPROM is not blank, it finds the size and the type of
\* every switch there is: rrcp_autodetect_switch_chip_eeprom, however many
\* bytes it compares, whatever else is done to the registers meanwhile.
THEOREM DetectionTrueHolds == Spec => []DetectionTrue
<1>1. Init => DetectInv
  BY DEF Init, SharedInit, DetectInv, Detected, Running
<1>2. Owned /\ DetectInv /\ [Next]_vars => DetectInv'
  BY DetectKept
<1>3. DetectInv => DetectionTrue
  <2> SUFFICES ASSUME DetectInv, NEW a \in Actor, Is(a, "detect"), stage[a] = "detected"
               PROVE  /\ Learnt(a, "size") <= cmd[a].size
                      /\ (~Faulty(a) /\ ~Blank(cmd[a])) =>
                            /\ Learnt(a, "size") = TrueSize(cmd[a])
                            /\ ~Misnamed(cmd[a]) => Learnt(a, "type") = cmd[a].type
    BY DEF DetectionTrue
  <2>1. Decided(a)
    BY InHand DEF DetectInv, Detected
  <2>2. PICK p \in {16, 24, 26}, s \in 0 .. 5, t \in 0 .. 26 :
           /\ notes[a] \ Asides = {Counted(p), Sized(s), <<"type", t>>}
           /\ s <= cmd[a].size
           /\ Fault \notin notes[a] /\ ~Blank(cmd[a]) =>
                 s = TrueSize(cmd[a]) /\ (~Misnamed(cmd[a]) => t = cmd[a].type)
    BY <2>1 DEF Decided
  <2>3. Learnt(a, "size") = s
    <3> DEFINE more == {<<"type", t>>}
    <3>1. /\ more \in SUBSET {<<"type", v>> : v \in 0 .. 26} /\ p \in 0 .. 26 /\ s \in 0 .. 26
          /\ notes[a] \ Asides = {Counted(p), Sized(s)} \cup more
      BY <2>2
    <3> HIDE DEF more
    <3> QED
      BY <3>1, Known
  <2>4. Learnt(a, "type") = t
    <3>1. \A v \in 0 .. 26 : <<"type", v>> \in notes[a] <=> v = t
      BY <2>2 DEF Asides, Fault, ErrCnt, Counted, Sized
    <3> QED
      BY <3>1 DEF Learnt
  <2> QED
    BY <2>2, <2>3, <2>4 DEF Faulty, Fault
<1> QED
  BY <1>1, <1>2, <1>3, AlwaysOwned, PTL DEF Spec

-----------------------------------------------------------------------------
(***************************************************************************)
(* The check                                                               *)
(***************************************************************************)
\* The registers still to be asked for; the links come last.
Tries == {"try"} \X Reg
Pending(s) == {s[n][2] : n \in 1 .. Len(s)}
LinksLast(s) ==
    \A n \in 1 .. Len(s) : s[n][2][1] = "link" => \A m \in n .. Len(s) : s[m][2][1] = "link"

LEMMA PendingTail ==
    ASSUME NEW R, NEW s \in Seq(R), s # <<>>
    PROVE  /\ Pending(s) = {Head(s)[2]} \cup Pending(Tail(s))
           /\ LinksLast(s) => /\ LinksLast(Tail(s))
                              /\ Head(s)[2][1] = "link" => \A r \in Pending(s) : r[1] = "link"
<1>1. /\ Len(s) \in Nat \ {0} /\ Head(s) = s[1] /\ Tail(s) \in Seq(R)
      /\ Len(Tail(s)) = Len(s) - 1
      /\ \A n \in 1 .. Len(s) - 1 : Tail(s)[n] = s[n + 1]
  BY HeadTailProperties
<1> DEFINE t == Tail(s)
<1> HIDE DEF t
<1>2. /\ Len(t) = Len(s) - 1 /\ \A n \in 1 .. Len(s) - 1 : t[n] = s[n + 1]
  BY <1>1 DEF t
<1>3. Pending(s) \subseteq {s[1][2]} \cup Pending(t)
  <2> SUFFICES ASSUME NEW n \in 1 .. Len(s), n # 1 PROVE s[n][2] \in Pending(t)
    BY <1>1 DEF Pending
  <2>1. n - 1 \in 1 .. Len(t) /\ t[n - 1] = s[n]
    BY <1>1, <1>2
  <2> QED
    BY <2>1 DEF Pending
<1>4. {s[1][2]} \cup Pending(t) \subseteq Pending(s)
  <2>1. 1 \in 1 .. Len(s)
    BY <1>1
  <2>2. ASSUME NEW n \in 1 .. Len(t) PROVE t[n][2] \in Pending(s)
    <3>1. n + 1 \in 1 .. Len(s) /\ t[n] = s[n + 1]
      BY <1>1, <1>2
    <3> QED
      BY <3>1 DEF Pending
  <2> QED
    BY <2>1, <2>2 DEF Pending
<1>5. ASSUME LinksLast(s) PROVE LinksLast(t)
  <2> SUFFICES ASSUME NEW n \in 1 .. Len(t), t[n][2][1] = "link", NEW m \in n .. Len(t)
               PROVE  t[m][2][1] = "link"
    BY DEF LinksLast
  <2>1. /\ n + 1 \in 1 .. Len(s) /\ t[n] = s[n + 1]
        /\ m + 1 \in n + 1 .. Len(s) /\ t[m] = s[m + 1]
    BY <1>1, <1>2
  <2> QED
    BY <1>5, <2>1 DEF LinksLast
<1>6. ASSUME LinksLast(s), s[1][2][1] = "link" PROVE \A r \in Pending(s) : r[1] = "link"
  <2>1. 1 \in 1 .. Len(s)
    BY <1>1
  <2>2. \A m \in 1 .. Len(s) : s[m][2][1] = "link"
    BY <1>6, <2>1 DEF LinksLast
  <2> QED
    BY <2>2 DEF Pending
<1> QED
  BY <1>1, <1>3, <1>4, <1>5, <1>6 DEF t

LEMMA PendingBoth ==
    ASSUME NEW R, NEW s \in Seq(R), NEW t \in Seq(R)
    PROVE  /\ Pending(s \o t) = Pending(s) \cup Pending(t)
           /\ (LinksLast(t) /\ \A r \in Pending(s) : r[1] # "link") => LinksLast(s \o t)
<1> DEFINE u == s \o t
<1>1. /\ Len(s) \in Nat /\ Len(t) \in Nat /\ Len(u) = Len(s) + Len(t)
      /\ \A n \in 1 .. Len(s) : u[n] = s[n]
      /\ \A n \in 1 .. Len(t) : u[n + Len(s)] = t[n]
  OBVIOUS
<1> HIDE DEF u
<1>2. \A n \in 1 .. Len(u) : \/ n \in 1 .. Len(s)
                             \/ n - Len(s) \in 1 .. Len(t) /\ u[n] = t[n - Len(s)]
  <2> TAKE n \in 1 .. Len(u)
  <2>1. CASE n <= Len(s)
    BY <1>1, <2>1
  <2>2. CASE ~ (n <= Len(s))
    <3>1. n - Len(s) \in 1 .. Len(t) /\ (n - Len(s)) + Len(s) = n
      BY <1>1, <2>2
    <3>2. u[(n - Len(s)) + Len(s)] = t[n - Len(s)]
      BY <1>1, <3>1
    <3> QED
      BY <3>1, <3>2
  <2> QED
    BY <2>1, <2>2
<1>3. Pending(u) \subseteq Pending(s) \cup Pending(t)
  BY SMTT(30), <1>1, <1>2 DEF Pending
<1>4. Pending(s) \cup Pending(t) \subseteq Pending(u)
  <2>1. \A n \in 1 .. Len(s) : n \in 1 .. Len(u)
    BY <1>1
  <2>2. \A n \in 1 .. Len(t) : n + Len(s) \in 1 .. Len(u)
    BY <1>1
  <2>3. Pending(s) \subseteq Pending(u)
    BY <1>1, <2>1 DEF Pending
  <2>4. ASSUME NEW n \in 1 .. Len(t) PROVE t[n][2] \in Pending(u)
    <3>1. u[n + Len(s)][2] \in Pending(u)
      BY <2>2 DEF Pending
    <3> QED
      BY <1>1, <3>1
  <2> QED
    BY <2>3, <2>4 DEF Pending
<1>5. ASSUME LinksLast(t), \A r \in Pending(s) : r[1] # "link"
      PROVE  LinksLast(u)
  <2> SUFFICES ASSUME NEW n \in 1 .. Len(u), u[n][2][1] = "link", NEW m \in n .. Len(u)
               PROVE  u[m][2][1] = "link"
    BY DEF LinksLast
  <2>1. n \notin 1 .. Len(s)
    BY <1>1, <1>5 DEF Pending
  <2>2. n - Len(s) \in 1 .. Len(t) /\ u[n] = t[n - Len(s)]
    BY <1>2, <2>1
  <2>3. m \in 1 .. Len(u) /\ m \notin 1 .. Len(s) /\ m - Len(s) \in n - Len(s) .. Len(t)
    BY <1>1, <2>2
  <2>4. u[m] = t[m - Len(s)]
    BY <1>2, <2>3
  <2> QED
    BY <1>5, <2>2, <2>3, <2>4 DEF LinksLast
<1> QED
  BY <1>3, <1>4, <1>5 DEF u

LEMMA PendingTries ==
    ASSUME NEW name \in Plain \cup {"loop_status", "loop_ports", "link"}
    PROVE  /\ Try(name) \in Seq(Tries) /\ Try(name) # <<>>
           /\ Pending(Try(name)) = {<<name, 0, n - 1>> : n \in 1 .. Parts(name)}
           /\ \A r \in Pending(Try(name)) : r[1] = name
           /\ <<name, 0, 0>> \in Pending(Try(name))
           /\ Head(Try(name)) = <<"try", <<name, 0, 0>>>>
           /\ LinksLast(Try(name))
<1> DEFINE s == Try(name)
<1>1. /\ s \in Seq(Steps) /\ Len(s) = Parts(name) /\ Parts(name) \in Nat \ {0}
      /\ (\A n \in 1 .. Len(s) : s[n] = <<"try", <<name, 0, n - 1>>>>)
      /\ \A n \in 1 .. Len(s) : <<name, 0, n - 1>> \in Reg
  BY TryLists, PartsNat
<1> HIDE DEF s
<1>2. ASSUME NEW n \in 1 .. Len(s) PROVE s[n] \in Tries
  <2>1. s[n] = <<"try", <<name, 0, n - 1>>>> /\ <<name, 0, n - 1>> \in Reg
    BY <1>1
  <2> QED
    BY <2>1 DEF Tries
<1>3. s \in Seq(Tries)
  BY <1>1, <1>2
<1>4. \A n \in 1 .. Len(s) : s[n][2] = <<name, 0, n - 1>>
  BY <1>1
<1>5. Pending(s) = {<<name, 0, n - 1>> : n \in 1 .. Parts(name)}
  BY <1>1, <1>4 DEF Pending
<1>6. /\ 1 \in 1 .. Len(s) /\ 1 - 1 = 0 /\ s # <<>> /\ Head(s) = s[1]
  BY <1>1
<1>7. \A n \in 1 .. Len(s) : s[n][2][1] = name
  BY <1>4
<1>8. LinksLast(s)
  <2> SUFFICES ASSUME NEW n \in 1 .. Len(s), s[n][2][1] = "link", NEW m \in n .. Len(s)
               PROVE  s[m][2][1] = "link"
    BY DEF LinksLast
  <2>1. m \in 1 .. Len(s)
    BY <1>1
  <2> QED
    BY <1>7, <2>1
<1>9. <<name, 0, 0>> \in Pending(s)
  BY <1>4, <1>6 DEF Pending
<1>10. \A r \in Pending(s) : r[1] = name
  BY <1>7 DEF Pending
<1> QED
  BY <1>1, <1>3, <1>5, <1>6, <1>8, <1>9, <1>10 DEF s

LEMMA PendingNone == <<>> \in Seq(Tries) /\ Pending(<<>>) = {} /\ LinksLast(<<>>)
BY DEF Pending, LinksLast

\* What the options ask for.
LEMMA PendingChecks ==
    ASSUME NEW c
    PROVE  /\ CheckOps(c) \in Seq(Tries) /\ LinksLast(CheckOps(c))
           /\ c.loop => <<"rrcp_config", 0, 0>> \in Pending(CheckOps(c))
           /\ c.vlan \/ c.dot1q => <<"vlan", 0, 0>> \in Pending(CheckOps(c))
           /\ c.up # {} => \A q \in PhysPorts : <<"link", 0, q \div 2>> \in Pending(CheckOps(c))
<1> DEFINE s == IF c.loop THEN Try("rrcp_config") ELSE <<>>
           t == IF c.vlan \/ c.dot1q THEN Try("vlan") ELSE <<>>
           u == IF c.up # {} THEN Try("link") ELSE <<>>
<1>1. /\ s \in Seq(Tries) /\ \A r \in Pending(s) : r[1] # "link"
      /\ c.loop => <<"rrcp_config", 0, 0>> \in Pending(s)
  BY PendingTries, PendingNone DEF Plain
<1>2. /\ t \in Seq(Tries) /\ \A r \in Pending(t) : r[1] # "link"
      /\ c.vlan \/ c.dot1q => <<"vlan", 0, 0>> \in Pending(t)
  BY PendingTries, PendingNone DEF Plain
<1>3. /\ u \in Seq(Tries) /\ LinksLast(u)
      /\ c.up # {} => \A q \in PhysPorts : <<"link", 0, q \div 2>> \in Pending(u)
  <2>1. ASSUME NEW q \in PhysPorts
        PROVE  <<"link", 0, q \div 2>> \in Pending(Try("link"))
    <3>1. q \div 2 + 1 \in 1 .. Parts("link")
      BY StatusReal
    <3>2. (q \div 2 + 1) - 1 = q \div 2
      <4>1. q \in Nat
        BY SwitchRegsAssumption DEF PhysPorts
      <4> QED
        BY <4>1
    <3>3. <<"link", 0, (q \div 2 + 1) - 1>> \in Pending(Try("link"))
      <4>1. Pending(Try("link")) = {<<"link", 0, n - 1>> : n \in 1 .. Parts("link")}
        BY PendingTries
      <4> QED
        BY <3>1, <4>1
    <3> QED
      BY <3>2, <3>3
  <2> QED
    BY <2>1, PendingTries, PendingNone
<1> DEFINE ops == CheckOps(c)
           st == s \o t
<1>4. ops = st \o u
  BY DEF CheckOps
<1> HIDE DEF s, t, u, ops
<1>5. st \in Seq(Tries) /\ Pending(st) = Pending(s) \cup Pending(t)
  BY <1>1, <1>2, PendingBoth
<1>6. \A r \in Pending(st) : r[1] # "link"
  BY <1>1, <1>2, <1>5
<1> HIDE DEF st
<1>7. Pending(st \o u) = Pending(st) \cup Pending(u) /\ LinksLast(st \o u)
  BY <1>3, <1>5, <1>6, PendingBoth
<1>8. ops \in Seq(Tries) /\ LinksLast(ops)
  BY <1>3, <1>4, <1>5, <1>7
<1>9. Pending(ops) = (Pending(s) \cup Pending(t)) \cup Pending(u)
  BY <1>4, <1>5, <1>7
<1>10. c.loop => <<"rrcp_config", 0, 0>> \in Pending(ops)
  BY <1>1, <1>9
<1>11. c.vlan \/ c.dot1q => <<"vlan", 0, 0>> \in Pending(ops)
  BY <1>2, <1>9
<1>12. c.up # {} => \A q \in PhysPorts : <<"link", 0, q \div 2>> \in Pending(ops)
  BY <1>3, <1>9
<1> QED
  BY <1>8, <1>10, <1>11, <1>12 DEF ops

\* What the process knows of a field is true, but for what others have
\* changed since.
AsSeen(a, f) == hw[f] = copy[a][f] \/ f \in foreign[a]
Answered(a, r) == r[1] \in notes[a] \/ \A f \in FieldsIn[r] : AsSeen(a, f)

\* A check greets the switch, or has it take the authkey, or looks at what the
\* options ask, or has come to its verdict.
Greeting(a) ==
    /\ stage[a] \in {"hello", "default", "again"}
    /\ todo[a] = Try("loop_status")
    /\ key[a] = IF stage[a] = "default" THEN DefaultKey ELSE cmd[a].authkey

KeySetting(a) == stage[a] = "setkey" /\ todo[a] \in {Writes("authkey"), <<>>}

Looking(a) ==
    /\ stage[a] = "checks"
    /\ todo[a] \in Seq(Tries) /\ LinksLast(todo[a])
    /\ "changed" \in notes[a] \/ DOMAIN edit[a] = {}
    /\ key[a] = cmd[a].authkey
    /\ hw[Flag("authkey")] = cmd[a].authkey \/ Flag("authkey") \in foreign[a]
    /\ AsSeen(a, Flag("loop_found"))
    /\ \A r \in Pending(CheckOps(cmd[a])) : r \in Pending(todo[a]) \/ Answered(a, r)

Proven(a) == /\ \A w \in Required(cmd[a]) : hw[w[1]] = w[2] \/ w[1] \in foreign[a]
             /\ DOMAIN edit[a] = {}
Concluded(a) == stage[a] \in Verdicts /\ todo[a] = <<>> /\ (stage[a] = "OK" => Proven(a))

Checking(a) == /\ cmd[a] \in sitting[a].commands
               /\ Greeting(a) \/ KeySetting(a) \/ Looking(a) \/ Concluded(a)
VerdictInv == \A a \in Actor : Is(a, "check_rrcp") /\ Running(a) => Checking(a)

LEMMA CheckFields ==
    /\ <<"rrcp_config", 0, 0>> \in Reg /\ Flag("loop_enable") \in FieldsIn[<<"rrcp_config", 0, 0>>]
    /\ <<"vlan", 0, 0>> \in Reg /\ Flag("enable") \in FieldsIn[<<"vlan", 0, 0>>]
    /\ Flag("dot1q") \in FieldsIn[<<"vlan", 0, 0>>]
    /\ {Flag("loop_enable"), Flag("enable"), Flag("dot1q"), Flag("authkey")} \subseteq Field
<1>1. /\ "rrcp_config" \notin DOMAIN PortRegs /\ "vlan" \notin DOMAIN PortRegs
      /\ "authkey" \notin DOMAIN PortRegs
  BY DEF PortRegs
<1>2. ASSUME NEW name \in {"rrcp_config", "vlan", "authkey"} PROVE <<name, 0, 0>> \in Reg
  <2>1. 0 \in 0 .. Parts(name) - 1
    BY PartsNat
  <2>2. name \in DOMAIN FlagRegs /\ SlotsOf(name) = {0}
    BY DEF FlagRegs, SlotsOf
  <2> QED
    BY <2>1, <2>2 DEF Reg
<1>3. /\ Flag("loop_enable") \in FieldsIn[<<"rrcp_config", 0, 0>>]
      /\ Flag("enable") \in FieldsIn[<<"vlan", 0, 0>>]
      /\ Flag("dot1q") \in FieldsIn[<<"vlan", 0, 0>>]
      /\ Flag("authkey") \in FieldsIn[<<"authkey", 0, 0>>]
  BY <1>1, <1>2 DEF FieldsIn, FlagRegs, Flag
<1> QED
  BY <1>2, <1>3, RegFields

LEMMA PendingReal == \A c : Pending(CheckOps(c)) \subseteq Reg
<1> SUFFICES ASSUME NEW c, NEW n \in 1 .. Len(CheckOps(c)) PROVE CheckOps(c)[n][2] \in Reg
  BY DEF Pending
<1>1. CheckOps(c)[n] \in Tries
  BY PendingChecks
<1> QED
  BY <1>1 DEF Tries

\* Everything required is about a register.
LEMMA RequiredFields ==
    ASSUME NEW c, c.up \subseteq 1 .. NumPorts, NEW w \in Required(c)
    PROVE  w[1] \in Field
<1>1. CASE w \in {<<Port("link", Phys[l]), 1>> : l \in c.up}
  <2>1. PICK l \in 1 .. NumPorts : w = <<Port("link", Phys[l]), 1>>
    BY <1>1
  <2>2. Phys[l] \in PhysPorts
    BY <2>1, SwitchRegsAssumption
  <2>3. w[1] \in StatusFields
    BY <2>1, <2>2 DEF StatusFields
  <2> QED
    BY <2>3, StatusReal
<1>2. CASE w \notin {<<Port("link", Phys[l]), 1>> : l \in c.up}
  <2>1. w[1] \in {Flag("loop_enable"), Flag("loop_found"), Flag("enable"), Flag("dot1q"),
                  Flag("authkey")}
    BY <1>2 DEF Required
  <2>2. Flag("loop_found") \in Field
    BY StatusReal DEF StatusFields
  <2> QED
    BY <2>1, <2>2, CheckFields
<1> QED
  BY <1>1, <1>2

LEMMA CheckHand ==
    ASSUME NEW a \in Actor, Checking(a)
    PROVE  /\ \A kind : AtOp(a, kind) => \/ kind = "try" /\ (Greeting(a) \/ Looking(a))
                                         \/ kind = "write" /\ KeySetting(a) /\ Tail(todo[a]) = <<>>
           /\ stage[a] \in {"hello", "default", "again", "setkey", "checks"} \cup Verdicts
<1>1. CASE Greeting(a)
  <2>1. Head(todo[a])[1] = "try"
    <3>1. Head(todo[a]) = <<"try", <<"loop_status", 0, 0>>>>
      BY <1>1, PendingTries DEF Greeting
    <3> QED
      BY <3>1
  <2> QED
    BY <1>1, <2>1 DEF Greeting, AtOp
<1>2. CASE KeySetting(a)
  <2>1. CASE todo[a] = Writes("authkey")
    <3>1. Parts("authkey") = 1
      BY DEF Parts, PortRegs
    <3>2. todo[a] = <<<<"write", <<"authkey", 0, 0>>>>>>
      BY <2>1, <3>1 DEF Writes, All
    <3>3. Head(todo[a]) = <<"write", <<"authkey", 0, 0>>>> /\ Tail(todo[a]) = <<>>
      BY <3>2
    <3>4. Head(todo[a])[1] = "write"
      BY <3>3
    <3> QED
      BY <1>2, <3>3, <3>4 DEF KeySetting, AtOp
  <2>2. CASE todo[a] = <<>>
    BY <1>2, <2>2 DEF KeySetting, AtOp
  <2> QED
    BY <1>2, <2>1, <2>2 DEF KeySetting
<1>3. CASE Looking(a)
  <2>1. todo[a] # <<>> => Head(todo[a])[1] = "try"
    <3>1. todo[a] # <<>> => Head(todo[a]) \in Tries
      BY <1>3 DEF Looking
    <3> QED
      BY <3>1 DEF Tries
  <2> QED
    BY <1>3, <2>1 DEF Looking, AtOp
<1>4. CASE Concluded(a)
  BY <1>4 DEF Concluded, AtOp
<1> QED
  BY <1>1, <1>2, <1>3, <1>4 DEF Checking

\* A check takes the steps of a check, sets the authkey, or ends inside.
LEMMA CheckSteps ==
    ASSUME Owned, NEW a \in Actor, Step(a), Is(a, "check_rrcp"), Running(a) => Checking(a)
    PROVE  \/ CheckRun(a)
           \/ EndInside(a)
           \/ (WriteReg(a) \/ LoseWrite(a)) /\ UNCHANGED toolVars /\ KeySetting(a)
                 /\ Tail(todo[a]) = <<>>
<1>1. \A kind : AtOp(a, kind) => \/ kind = "try"
                                 \/ kind = "write" /\ KeySetting(a) /\ Tail(todo[a]) = <<>>
  BY CheckHand DEF AtOp
<1>2. Running(a) => stage[a] \in {"hello", "default", "again", "setkey", "checks"} \cup Verdicts
  BY CheckHand
<1>3. CASE Session(a)
  <2>1. ~StartRtl83xx(a) /\ ~StartRrcpCli(a) /\ ~GiveCommand(a) /\ ~Finish(a)
    BY <1>2 DEF StartRtl83xx, StartRrcpCli, GiveCommand, Prompt, Finish, AtEnd, Is, Verdicts
  <2>2. ~ReadReg(a) /\ ~SkipWrite(a)
    BY <1>1 DEF ReadReg, SkipWrite
  <2>3. WriteReg(a) \/ LoseWrite(a) => KeySetting(a) /\ Tail(todo[a]) = <<>>
    BY <1>1 DEF WriteReg, LoseWrite, AtWrite
  <2> QED
    BY <1>3, <2>1, <2>2, <2>3 DEF Session, Access
<1>4. ~Capture(a)
  <2>1. ~StartCapture(a) /\ ~Signal(a) /\ ~BeginReset(a)
    BY DEF StartCapture, Signal, Handled, BeginReset, Is
  <2>2. ~StopCapturing(a) /\ ~FinishCapture(a)
    BY <1>2 DEF StopCapturing, FinishCapture, Verdicts
  <2>3. ~AtOp(a, "writeUnlessBreak") /\ ~AtOp(a, "clear")
    BY <1>1
  <2>4. ~SetSecondWord(a) /\ ~ClearCaptured(a)
    BY <2>3 DEF SetSecondWord, ClearCaptured
  <2> QED
    BY <2>1, <2>2, <2>4 DEF Capture
<1>5. ~DetectRun(a)
  <2>1. ~StartDetection(a) /\ ~Decide(a)
    BY DEF StartDetection, Decide, Is
  <2>2. ~CountPorts(a) /\ ~ReadId(a) /\ ~CompareByte(a) /\ ~TestEcho(a)
    BY <1>1 DEF CountPorts, ReadId, CompareByte, TestEcho, AtStep
  <2>3. ~FinishDetection(a)
    BY <1>2 DEF FinishDetection, Verdicts
  <2> QED
    BY <2>1, <2>2, <2>3 DEF DetectRun
<1> QED
  BY <1>3, <1>4, <1>5 DEF Step

\* What others do is told to the check.
LEMMA CheckingApart ==
    ASSUME Owned, Calm, NEW a \in Actor, Apart(a) \/ UNCHANGED vars, Running(a),
           Is(a, "check_rrcp"), Checking(a)
    PROVE  Checking(a)'
<1>1. /\ todo'[a] = todo[a] /\ copy'[a] = copy[a] /\ edit'[a] = edit[a] /\ key'[a] = key[a]
      /\ cmd'[a] = cmd[a] /\ stage'[a] = stage[a] /\ notes'[a] = notes[a] /\ sitting' = sitting
  BY DEF Apart, vars, sharedVars, toolVars
<1>2. /\ foreign[a] \subseteq foreign'[a]
      /\ \A f \in Field : hw'[f] = hw[f] \/ f \in foreign'[a]
  BY DEF Apart, vars, sharedVars
<1>3. \A f \in Field : AsSeen(a, f) => AsSeen(a, f)'
  BY <1>1, <1>2 DEF AsSeen
<1>4. \A v : \A f \in Field : hw[f] = v \/ f \in foreign[a] => hw'[f] = v \/ f \in foreign'[a]
  BY <1>2
<1>5. ASSUME NEW r \in Reg, Answered(a, r) PROVE Answered(a, r)'
  BY <1>1, <1>3, <1>5, RegFields DEF Answered
<1>6. CASE Greeting(a) \/ KeySetting(a)
  BY <1>1, <1>6 DEF Checking, Greeting, KeySetting
<1>7. CASE Looking(a)
  <2>1. \A r \in Pending(CheckOps(cmd[a])) : r \in Pending(todo[a]) \/ Answered(a, r)'
    BY <1>5, <1>7, PendingReal DEF Looking
  <2>2. Flag("authkey") \in Field /\ Flag("loop_found") \in Field
    BY CheckFields, StatusReal DEF StatusFields
  <2>3. AsSeen(a, Flag("loop_found"))'
    BY <1>3, <1>7, <2>2 DEF Looking
  <2>4. hw'[Flag("authkey")] = cmd[a].authkey \/ Flag("authkey") \in foreign'[a]
    BY <1>4, <1>7, <2>2 DEF Looking
  <2> QED
    BY <1>1, <1>7, <2>1, <2>3, <2>4 DEF Checking, Looking
<1>8. CASE Concluded(a)
  <2>1. CASE stage[a] = "OK"
    <3>1. cmd[a].up \subseteq 1 .. NumPorts
      BY CheckAssumption DEF Checking, Is, Calm
    <3>2. ASSUME NEW w \in Required(cmd[a]) PROVE hw'[w[1]] = w[2] \/ w[1] \in foreign'[a]
      <4>1. w[1] \in Field /\ (hw[w[1]] = w[2] \/ w[1] \in foreign[a])
        BY <1>8, <2>1, <3>1, RequiredFields DEF Concluded, Proven
      <4> QED
        BY <1>4, <4>1
    <3> QED
      BY <1>1, <1>8, <2>1, <3>2 DEF Checking, Concluded, Proven
  <2>2. CASE stage[a] # "OK"
    BY <1>1, <1>8, <2>2 DEF Checking, Concluded
  <2> QED
    BY <2>1, <2>2
<1> QED
  BY <1>6, <1>7, <1>8 DEF Checking

\* What a process takes is what there is.
LEMMA Taken ==
    ASSUME Owned, NEW a \in Actor, NEW r, Take(a, r), UNCHANGED hw
    PROVE  /\ \A f \in Field : AsSeen(a, f) \/ f \in FieldsIn[r] => AsSeen(a, f)'
           /\ \A f \in FieldsIn[r] : f \in Field => AsSeen(a, f)'
BY DEF Take, Overtake, AsSeen, Owned, Shape, OfActors

\* A register answers what was asked of it, and leaves the rest.
LEMMA Answers ==
    ASSUME Owned, NEW a \in Actor, NEW r \in Reg, Take(a, r), UNCHANGED <<hw, notes>>
    PROVE  Answered(a, r)' /\ \A q \in Reg : Answered(a, q) => Answered(a, q)'
BY Taken, RegFields DEF Answered

LEMMA StartsCheck ==
    ASSUME Owned, NEW a \in Actor, StartCheck(a)
    PROVE  Checking(a)'
<1>1. PICK c \in sitting[a].commands :
         Begin(a, c, Job(Try("loop_status"), Keep), "hello") /\ key' = [key EXCEPT ![a] = c.authkey]
  BY DEF StartCheck
<1>2. /\ cmd'[a] = c /\ todo'[a] = Try("loop_status") /\ stage'[a] = "hello"
      /\ key'[a] = c.authkey /\ sitting' = sitting
  BY <1>1 DEF Begin, Job, Owned, Rest, Shape, OfActors
<1> QED
  BY <1>2 DEF Checking, Greeting

\* The switch is heard: it has the key of the process.
LEMMA HelloAnsweredCheck ==
    ASSUME IInv, Owned, NEW a \in Actor, Checking(a), HelloAnswered(a)
    PROVE  Checking(a)'
<1> USE DEF Owned, Rest, Shape, OfActors
<1>1. Greeting(a)
  BY CheckHand DEF HelloAnswered, Looking
<1>2. /\ key'[a] = key[a] /\ cmd'[a] = cmd[a] /\ sitting' = sitting /\ hw' = hw
      /\ hw[Flag("authkey")] = key[a]
  BY DEF HelloAnswered, Reaches
<1>3. CASE stage[a] = "default"
  BY <1>2, <1>3 DEF HelloAnswered, GoOn, Checking, KeySetting
<1>4. CASE stage[a] \in {"hello", "again"}
  <2>1. stage'[a] = "checks" /\ todo'[a] = CheckOps(cmd[a])
    BY <1>4 DEF HelloAnswered, GoOn
  <2>2. "changed" \in notes'[a] \/ DOMAIN edit'[a] = {}
    <3>1. CASE stage[a] = "hello"
      <4>1. DOMAIN edit[a] = {}
        BY <3>1 DEF IInv, NothingSet
      <4> QED
        BY <3>1, <4>1 DEF HelloAnswered
    <3>2. CASE stage[a] = "again"
      BY <3>2 DEF HelloAnswered, Note
    <3> QED
      BY <1>4, <3>1, <3>2
  <2>3. AsSeen(a, Flag("loop_found"))'
    <3>1. OpReg(a) = <<"loop_status", 0, 0>>
      <4>1. Head(todo[a]) = <<"try", <<"loop_status", 0, 0>>>>
        BY <1>1, PendingTries DEF Greeting
      <4> QED
        BY <4>1 DEF OpReg
    <3>2. Take(a, <<"loop_status", 0, 0>>)
      BY <3>1 DEF HelloAnswered
    <3> QED
      BY <1>2, <3>2, Taken, StatusReal DEF StatusFields
  <2>4. key[a] = cmd[a].authkey
    BY <1>1, <1>4 DEF Greeting
  <2>5. /\ todo'[a] \in Seq(Tries) /\ LinksLast(todo'[a])
        /\ Pending(CheckOps(cmd'[a])) = Pending(todo'[a])
    <3>1. CheckOps(cmd[a]) \in Seq(Tries) /\ LinksLast(CheckOps(cmd[a]))
      BY PendingChecks
    <3> QED
      BY <1>2, <2>1, <3>1
  <2>6. Looking(a)'
    BY <1>2, <2>1, <2>2, <2>3, <2>4, <2>5 DEF Looking
  <2> QED
    BY <1>2, <2>6 DEF Checking
<1> QED
  BY <1>1, <1>3, <1>4 DEF Greeting

LEMMA HelloFailsCheck ==
    ASSUME Owned, NEW a \in Actor, Checking(a), HelloFails(a)
    PROVE  Checking(a)'
<1> USE DEF Owned, Rest, Shape, OfActors
<1>1. Greeting(a)
  BY CheckHand DEF HelloFails, Looking
<1>2. cmd'[a] = cmd[a] /\ sitting' = sitting
  BY DEF HelloFails
<1>3. CASE key' = [key EXCEPT ![a] = DefaultKey] /\ GoOn(a, "default", todo[a])
  BY <1>1, <1>2, <1>3 DEF GoOn, Checking, Greeting
<1>4. CASE Quit(a, "CRITICAL")
  BY <1>2, <1>4 DEF Quit, GoOn, Checking, Concluded, Verdicts
<1> QED
  BY <1>3, <1>4 DEF HelloFails

LEMMA UseNewKeyCheck ==
    ASSUME Owned, NEW a \in Actor, Checking(a), UseNewKey(a)
    PROVE  Checking(a)'
<1>1. /\ key'[a] = cmd[a].authkey /\ stage'[a] = "again" /\ todo'[a] = Try("loop_status")
      /\ cmd'[a] = cmd[a] /\ sitting' = sitting
  BY DEF UseNewKey, GoOn, Owned, Rest, Shape, OfActors
<1> QED
  BY <1>1 DEF Checking, Greeting

\* Each answer or failure settles the register it is about.
LEMMA CheckAnsweredCheck ==
    ASSUME Owned, NEW a \in Actor, Checking(a), CheckAnswered(a)
    PROVE  Checking(a)'
<1>1. Looking(a) /\ todo[a] # <<>>
  <2>1. stage[a] = "checks" /\ todo[a] # <<>>
    BY DEF CheckAnswered, AtOp
  <2> QED
    BY <2>1 DEF Checking, Greeting, KeySetting, Concluded, Verdicts
<1>2. /\ UNCHANGED <<hw, status, edit, key, toolVars>> /\ Take(a, OpReg(a))
      /\ key[a] = hw[Flag("authkey")]
  BY DEF CheckAnswered, Reaches
<1>3. /\ Tail(todo[a]) \in Seq(Tries) /\ LinksLast(Tail(todo[a]))
      /\ OpReg(a) \in Reg
      /\ Pending(todo[a]) = {OpReg(a)} \cup Pending(Tail(todo[a]))
  <2>1. todo[a] \in Seq(Tries) /\ LinksLast(todo[a])
    BY <1>1 DEF Looking
  <2>2. Head(todo[a]) \in Tries /\ Tail(todo[a]) \in Seq(Tries)
    BY <1>1, <2>1
  <2>3. OpReg(a) \in Reg
    BY <2>2 DEF OpReg, Tries
  <2> QED
    BY <1>1, <2>1, <2>2, <2>3, PendingTail DEF OpReg
<1> DEFINE more == IF /\ OpReg(a)[1] = "rrcp_config"
                      /\ Saw(a, Flag("loop_enable")) = 1
                      /\ Saw(a, Flag("loop_found")) = 1
                   THEN Try("loop_ports") ELSE <<>>
<1>4. todo'[a] = more \o Tail(todo[a])
  BY DEF CheckAnswered, Owned, Rest, OfActors
<1>5. more \in Seq(Tries) /\ \A r \in Pending(more) : r[1] # "link"
  BY PendingTries, PendingNone
<1> HIDE DEF more
<1>6. /\ todo'[a] \in Seq(Tries) /\ LinksLast(todo'[a])
      /\ Pending(Tail(todo[a])) \subseteq Pending(todo'[a])
  <2> DEFINE rest == Tail(todo[a])
  <2>1. rest \in Seq(Tries) /\ LinksLast(rest)
    BY <1>3
  <2> HIDE DEF rest
  <2>2. /\ more \o rest \in Seq(Tries) /\ LinksLast(more \o rest)
        /\ Pending(rest) \subseteq Pending(more \o rest)
    <3>1. \A s, t \in Seq(Tries) : s \o t \in Seq(Tries)
      OBVIOUS
    <3> QED
      BY <1>5, <2>1, <3>1, PendingBoth
  <2> QED
    BY <1>4, <2>2 DEF rest
<1>7. ASSUME NEW r \in Pending(CheckOps(cmd[a]))
      PROVE  r \in Pending(todo'[a]) \/ Answered(a, r)'
  <2>1. r \in Reg
    BY PendingReal
  <2>2. notes' = notes
    BY <1>2 DEF toolVars
  <2>3. PICK o \in Reg : o = OpReg(a)
    BY <1>3
  <2>4. Answered(a, o)' /\ (Answered(a, r) => Answered(a, r)')
    BY <1>2, <2>1, <2>2, <2>3, Answers
  <2>5. r \in Pending(todo[a]) => r = o \/ r \in Pending(todo'[a])
    BY <1>3, <1>6, <2>3
  <2>6. r \in Pending(todo[a]) \/ Answered(a, r)
    BY <1>1 DEF Looking
  <2>7. r = o => Answered(a, r)'
    BY <2>4
  <2> QED
    BY <2>4, <2>5, <2>6, <2>7
<1>8. AsSeen(a, Flag("loop_found"))'
  <2>1. Flag("loop_found") \in Field /\ AsSeen(a, Flag("loop_found"))
    BY <1>1, StatusReal DEF StatusFields, Looking
  <2> QED
    BY <1>2, <2>1, Taken
<1>9. /\ key'[a] = key[a] /\ cmd'[a] = cmd[a] /\ sitting' = sitting /\ hw' = hw
      /\ stage'[a] = stage[a] /\ notes'[a] = notes[a] /\ edit'[a] = edit[a]
  BY <1>2 DEF toolVars
<1>10. Looking(a)'
  BY <1>1, <1>2, <1>6, <1>7, <1>8, <1>9 DEF Looking
<1> QED
  BY <1>9, <1>10 DEF Checking

LEMMA CheckFailsCheck ==
    ASSUME Owned, NEW a \in Actor, Checking(a), CheckFails(a)
    PROVE  Checking(a)'
<1>1. Looking(a) /\ todo[a] # <<>>
  <2>1. stage[a] = "checks" /\ todo[a] # <<>>
    BY DEF CheckFails, AtOp
  <2> QED
    BY <2>1 DEF Checking, Greeting, KeySetting, Concluded, Verdicts
<1>2. /\ hw' = hw /\ copy'[a] = copy[a] /\ edit'[a] = edit[a] /\ key'[a] = key[a]
      /\ foreign'[a] = foreign[a] /\ cmd'[a] = cmd[a] /\ stage'[a] = stage[a]
      /\ sitting' = sitting /\ notes'[a] = notes[a] \cup {OpReg(a)[1]}
      /\ todo'[a] = IF OpReg(a)[1] = "link" THEN <<>> ELSE Tail(todo[a])
  BY DEF CheckFails, Note, Owned, Rest, Shape, OfActors
<1>3. /\ Tail(todo[a]) \in Seq(Tries) /\ LinksLast(Tail(todo[a]))
      /\ Pending(todo[a]) = {OpReg(a)} \cup Pending(Tail(todo[a]))
      /\ OpReg(a)[1] = "link" => \A r \in Pending(todo[a]) : r[1] = "link"
  <2>1. todo[a] \in Seq(Tries) /\ LinksLast(todo[a])
    BY <1>1 DEF Looking
  <2>2. Tail(todo[a]) \in Seq(Tries)
    BY <1>1, <2>1
  <2> QED
    BY <1>1, <2>1, <2>2, PendingTail DEF OpReg
<1>4. todo'[a] \in Seq(Tries) /\ LinksLast(todo'[a])
  BY <1>2, <1>3, PendingNone
<1>5. \A r : Answered(a, r) => Answered(a, r)'
  BY <1>2 DEF Answered, AsSeen
<1>6. ASSUME NEW r \in Pending(todo[a])
      PROVE  r \in Pending(todo'[a]) \/ r[1] = OpReg(a)[1]
  BY <1>2, <1>3
<1>7. ASSUME NEW r \in Pending(CheckOps(cmd[a]))
      PROVE  r \in Pending(todo'[a]) \/ Answered(a, r)'
  <2>1. r \in Pending(todo[a]) \/ Answered(a, r)
    BY <1>1 DEF Looking
  <2>2. r[1] = OpReg(a)[1] => Answered(a, r)'
    BY <1>2 DEF Answered
  <2> QED
    BY <1>5, <1>6, <2>1, <2>2
<1>8. AsSeen(a, Flag("loop_found"))'
  BY <1>1, <1>2 DEF Looking, AsSeen
<1>9. Looking(a)'
  BY <1>1, <1>2, <1>4, <1>7, <1>8 DEF Looking
<1> QED
  BY <1>2, <1>9 DEF Checking

\* With nothing left to ask, what has not been noted has been seen.
LEMMA ConcludeCheck ==
    ASSUME Owned, Calm, NEW a \in Actor, Is(a, "check_rrcp"), Checking(a), Conclude(a)
    PROVE  Checking(a)'
<1> DEFINE c == cmd[a]
           True(f, v) == hw[f] = v \/ f \in foreign[a]
           warns == \/ "changed" \in notes[a] \/ LoopWarning(a) \/ VlanWarning(a) \/ PortsWarning(a)
<1>1. Looking(a) /\ todo[a] = <<>>
  BY DEF Conclude, Checking, Greeting, KeySetting, Concluded, Verdicts
<1>2. /\ hw' = hw /\ foreign'[a] = foreign[a] /\ cmd'[a] = c /\ sitting' = sitting
      /\ edit'[a] = edit[a] /\ todo'[a] = <<>>
      /\ stage'[a] = IF warns THEN "WARNING" ELSE "OK"
  BY DEF Conclude, Quit, GoOn, Owned, Rest, Shape, OfActors
<1>3. ASSUME ~warns PROVE Proven(a)
  <2>1. \A r \in Pending(CheckOps(c)) : r[1] \in notes[a] \/ \A f \in FieldsIn[r] : AsSeen(a, f)
    BY <1>1, PendingNone DEF Looking, Answered
  <2>2. DOMAIN edit[a] = {}
    BY <1>1, <1>3 DEF Looking
  <2>3. ASSUME c.loop PROVE True(Flag("loop_enable"), 1) /\ True(Flag("loop_found"), 0)
    <3>1. "rrcp_config" \notin notes[a] /\ Has(a, "loop_enable") /\ ~Has(a, "loop_found")
      BY <1>3, <2>3 DEF LoopWarning
    <3>2. <<"rrcp_config", 0, 0>> \in Pending(CheckOps(c))
      BY <2>3, PendingChecks
    <3>3. AsSeen(a, Flag("loop_enable"))
      <4>1. <<"rrcp_config", 0, 0>>[1] = "rrcp_config"
        OBVIOUS
      <4> QED
        BY <2>1, <3>1, <3>2, <4>1, CheckFields
    <3>4. AsSeen(a, Flag("loop_found")) /\ hw[Flag("loop_found")] \in {0, 1}
      BY <1>1 DEF Looking, Calm, StatusFields
    <3> QED
      BY <3>1, <3>3, <3>4 DEF AsSeen, Has
  <2>4. ASSUME c.vlan \/ c.dot1q
        PROVE  True(Flag("enable"), 1) /\ (c.dot1q => True(Flag("dot1q"), 1))
    <3>1. "vlan" \notin notes[a] /\ Has(a, "enable") /\ (c.dot1q => Has(a, "dot1q"))
      BY <1>3, <2>4 DEF VlanWarning
    <3>2. <<"vlan", 0, 0>> \in Pending(CheckOps(c))
      BY <2>4, PendingChecks
    <3>3. AsSeen(a, Flag("enable")) /\ AsSeen(a, Flag("dot1q"))
      <4>1. <<"vlan", 0, 0>>[1] = "vlan"
        OBVIOUS
      <4> QED
        BY <2>1, <3>1, <3>2, <4>1, CheckFields
    <3> QED
      BY <3>1, <3>3 DEF AsSeen, Has
  <2>5. ASSUME NEW l \in c.up PROVE True(Port("link", Phys[l]), 1)
    <3> DEFINE q == Phys[l]
               r == <<"link", 0, q \div 2>>
    <3>1. q \in PhysPorts
      <4>1. c.up \subseteq 1 .. NumPorts
        BY CheckAssumption DEF Checking, Is, Calm
      <4> QED
        BY <4>1, SwitchRegsAssumption
    <3>2. "link" \notin notes[a] /\ copy[a][Port("link", q)] # 0
      BY <1>3, <2>5 DEF PortsWarning
    <3>3. r \in Pending(CheckOps(c)) /\ r[1] = "link" /\ Port("link", q) \in FieldsIn[r]
      BY <2>5, <3>1, PendingChecks, StatusReal
    <3>4. AsSeen(a, Port("link", q))
      BY <2>1, <3>2, <3>3
    <3>5. hw[Port("link", q)] \in {0, 1}
      BY <3>1 DEF Calm, StatusFields
    <3> QED
      BY <3>2, <3>4, <3>5 DEF AsSeen
  <2>6. True(Flag("authkey"), c.authkey)
    BY <1>1 DEF Looking
  <2> HIDE DEF c
  <2>7. \A w \in Required(c) : True(w[1], w[2])
    <3> SUFFICES ASSUME NEW w \in Required(c) PROVE True(w[1], w[2])
      OBVIOUS
    <3>1. CASE w \in {<<Port("link", Phys[l]), 1>> : l \in c.up}
      BY <2>5, <3>1
    <3>2. CASE w = <<Flag("authkey"), c.authkey>>
      BY <2>6, <3>2
    <3>3. CASE c.loop /\ w \in {<<Flag("loop_enable"), 1>>, <<Flag("loop_found"), 0>>}
      BY <2>3, <3>3
    <3>4. CASE (c.vlan \/ c.dot1q) /\ w = <<Flag("enable"), 1>>
      BY <2>4, <3>4
    <3>5. CASE c.dot1q /\ w = <<Flag("dot1q"), 1>>
      BY <2>4, <3>5
    <3> QED
      BY <3>1, <3>2, <3>3, <3>4, <3>5 DEF Required
  <2> QED
    BY <2>2, <2>7 DEF Proven, c
<1>4. Concluded(a)'
  BY <1>2, <1>3 DEF Concluded, Proven, Verdicts
<1> QED
  BY <1>2, <1>4 DEF Checking

LEMMA CheckOwn ==
    ASSUME IInv, Owned, Calm, NEW a \in Actor, Step(a), Is(a, "check_rrcp"),
           Running(a) => Checking(a)
    PROVE  Running(a)' => Checking(a)'
<1>1. ASSUME NEW how, how # "running", Exit(a, how) PROVE ~Running(a)'
  BY <1>1 DEF Exit, Leave, Running, Owned, Shape, OfActors
<1>2. CASE EndInside(a) \/ ExitCheck(a)
  BY <1>1, <1>2 DEF EndInside, ExitCheck
<1>3. CASE (WriteReg(a) \/ LoseWrite(a)) /\ UNCHANGED toolVars /\ KeySetting(a)
              /\ Tail(todo[a]) = <<>>
  <2>1. Checking(a)
    BY <1>3 DEF WriteReg, LoseWrite, Reaches
  <2>2. todo'[a] = <<>>
    BY <1>3 DEF WriteReg, LoseWrite, Advance, Owned, Rest, OfActors
  <2> QED
    BY <1>3, <2>1, <2>2 DEF Checking, KeySetting, toolVars
<1>4. CASE StartCheck(a)
  BY <1>4, StartsCheck
<1>5. CASE HelloAnswered(a)
  BY <1>5, HelloAnsweredCheck DEF HelloAnswered, AtOp
<1>6. CASE HelloFails(a)
  BY <1>6, HelloFailsCheck DEF HelloFails, AtOp
<1>7. CASE UseNewKey(a)
  BY <1>7, UseNewKeyCheck DEF UseNewKey
<1>8. CASE CheckAnswered(a)
  BY <1>8, CheckAnsweredCheck DEF CheckAnswered, AtOp
<1>9. CASE CheckFails(a)
  BY <1>9, CheckFailsCheck DEF CheckFails, AtOp
<1>10. CASE Conclude(a)
  BY <1>10, ConcludeCheck DEF Conclude
<1>11. CASE Alarm(a)
  <2>1. /\ Checking(a) /\ stage'[a] = "CRITICAL" /\ todo'[a] = <<>>
        /\ cmd' = cmd /\ sitting' = sitting
    BY <1>11 DEF Alarm, Quit, GoOn, Owned, Rest, Shape, OfActors
  <2> QED
    BY <2>1 DEF Checking, Concluded, Verdicts
<1> QED
  BY <1>2, <1>3, <1>4, <1>5, <1>6, <1>7, <1>8, <1>9, <1>10, <1>11, CheckSteps DEF CheckRun

LEMMA VerdictKept ==
    ASSUME IInv, Owned, Calm, VerdictInv, [Next]_vars
    PROVE  VerdictInv'
<1> SUFFICES ASSUME NEW a \in Actor, (Is(a, "check_rrcp") /\ Running(a))'
             PROVE  Checking(a)'
  BY DEF VerdictInv
<1>1. CASE Step(a)
  <2>1. Is(a, "check_rrcp")
    BY <1>1, RestStep DEF Is
  <2> QED
    BY <1>1, <2>1, CheckOwn DEF VerdictInv
<1>2. CASE Apart(a) \/ UNCHANGED vars
  <2>1. Is(a, "check_rrcp") /\ Running(a)
    BY <1>2 DEF Apart, vars, sharedVars, toolVars, Is, Running
  <2> QED
    BY <1>2, <2>1, CheckingApart DEF VerdictInv
<1> QED
  BY <1>1, <1>2, StepOrApart

\* check_rrcp says OK only when the switch is as the options ask in everything
\* they name, but for what has changed since it was looked at, and only when
\* it has not itself changed the authkey: whatever answer is missing, whatever
\* the other tools write and the cables do meanwhile.
THEOREM VerdictTrueHolds == Spec => []VerdictTrue
<1>1. Init => Calm /\ VerdictInv
  <2> SUFFICES ASSUME Init PROVE Calm /\ VerdictInv
    OBVIOUS
  <2>1. VerdictInv
    BY DEF Init, SharedInit, VerdictInv, Running
  <2>2. sitting \in Sittings /\ (\A a \in Actor : todo[a] \in Seq(Steps)) /\ hw \in InitialHw
    BY StepLists DEF Init, SharedInit
  <2> QED
    BY <2>1, <2>2, CheckAssumption DEF Calm
<1>2. IInv /\ Owned /\ Calm /\ VerdictInv /\ [Next]_vars => Calm' /\ VerdictInv'
  BY CalmKept, VerdictKept
<1>3. VerdictInv => VerdictTrue
  <2> SUFFICES ASSUME VerdictInv, NEW a \in Actor, Is(a, "check_rrcp"), Running(a), stage[a] = "OK"
               PROVE  Proven(a)
    BY DEF VerdictTrue, Proven
  <2>1. Checking(a)
    BY DEF VerdictInv
  <2> QED
    BY <2>1 DEF Checking, Greeting, KeySetting, Looking, Concluded
<1> QED
  BY <1>1, <1>2, <1>3, AlwaysOwned, Invariance, PTL DEF Spec

-----------------------------------------------------------------------------
(***************************************************************************)
(* What a command comes to                                                 *)
(***************************************************************************)
\* A command has each field it sets still to be written, or it is there, or
\* was changed by others since, unless a SET was lost; what it reads of them
\* comes before it writes them.  It compares a register with what it has just
\* read.
Settled(a, f) == hw[f] = edit[a][f] \/ f \in foreign[a]
AsRead(a, f) == copy[a][f] \in {hw[f], Unread} \/ f \in foreign[a]

Committed(a) == Running(a) /\ stage[a] = "command" =>
    /\ Ordered(todo[a], DOMAIN edit[a])
    /\ Fresh(todo[a])
    /\ AtOp(a, "writeIfChanged") => \A f \in FieldsIn[OpReg(a)] : AsRead(a, f)
    /\ ~lost[a] => \A f \in DOMAIN edit[a] : Due(todo[a], f) \/ Settled(a, f)

LEMMA OtherStages ==
    /\ \A s : s # "command" => ToolsAt(s) \cap {"rtl83xx", "rrcpcli"} = {}
    /\ ToolsAt("command") = {"rtl83xx", "rrcpcli"}
BY DEF ToolsAt, Verdicts

\* The other tools are never at a command.
LEMMA OtherTools ==
    ASSUME Owned, Calm, NEW a \in Actor, Sound(a), Sound(a)',
           Capture(a) \/ CheckRun(a) \/ DetectRun(a)
    PROVE  ~Is(a, "rtl83xx") /\ ~Is(a, "rrcpcli") /\ ~(Running(a)' /\ stage'[a] = "command")
<1>1. Staged(a) /\ Staged(a)'
  BY DEF Sound
<1>2. UNCHANGED sitting
  BY RestStep DEF Step
<1>3. ASSUME Running(a), stage[a] # "command" PROVE sitting[a].tool \notin {"rtl83xx", "rrcpcli"}
  BY <1>1, <1>3, OtherStages DEF Staged
<1>4. ASSUME NEW kind, AtOp(a, kind), kind \in {"writeUnlessBreak", "clear", "try", "phy", "id", "compare", "echo"}
      PROVE  sitting[a].tool \notin {"rtl83xx", "rrcpcli"}
  <2>1. kind \in KindsAt(stage[a]) /\ Running(a)
    BY <1>1, <1>4, AtKind DEF AtOp
  <2>2. stage[a] # "command"
    BY <1>4, <2>1, AtStage
  <2> QED
    BY <1>3, <2>1, <2>2
<1>5. sitting[a].tool \notin {"rtl83xx", "rrcpcli"}
  <2>1. CASE Capture(a)
    <3>1. CASE StartCapture(a) \/ Signal(a) \/ BeginReset(a)
      BY <3>1 DEF StartCapture, Signal, Handled, BeginReset, Is
    <3>2. CASE SetSecondWord(a) \/ ClearCaptured(a)
      BY <1>4, <3>2 DEF SetSecondWord, ClearCaptured
    <3>3. CASE StopCapturing(a) \/ FinishCapture(a)
      BY <1>3, <3>3 DEF StopCapturing, FinishCapture
    <3> QED
      BY <2>1, <3>1, <3>2, <3>3 DEF Capture
  <2>2. CASE CheckRun(a)
    <3>1. CASE StartCheck(a) \/ Alarm(a)
      BY <3>1 DEF StartCheck, Alarm, Is
    <3>2. CASE HelloAnswered(a) \/ HelloFails(a) \/ CheckAnswered(a) \/ CheckFails(a)
      BY <1>4, <3>2 DEF HelloAnswered, HelloFails, CheckAnswered, CheckFails
    <3>3. CASE UseNewKey(a) \/ Conclude(a) \/ ExitCheck(a)
      BY <1>3, <3>3 DEF UseNewKey, Conclude, ExitCheck, Verdicts
    <3> QED
      BY <2>2, <3>1, <3>2, <3>3 DEF CheckRun
  <2>3. CASE DetectRun(a)
    <3>1. CASE StartDetection(a) \/ Decide(a)
      BY <3>1 DEF StartDetection, Decide, Is
    <3>2. CASE CountPorts(a) \/ ReadId(a) \/ CompareByte(a) \/ TestEcho(a)
      BY <1>4, <3>2 DEF CountPorts, ReadId, CompareByte, TestEcho, AtStep
    <3>3. CASE FinishDetection(a)
      BY <1>3, <3>3 DEF FinishDetection
    <3> QED
      BY <2>3, <3>1, <3>2, <3>3 DEF DetectRun
  <2> QED
    BY <2>1, <2>2, <2>3
<1>6. ~(Running(a)' /\ stage'[a] = "command")
  BY <1>1, <1>2, <1>5, OtherStages DEF Staged
<1> QED
  BY <1>5, <1>6 DEF Is

\* A step of another, or of the cables.
LEMMA CommittedApart ==
    ASSUME Owned, Calm, NEW a \in Actor, Committed(a), Typed(a), Apart(a) \/ UNCHANGED vars
    PROVE  Committed(a)'
<1>1. /\ UNCHANGED <<status[a], todo[a], copy[a], edit[a], lost[a], stage[a]>>
      /\ foreign[a] \subseteq foreign'[a]
      /\ Running(a) => \A f \in Field : hw'[f] # hw[f] => f \in foreign'[a]
  BY DEF Apart, vars, sharedVars, toolVars
<1>2. ASSUME Running(a)' PROVE Running(a)
  BY <1>1, <1>2 DEF Running
<1>3. ASSUME Running(a), NEW f \in Field
      PROVE  (AsRead(a, f) => AsRead(a, f)') /\ (Settled(a, f) => Settled(a, f)')
  BY <1>1, <1>3 DEF AsRead, Settled
<1>4. DOMAIN edit[a] \subseteq Field
  BY DEF Typed, IsEdit
<1>5. AtOp(a, "writeIfChanged") => FieldsIn[OpReg(a)] \subseteq Field
  BY NextOther
<1>6. /\ AtOp(a, "writeIfChanged")' => AtOp(a, "writeIfChanged") /\ OpReg(a)' = OpReg(a)
      /\ (Running(a) /\ stage[a] = "command")' => Running(a) /\ stage[a] = "command"
  BY <1>1 DEF AtOp, OpReg, Running
<1> QED
  BY <1>1, <1>3, <1>4, <1>5, <1>6 DEF Committed, Running

\* A read: what it has set and read again it writes again later.
LEMMA CommittedRead ==
    ASSUME Owned, Calm, NEW a \in Actor, Sound(a), Committed(a), ReadReg(a),
           edit' = [edit EXCEPT ![a] = Refined(a)], UNCHANGED toolVars
    PROVE  Committed(a)'
<1> SUFFICES ASSUME Running(a)', stage'[a] = "command" PROVE Committed(a)'
  BY DEF Committed
<1> DEFINE r == OpReg(a)
<1>1. /\ AtOp(a, "read") /\ Running(a) /\ stage[a] = "command" /\ Take(a, r)
      /\ todo'[a] = Tail(todo[a]) /\ edit'[a] = Refined(a) /\ UNCHANGED <<hw, lost>>
  BY DEF ReadReg, Reaches, Advance, AtOp, toolVars, Owned, Rest, Shape, OfActors
<1>2. /\ todo[a] \in Seq(Steps) /\ todo[a] # <<>> /\ Reading(Head(todo[a])) /\ Head(todo[a])[2] = r
      /\ ~Storing(Head(todo[a])) /\ FieldsIn[r] \subseteq Field
      /\ Clearing(a) => ClearOrder(todo[a])
  <2>1. todo[a] \in Seq(Steps) /\ todo[a] # <<>> /\ Reading(Head(todo[a])) /\ Head(todo[a])[2] = r
        /\ ~Storing(Head(todo[a]))
    BY <1>1 DEF AtOp, OpReg, Calm, Reading, Storing
  <2>2. FieldsIn[r] \subseteq Field
    BY <1>1, NextRead
  <2>3. Clearing(a) => ClearOrder(todo[a])
    BY <1>1 DEF Sound, Prepared
  <2> QED
    BY <2>1, <2>2, <2>3
<1> HIDE DEF r
<1>3. /\ Ordered(todo[a], DOMAIN edit[a]) /\ Fresh(todo[a])
      /\ ~lost[a] => \A f \in DOMAIN edit[a] : Due(todo[a], f) \/ Settled(a, f)
  BY <1>1 DEF Committed
<1>4. /\ \A f \in Field : copy'[a][f] = IF f \in FieldsIn[r] THEN hw[f] ELSE copy[a][f]
      /\ foreign'[a] = foreign[a] \ FieldsIn[r]
  BY <1>1 DEF Take, Overtake, Owned, Shape, OfActors
<1>5. DOMAIN edit'[a] = DOMAIN edit[a]
  <2>1. DOMAIN Refined(a) = DOMAIN edit[a]
    BY DEF Refined
  <2> QED
    BY <1>1, <2>1
<1>6. /\ Ordered(todo'[a], DOMAIN edit'[a])
      /\ \A f \in DOMAIN edit[a] : f \in FieldsIn[r] => Due(todo'[a], f)
      /\ \A f \in DOMAIN edit[a] : Due(todo[a], f) => Due(todo'[a], f)
      /\ Clearing(a) => Due(todo'[a], Vid(0))
  <2>1. /\ Ordered(Tail(todo[a]), DOMAIN edit[a])
        /\ \A f \in DOMAIN edit[a] \cap FieldsIn[r] : Due(Tail(todo[a]), f)
    BY <1>2, <1>3, RestOrdered
  <2>2. \A f : Due(todo[a], f) => Due(Tail(todo[a]), f)
    BY <1>2, RestDue
  <2>3. Clearing(a) => Due(Tail(todo[a]), Vid(0))
    BY <1>2, RestClears
  <2> QED
    BY <1>1, <1>5, <2>1, <2>2, <2>3
<1>7. /\ Fresh(todo'[a])
      /\ AtOp(a, "writeIfChanged")' => OpReg(a)' = r
  <2>1. /\ Fresh(Tail(todo[a]))
        /\ Tail(todo[a]) # <<>> /\ Head(Tail(todo[a]))[1] = "writeIfChanged" =>
              Head(todo[a]) = <<"read", Head(Tail(todo[a]))[2]>>
    BY <1>2, <1>3, RestFresh
  <2>2. Fresh(todo'[a])
    BY <1>1, <2>1
  <2>3. AtOp(a, "writeIfChanged")' => Head(todo[a]) = <<"read", Head(todo'[a])[2]>>
    BY <1>1, <2>1 DEF AtOp
  <2>4. AtOp(a, "writeIfChanged")' => Head(todo'[a])[2] = r
    BY <1>2, <2>3
  <2> QED
    BY <2>2, <2>4 DEF OpReg
<1>8. AtOp(a, "writeIfChanged")' => \A f \in FieldsIn[OpReg(a)'] : AsRead(a, f)'
  BY <1>1, <1>2, <1>4, <1>7 DEF AsRead
<1>9. ASSUME ~lost'[a], NEW f \in DOMAIN edit'[a]
      PROVE  Due(todo'[a], f) \/ Settled(a, f)'
  <2>1. CASE f \in FieldsIn[r] \/ Due(todo[a], f) \/ (Clearing(a) /\ f = Vid(0))
    BY <1>5, <1>6, <1>9, <2>1
  <2>2. CASE f \notin FieldsIn[r] /\ ~Due(todo[a], f) /\ ~(Clearing(a) /\ f = Vid(0))
    <3>1. Settled(a, f)
      BY <1>1, <1>3, <1>5, <1>9, <2>2
    <3>2. edit'[a][f] = edit[a][f]
      <4>1. f \in DOMAIN edit[a]
        BY <1>5, <1>9
      <4>2. Refined(a)[f] = edit[a][f]
        BY <2>2, <4>1 DEF Refined, Clearing
      <4> QED
        BY <1>1, <4>2
    <3> QED
      BY <1>1, <1>4, <2>2, <3>1, <3>2 DEF Settled
  <2> QED
    BY <2>1, <2>2
<1> QED
  BY <1>6, <1>7, <1>8, <1>9 DEF Committed

\* A write, one that is lost, and one there is no need for.
LEMMA CommittedWrite ==
    ASSUME Owned, Calm, NEW a \in Actor, Sound(a), Committed(a), UNCHANGED toolVars,
           WriteReg(a) \/ LoseWrite(a) \/ SkipWrite(a)
    PROVE  Committed(a)'
<1> SUFFICES ASSUME Running(a)', stage'[a] = "command" PROVE Committed(a)'
  BY DEF Committed
<1> DEFINE r == OpReg(a)
<1>1. PICK kind \in {"write", "writeIfChanged"} : AtOp(a, kind)
  BY DEF WriteReg, LoseWrite, SkipWrite, AtWrite
<1>2. /\ Running(a) /\ stage[a] = "command" /\ todo'[a] = Tail(todo[a]) /\ UNCHANGED <<copy, edit>>
  BY <1>1 DEF WriteReg, LoseWrite, SkipWrite, Advance, AtOp, toolVars, Owned, Rest, Shape, OfActors
<1>3. /\ todo[a] \in Seq(Steps) /\ todo[a] # <<>> /\ ~Reading(Head(todo[a])) /\ Head(todo[a])[2] = r
      /\ Head(todo[a])[1] = kind
  BY <1>1 DEF AtOp, OpReg, Calm, Reading
<1>4. FieldsIn[r] \subseteq Field
  BY <1>1, NextOther
<1> HIDE DEF r
<1>5. /\ Ordered(todo[a], DOMAIN edit[a]) /\ Fresh(todo[a])
      /\ ~lost[a] => \A f \in DOMAIN edit[a] : Due(todo[a], f) \/ Settled(a, f)
      /\ AtOp(a, "writeIfChanged") => \A f \in FieldsIn[r] : AsRead(a, f)
  BY <1>2 DEF Committed, r
<1>6. Ordered(todo'[a], DOMAIN edit'[a])
  BY <1>2, <1>3, <1>5, RestOrdered
<1>7. Fresh(todo'[a]) /\ ~AtOp(a, "writeIfChanged")'
  <2>1. /\ Fresh(Tail(todo[a]))
        /\ Tail(todo[a]) # <<>> /\ Head(Tail(todo[a]))[1] = "writeIfChanged" =>
              Head(todo[a]) = <<"read", Head(Tail(todo[a]))[2]>>
    BY <1>3, <1>5, RestFresh
  <2>2. \A x : Head(todo[a]) # <<"read", x>>
    BY <1>3
  <2> QED
    BY <1>2, <2>1, <2>2 DEF AtOp
<1>8. \A f : Due(todo[a], f) => Due(todo'[a], f) \/ f \in FieldsIn[r]
  BY <1>2, <1>3, RestDue
<1>9. ASSUME ~lost'[a], NEW f \in DOMAIN edit'[a]
      PROVE  Due(todo'[a], f) \/ Settled(a, f)'
  <2>1. f \in DOMAIN edit[a] /\ f \in Field
    BY <1>2, <1>9 DEF Sound, Typed, IsEdit
  <2>2. CASE WriteReg(a)
    <3>1. /\ \A g \in Field : hw'[g] = IF g \in FieldsIn[r] THEN Value(a, g) ELSE hw[g]
          /\ foreign'[a] = foreign[a] \ FieldsIn[r] /\ lost' = lost
      BY <2>2 DEF WriteReg, Written, Overtake, r
    <3>2. CASE f \in FieldsIn[r]
      BY <1>2, <2>1, <3>1, <3>2 DEF Value, Settled
    <3>3. CASE f \notin FieldsIn[r]
      <4>1. Due(todo[a], f) \/ Settled(a, f)
        BY <1>5, <1>9, <2>1, <3>1
      <4>2. Settled(a, f) => Settled(a, f)'
        BY <1>2, <2>1, <3>1, <3>3 DEF Settled
      <4> QED
        BY <1>8, <3>3, <4>1, <4>2
    <3> QED
      BY <3>2, <3>3
  <2>3. CASE LoseWrite(a)
    <3>1. lost'[a] = TRUE
      BY <2>3 DEF LoseWrite, Owned, Rest, OfActors
    <3> QED
      BY <1>9, <3>1
  <2>4. CASE SkipWrite(a)
    <3>1. AtOp(a, "writeIfChanged") /\ (\A g \in FieldsIn[r] : Value(a, g) = copy[a][g])
          /\ UNCHANGED <<hw, foreign, lost>>
      BY <2>4 DEF SkipWrite, Unchanged, r
    <3>2. CASE f \in FieldsIn[r]
      <4>1. edit[a][f] = copy[a][f] /\ edit[a][f] # Unread
        <5>1. edit[a][f] = copy[a][f]
          BY <2>1, <3>1, <3>2 DEF Value
        <5>2. edit[a][f] \in Legal(f)
          BY <2>1 DEF Sound, Typed, IsEdit
        <5> QED
          BY <5>1, <5>2, LegalRead
      <4>2. AsRead(a, f)
        BY <1>5, <3>1, <3>2
      <4>3. Settled(a, f)
        BY <4>1, <4>2 DEF AsRead, Settled
      <4> QED
        BY <1>2, <3>1, <4>3 DEF Settled
    <3>3. CASE f \notin FieldsIn[r]
      <4>1. Due(todo[a], f) \/ Settled(a, f)
        BY <1>5, <1>9, <2>1, <3>1
      <4>2. Settled(a, f) => Settled(a, f)'
        BY <1>2, <3>1 DEF Settled
      <4> QED
        BY <1>8, <3>3, <4>1, <4>2
    <3> QED
      BY <3>2, <3>3
  <2> QED
    BY <2>2, <2>3, <2>4
<1> QED
  BY <1>6, <1>7, <1>9 DEF Committed

\* What is in a list of writes is due.
LEMMA DueIn == \A s, f : Due(s, f) <=> f \in StoredIn(s)
BY DEF Due, StoredIn

LEMMA GoodCommits ==
    ASSUME NEW job, NEW K, GoodJob(job, K)
    PROVE  /\ job.ops \in Seq(Commands) /\ IsEdit(job.edit)
           /\ Ordered(job.ops, DOMAIN job.edit) /\ Fresh(job.ops)
           /\ \A f \in DOMAIN job.edit : Due(job.ops, f)
BY DueIn DEF GoodJob, InOrder

\* A command that begins has read nothing.
LEMMA CommittedBegin ==
    ASSUME Owned, IInv, NEW a \in Actor, NEW c, NEW job, Begin(a, c, job, "command"),
           job.ops \in Seq(Commands), Ordered(job.ops, DOMAIN job.edit), Fresh(job.ops),
           \A f \in DOMAIN job.edit : Due(job.ops, f)
    PROVE  Committed(a)'
<1>1. /\ ~Running(a) /\ todo'[a] = job.ops /\ edit'[a] = job.edit /\ UNCHANGED copy
  BY DEF Begin, Running, Owned, Shape, Rest, OfActors
<1>2. \A f \in Field : copy'[a][f] = Unread
  BY <1>1 DEF IInv, Ignorant
<1>3. AtOp(a, "writeIfChanged")' => FieldsIn[OpReg(a)'] \subseteq Field
  <2> SUFFICES ASSUME todo'[a] # <<>> PROVE FieldsIn[OpReg(a)'] \subseteq Field
    BY DEF AtOp
  <2>1. Head(todo'[a]) \in Commands
    <3> DEFINE S == Commands
    <3>1. job.ops \in Seq(S) /\ job.ops # <<>>
      BY <1>1
    <3> HIDE DEF S
    <3>2. Head(job.ops) \in S
      BY <3>1
    <3> QED
      BY <1>1, <3>2 DEF S
  <2>2. OpReg(a)' \in Reg
    BY <2>1 DEF OpReg, Commands, ConfigRegs
  <2> QED
    BY <2>2, RegFields
<1> QED
  BY <1>1, <1>2, <1>3 DEF Committed, AsRead

LEMMA CommittedStep ==
    ASSUME Owned, Calm, IInv, HwLegal, NEW a \in Actor, Sound(a), Sound(a)', Committed(a), Step(a)
    PROVE  Committed(a)'
<1>1. CASE ~Session(a)
  <2>1. ~(Running(a)' /\ stage'[a] = "command")
    BY <1>1, OtherTools DEF Step
  <2> QED
    BY <2>1 DEF Committed
<1>2. CASE StartRtl83xx(a)
  <2>1. PICK c \in sitting[a].commands, wraps \in BOOLEAN :
           Begin(a, c, Rtl83xxJob(c, wraps), "command")
    BY <1>2 DEF StartRtl83xx
  <2>2. IsRtl83xx(c)
    BY <1>2, CommandsAssumption DEF StartRtl83xx, Is, Calm
  <2> DEFINE job == Rtl83xxJob(c, wraps)
  <2>3. GoodJob(job, {}) /\ Begin(a, c, job, "command")
    BY <2>1, <2>2, GoodRtl83xxJob
  <2> HIDE DEF job
  <2>4. /\ job.ops \in Seq(Commands) /\ Ordered(job.ops, DOMAIN job.edit) /\ Fresh(job.ops)
        /\ \A f \in DOMAIN job.edit : Due(job.ops, f)
    BY <2>3, GoodCommits
  <2> QED
    BY <2>3, <2>4, CommittedBegin
<1>3. CASE StartRrcpCli(a)
  <2> DEFINE job == Job(ReadConfig, Keep)
  <2>1. job.ops = ReadConfig /\ job.edit = <<>>
    BY DEF Job, Keep
  <2>2. Begin(a, NoCmd, job, "command")
    BY <1>3 DEF StartRrcpCli
  <2> HIDE DEF job
  <2>3. DOMAIN job.edit = {}
    BY <2>1, NoEdit
  <2>4. job.ops \in Seq(Commands) /\ job.ops \in Seq({"read", "write"} \X ConfigRegs)
    <3>1. \A S, T : S \subseteq T => Seq(S) \subseteq Seq(T)
      OBVIOUS
    <3>2. {"read"} \X ConfigRegs \subseteq Commands
          /\ {"read"} \X ConfigRegs \subseteq {"read", "write"} \X ConfigRegs
      BY DEF Commands
    <3> QED
      BY <2>1, <3>1, <3>2, ConfigIn
  <2>5. Fresh(job.ops)
    BY <2>4, NeverCompares
  <2>6. Ordered(job.ops, DOMAIN job.edit)
    BY <2>3 DEF Ordered
  <2> QED
    BY <2>2, <2>3, <2>4, <2>5, <2>6, CommittedBegin
<1>4. CASE GiveCommand(a)
  <2>1. PICK c \in sitting[a].commands :
           /\ todo' = [todo EXCEPT ![a] = CliJob(a, c).ops]
           /\ edit' = [edit EXCEPT ![a] = CliJob(a, c).edit ++ @]
    BY <1>4 DEF GiveCommand
  <2>2. Prompt(a) /\ IsRrcpCli(c) /\ Running(a) /\ todo[a] = <<>>
        /\ UNCHANGED <<hw, status, lost, foreign, stage>>
    BY <1>4, CommandsAssumption DEF GiveCommand, Prompt, Is, Calm
  <2> DEFINE job == CliJob(a, c)
  <2>3. GoodCli(job)
    BY <2>2, CliJobGood DEF Sound
  <2>4. todo'[a] = job.ops /\ edit'[a] = job.edit ++ edit[a]
    BY <2>1 DEF Owned, Rest, Shape, OfActors
  <2> HIDE DEF job
  <2>5. job.ops \in Seq({"write"} \X ConfigRegs) /\ \A f \in DOMAIN job.edit : Due(job.ops, f)
    BY <2>3, GoodCommits DEF GoodCli
  <2>6. (\A D : Ordered(job.ops, D)) /\ Fresh(job.ops) /\ ~AtOp(a, "writeIfChanged")'
    <3>1. \A S, T : S \subseteq T => Seq(S) \subseteq Seq(T)
      OBVIOUS
    <3>2. {"write"} \X ConfigRegs \subseteq {"read", "write"} \X ConfigRegs
      OBVIOUS
    <3>3. job.ops \in Seq({"read", "write"} \X ConfigRegs)
      BY <2>5, <3>1, <3>2
    <3>4. Fresh(job.ops)
      BY <3>3, NeverCompares
    <3>5. job.ops # <<>> => Head(job.ops)[1] = "write"
      <4> DEFINE S == {"write"} \X ConfigRegs
      <4>1. job.ops \in Seq(S) /\ \A x \in S : x[1] = "write"
        BY <2>5
      <4> HIDE DEF S
      <4>2. job.ops # <<>> => Head(job.ops) \in S
        BY <4>1
      <4> QED
        BY <4>1, <4>2
    <3> QED
      BY <2>4, <2>5, <3>4, <3>5, OnlyWritesList DEF AtOp
  <2>7. ASSUME stage[a] = "command", ~lost[a], NEW f \in DOMAIN edit'[a]
        PROVE  Due(todo'[a], f) \/ Settled(a, f)'
    <3>1. CASE f \in DOMAIN job.edit
      BY <2>4, <2>5, <3>1
    <3>2. CASE f \notin DOMAIN job.edit
      <4>1. f \in DOMAIN edit[a] /\ edit'[a][f] = edit[a][f]
        BY <2>4, <2>7, <3>2 DEF ++
      <4>2. ~Due(todo[a], f)
        BY <2>2 DEF Due
      <4>3. Settled(a, f)
        BY <2>2, <2>7, <4>1, <4>2 DEF Committed
      <4> QED
        BY <2>2, <4>1, <4>3 DEF Settled
    <3> QED
      BY <3>1, <3>2
  <2> QED
    BY <2>2, <2>4, <2>6, <2>7 DEF Committed
<1>5. CASE Access(a)
  BY <1>5, CommittedRead, CommittedWrite DEF Access
<1>6. CASE Finish(a) \/ EndInside(a)
  <2>1. ~Running(a)'
    BY <1>6 DEF Finish, EndInside, Exit, Leave, Running, Owned, Shape, OfActors
  <2> QED
    BY <2>1 DEF Committed
<1> QED
  BY <1>1, <1>2, <1>3, <1>4, <1>5, <1>6 DEF Session

-----------------------------------------------------------------------------
(***************************************************************************)
(* What a command sets is what it is for                                   *)
(***************************************************************************)
Same(e, g) == DOMAIN e = DOMAIN g /\ \A f \in DOMAIN g : e[f] = g[f]

LEMMA PortsAsked ==
    /\ \A name, c, v : PortsTo(name, {Phys[l] : l \in c.ports}, v) = OnPorts(name, c, v)
    /\ \A name, v : DOMAIN PortsTo(name, {}, v) = {}
    /\ \A name, c, v : DOMAIN OnPorts(name, c, v) = {Port(name, Phys[l]) : l \in c.ports}
<1>1. ASSUME NEW name, NEW c, NEW v
      PROVE  PortsTo(name, {Phys[l] : l \in c.ports}, v) = OnPorts(name, c, v)
  <2>1. {Port(name, q) : q \in {Phys[l] : l \in c.ports}} = {Port(name, Phys[l]) : l \in c.ports}
    OBVIOUS
  <2> QED
    BY <2>1 DEF PortsTo, OnPorts
<1> QED
  BY <1>1 DEF PortsTo, OnPorts

LEMMA FlagsAsked == \A name, v : Flags({name}, v) = OnSwitch(name, v)
<1> SUFFICES ASSUME NEW name, NEW v PROVE Flags({name}, v) = OnSwitch(name, v)
  OBVIOUS
<1>1. {Flag(n) : n \in {name}} = {Flag(name)}
  OBVIOUS
<1> QED
  BY <1>1 DEF Flags, OnSwitch

\* The commands for ports.
LEMMA PortJobsFit ==
    ASSUME NEW c, IsRtl83xx(c), c.word \in InterfaceWords, ~Surprising(c, "rtl83xx"),
           NEW wraps
    PROVE  Same(InterfaceJob(c, wraps).edit, PortCommand(c))
<1> DEFINE ports == {Phys[l] : l \in c.ports}
<1>1. ports \in SUBSET PhysPorts
  BY PortsOf DEF IsRtl83xx
<1>2. \A name, v : PortsTo(name, ports, v) = OnPorts(name, c, v)
  BY PortsAsked
<1>3. c.arg \in ArgsOf(c.no, c.word)
  BY DEF IsRtl83xx
<1>4. ASSUME NEW name, NEW val
      PROVE  do_32bit_reg_action(name, ports, val).edit = OnPorts(name, c, IF val # 0 THEN 0 ELSE 1)
  BY <1>2 DEF do_32bit_reg_action, Job
<1>5. \A e : Same(e, e)
  BY DEF Same
<1>6. CASE c.word = "interface shutdown"
  <2>1. PortCommand(c) = OnPorts("port_disable", c, Bit(~c.no))
    BY <1>6 DEF PortCommand
  <2>2. InterfaceJob(c, wraps).edit = OnPorts("port_disable", c, IF Not(On(c)) # 0 THEN 0 ELSE 1)
    BY <1>4, <1>6 DEF InterfaceJob, do_port_disable
  <2>3. (IF Not(On(c)) # 0 THEN 0 ELSE 1) = Bit(~c.no)
    BY DEF Not, On, Bit
  <2> QED
    BY <1>5, <2>1, <2>2, <2>3
<1>7. CASE c.word \in {"interface mac-address learning", "interface rrcp", "interface mls qos cos",
                       "interface trunk"}
  <2>1. /\ c.word # "interface mls qos cos" => c.arg \in {"disable", "enable"}
        /\ c.word = "interface mls qos cos" => c.arg \in {"7", "0"}
    BY <1>3, <1>7 DEF ArgsOf
  <2>2. CASE c.word = "interface mac-address learning"
    <3>1. PortCommand(c) = OnPorts("alt_mask", c, Bit(c.arg = "disable"))
      BY <2>2 DEF PortCommand
    <3> DEFINE n == Pos(<<"learning", "disable", "enable">>, c.arg) - 1
    <3>2. InterfaceJob(c, wraps).edit = OnPorts("alt_mask", c, IF n # 0 THEN 0 ELSE 1)
      BY <1>4, <2>2 DEF InterfaceJob, do_port_learning
    <3>3. (IF n # 0 THEN 0 ELSE 1) = Bit(c.arg = "disable")
      <4> DEFINE p == Pos(<<"learning", "disable", "enable">>, c.arg)
      <4>1. (c.arg = "disable" => p = 1) /\ (c.arg = "enable" => p = 2)
        BY Numbers
      <4> HIDE DEF p
      <4>2. (c.arg = "disable" => p - 1 = 0) /\ (c.arg = "enable" => p - 1 = 1)
        BY <4>1
      <4> QED
        BY <2>1, <2>2, <4>2 DEF Bit, p
    <3> QED
      BY <1>5, <3>1, <3>2, <3>3
  <2>3. CASE c.word = "interface rrcp"
    <3>1. PortCommand(c) = OnPorts("rrcp_byport_disable", c, Bit(c.arg = "disable"))
      BY <2>3 DEF PortCommand
    <3> DEFINE n == Pos(ena_disa, c.arg)
    <3>2. InterfaceJob(c, wraps).edit = OnPorts("rrcp_byport_disable", c, IF n # 0 THEN 0 ELSE 1)
      BY <1>4, <2>3 DEF InterfaceJob, do_restrict_rrcp
    <3>3. (IF n # 0 THEN 0 ELSE 1) = Bit(c.arg = "disable")
      BY <2>1, <2>3, Numbers DEF Bit
    <3> QED
      BY <1>5, <3>1, <3>2, <3>3
  <2>4. CASE c.word = "interface mls qos cos"
    <3>1. PortCommand(c) = OnPorts("qos_port_priority", c, Bit(c.arg = "7"))
      BY <2>4 DEF PortCommand
    <3> DEFINE n == Pos(<<"7", "0">>, c.arg)
    <3>2. InterfaceJob(c, wraps).edit = OnPorts("qos_port_priority", c, IF n # 0 THEN 0 ELSE 1)
      BY <1>4, <2>4 DEF InterfaceJob, do_port_qos
    <3>3. (IF n # 0 THEN 0 ELSE 1) = Bit(c.arg = "7")
      BY <2>1, <2>4, Numbers DEF Bit
    <3> QED
      BY <1>5, <3>1, <3>2, <3>3
  <2>5. CASE c.word = "interface trunk"
    <3>1. PortCommand(c) = OnPorts("insert_vid", c, Bit(c.arg = "enable"))
      BY <2>5 DEF PortCommand
    <3> DEFINE n == Not(Pos(ena_disa, c.arg))
    <3>2. InterfaceJob(c, wraps).edit = OnPorts("insert_vid", c, IF n # 0 THEN 0 ELSE 1)
      BY <1>4, <2>5 DEF InterfaceJob, do_insert_vid, Job
    <3>3. (IF n # 0 THEN 0 ELSE 1) = Bit(c.arg = "enable")
      BY <2>1, <2>5, Numbers DEF Bit, Not
    <3> QED
      BY <1>5, <3>1, <3>2, <3>3
  <2> QED
    BY <1>7, <2>2, <2>3, <2>4, <2>5
<1>8. CASE c.word = "interface index"
  <2>1. PortCommand(c) = OnPorts("port_vlan", c, c.slots[1])
    BY <1>8 DEF PortCommand
  <2>2. InterfaceJob(c, wraps).edit = OnPorts("port_vlan", c, c.slots[1])
    BY <1>2, <1>8 DEF InterfaceJob, do_vlan_index_ctrl, Job
  <2> QED
    BY <1>5, <2>1, <2>2
<1>9. CASE c.word = "interface tag"
  <2> DEFINE val == Pos(<<"remove", "insert-high", "insert-all", "none">>, c.arg)
             shifted == {q % IntTags : q \in {q \in ports : wraps \/ q < IntTags}}
             signed == IF IntTags - 1 \in shifted THEN {q \in PhysPorts : q >= IntTags} ELSE {}
             w == IF val >= 2 THEN 3 ELSE 0
  <2>1. PortCommand(c) = OnPorts("output_tag", c, val)
    <3>1. PortCommand(c) = OnPorts("output_tag", c, CASE c.arg = "remove"      -> 0
                                                      [] c.arg = "insert-high" -> 1
                                                      [] c.arg = "insert-all"  -> 2
                                                      [] c.arg = "none"        -> 3)
      BY <1>9 DEF PortCommand
    <3>2. c.arg \in {"remove", "insert-high", "insert-all", "none"}
      BY <1>3, <1>9 DEF ArgsOf
    <3>3. val = CASE c.arg = "remove"      -> 0
                  [] c.arg = "insert-high" -> 1
                  [] c.arg = "insert-all"  -> 2
                  [] c.arg = "none"        -> 3
      BY <3>2, Numbers
    <3> QED
      BY <3>1, <3>3
  <2>2. InterfaceJob(c, wraps).edit = PortsTo("output_tag", shifted, val) ++ PortsTo("output_tag", signed, w)
    BY <1>9 DEF InterfaceJob, do_tag_command, Job
  <2>3. \A q \in ports : q \in Nat /\ q < IntTags - 1
    <3>1. \A l \in c.ports : ~(Phys[l] >= IntTags - 1) /\ l \in 1 .. NumPorts
      BY <1>9 DEF Surprising, IsRtl83xx
    <3> QED
      BY SMTT(30), <3>1, SwitchRegsAssumption DEF PhysPorts
  <2>4. \A q \in ports : q % IntTags = q /\ q < IntTags
    <3>1. IntTags \in Nat \ {0}
      BY SwitchRegsAssumption
    <3>2. \A q \in Nat : q < IntTags => q % IntTags = q
      BY <3>1
    <3> QED
      BY <2>3, <3>1, <3>2
  <2>5. shifted = ports
    BY <2>4
  <2>6. signed = {}
    BY <2>3, <2>5
  <2> HIDE DEF val, shifted, signed, w
  <2>7. InterfaceJob(c, wraps).edit = OnPorts("output_tag", c, val) ++ PortsTo("output_tag", {}, w)
    BY <1>2, <2>2, <2>5, <2>6
  <2>8. DOMAIN PortsTo("output_tag", {}, w) = {}
    BY PortsAsked
  <2> QED
    BY <2>1, <2>7, <2>8 DEF ++, Same
<1>10. CASE c.word = "interface rate-limit"
  <2> DEFINE dir == IF c.arg = "" THEN 0 ELSE 1 + Pos(<<"input", "output">>, c.arg)
             x == IF c.arg = "output" THEN <<>> ELSE OnPorts("rx", c, c.num)
             y == IF c.arg = "input" THEN <<>> ELSE OnPorts("tx", c, c.num)
             u == PortsTo("rx", IF dir \in {0, 1} THEN ports ELSE {}, c.num)
             v == PortsTo("tx", IF dir \in {0, 2} THEN ports ELSE {}, c.num)
  <2>1. c.arg \in {"", "input", "output"} /\ ~c.no
    BY <1>3, <1>10 DEF ArgsOf, IsRtl83xx, Negatable
  <2>2. PortCommand(c) = x ++ y
    BY <1>10, <2>1 DEF PortCommand
  <2>3. InterfaceJob(c, wraps).edit = u ++ v
    BY <1>10 DEF InterfaceJob, do_port_config_bandwidth, Job
  <2>4. /\ c.arg = "" => dir = 0
        /\ c.arg = "input" => dir = 1
        /\ c.arg = "output" => dir = 2
    <3> DEFINE p == Pos(<<"input", "output">>, c.arg)
    <3>1. (c.arg = "input" => p = 0) /\ (c.arg = "output" => p = 1)
      BY Numbers
    <3> HIDE DEF p
    <3>2. (c.arg = "input" => 1 + p = 1) /\ (c.arg = "output" => 1 + p = 2)
      BY <3>1
    <3> QED
      BY <3>2 DEF p
  <2>5. DOMAIN <<>> = {}
    OBVIOUS
  <2>6. DOMAIN u = DOMAIN x /\ (c.arg # "output" => u = x)
    <3>1. PortsTo("rx", ports, c.num) = OnPorts("rx", c, c.num)
          /\ DOMAIN PortsTo("rx", {}, c.num) = {}
      BY <1>2, PortsAsked
    <3>2. dir \in {0, 1} <=> c.arg # "output"
      <4> HIDE DEF dir
      <4>1. CASE c.arg = "output"
        <5>1. dir = 2
          BY <2>4, <4>1
        <5> QED
          BY <4>1, <5>1
      <4>2. CASE c.arg # "output"
        <5>1. dir = 0 \/ dir = 1
          BY <2>1, <2>4, <4>2
        <5> QED
          BY <4>2, <5>1
      <4> QED
        BY <4>1, <4>2
    <3> HIDE DEF dir, ports
    <3> QED
      BY <2>5, <3>1, <3>2
  <2>7. DOMAIN v = DOMAIN y /\ (c.arg # "input" => v = y)
    <3>1. PortsTo("tx", ports, c.num) = OnPorts("tx", c, c.num)
          /\ DOMAIN PortsTo("tx", {}, c.num) = {}
      BY <1>2, PortsAsked
    <3>2. dir \in {0, 2} <=> c.arg # "input"
      <4> HIDE DEF dir
      <4>1. CASE c.arg = "input"
        <5>1. dir = 1
          BY <2>4, <4>1
        <5> QED
          BY <4>1, <5>1
      <4>2. CASE c.arg # "input"
        <5>1. dir = 0 \/ dir = 2
          BY <2>1, <2>4, <4>2
        <5> QED
          BY <4>2, <5>1
      <4> QED
        BY <4>1, <4>2
    <3> HIDE DEF dir, ports
    <3> QED
      BY <2>5, <3>1, <3>2
  <2>8. (c.arg = "output" => DOMAIN x = {}) /\ (c.arg = "input" => DOMAIN y = {})
    BY <2>5
  <2> HIDE DEF x, y, u, v, dir
  <2> QED
    BY <2>2, <2>3, <2>6, <2>7, <2>8 DEF ++, Same
<1>11. CASE c.word = "interface flow-control"
  <2> DEFINE val == 32 * Pos(<<"none", "asym2remote", "symmetric", "asym2local">>, c.arg)
             x == [f \in {Port("media", q) : q \in {}} |-> MediaFor(val, f[3])]
             y == OnPorts("pause", c, PauseFor(val))
  <2>1. c.arg \in {"none", "asym2remote", "symmetric", "asym2local"}
    BY <1>3, <1>11 DEF ArgsOf
  <2>2. PauseFor(val) = CASE c.arg = "none"        -> {}
                          [] c.arg = "asym2remote" -> {"pause"}
                          [] c.arg = "symmetric"   -> {"pause_asy"}
                          [] c.arg = "asym2local"  -> {"pause", "pause_asy"}
    BY <2>1, Numbers DEF PauseFor
  <2>3. PortCommand(c) = y
    BY <1>11, <2>2 DEF PortCommand
  <2>4. InterfaceJob(c, wraps).edit = x ++ PortsTo("pause", ports, PauseFor(val))
    <3>1. InterfaceJob(c, wraps) = do_port_config(1, ports, val)
      BY <1>11 DEF InterfaceJob
    <3>2. {q \in ports : 1 = 0 /\ val = 16 => q \in Gigabit} = ports
      OBVIOUS
    <3> HIDE DEF val, ports
    <3>3. do_port_config(1, ports, val).edit = x ++ PortsTo("pause", ports, PauseFor(val))
      BY <3>2 DEF do_port_config, Job
    <3> QED
      BY <3>1, <3>3
  <2>5. DOMAIN x = {}
    OBVIOUS
  <2> HIDE DEF x, val
  <2> QED
    BY <1>2, <2>3, <2>4, <2>5 DEF ++, Same
<1>12. CASE c.word = "interface speed"
  <2> DEFINE val == MediaSpeed(c.arg, c.arg2)
             taken == {q \in ports : val = 16 => q \in Gigabit}
             x == [f \in {Port("media", q) : q \in taken} |-> MediaFor(val, f[3])]
             y == PortsTo("pause", {}, PauseFor(val))
  <2>1. c.arg \in {"auto", "10", "100", "1000"} /\ c.arg2 \in {"", "half", "full"}
        /\ ~(c.arg = "1000" /\ c.arg2 = "full")
    BY <1>3, <1>12 DEF ArgsOf, IsRtl83xx, Surprising
  <2>2. /\ c.arg = "auto" => val = 0
        /\ c.arg = "10" => val = IF c.arg2 = "full" THEN 2 ELSE 1
        /\ c.arg = "100" => val = IF c.arg2 = "full" THEN 8 ELSE 4
        /\ c.arg = "1000" => val = 16
    <3>1. /\ speed_encode("auto") = 0 /\ speed_encode("10") = 1
          /\ speed_encode("100") = 4 /\ speed_encode("1000") = 16
      BY DEF speed_encode
    <3>2. (IF c.arg2 = "full" THEN 2 ELSE 1) \in {1, 2}
      OBVIOUS
    <3> DEFINE m == IF c.arg2 = "full" THEN 2 ELSE 1
    <3>3. 0 * m = 0 /\ 1 * m = m /\ 4 * m = (IF c.arg2 = "full" THEN 8 ELSE 4)
          /\ (c.arg2 # "full" => 16 * m = 16)
      BY <3>2
    <3>4. val = speed_encode(c.arg) * m
      BY DEF MediaSpeed
    <3> HIDE DEF m, val
    <3> QED
      BY <2>1, <3>1, <3>3, <3>4 DEF m
  <2> HIDE DEF val
  <2>3. val \in {0, 1, 2, 4, 8, 16} /\ (val = 16 <=> c.arg = "1000")
    <3>1. CASE c.arg \in {"auto", "1000"}
      BY <2>2, <3>1
    <3>2. CASE c.arg = "10"
      BY <2>2, <3>2
    <3>3. CASE c.arg = "100"
      BY <2>2, <3>3
    <3> QED
      BY <2>1, <3>1, <3>2, <3>3
  <2>4. InterfaceJob(c, wraps).edit = x ++ y
    <3>1. InterfaceJob(c, wraps) = do_port_config(0, ports, val)
      BY <1>12 DEF InterfaceJob, val
    <3>2. do_port_config(0, ports, val).edit = x ++ y
      BY <2>3 DEF do_port_config, Job
    <3> QED
      BY <3>1, <3>2
  <2>5. DOMAIN y = {}
    BY PortsAsked
  <2>7. \A q : MediaFor(val, q) = IF c.arg = "auto" THEN AutoMedia(q) ELSE MediaNamed(c.arg, c.arg2)
    <3>1. CASE c.arg \in {"auto", "1000"}
      BY <2>2, <3>1 DEF MediaFor, MediaNamed
    <3>2. CASE c.arg = "10"
      BY <2>2, <3>2 DEF MediaFor, MediaNamed
    <3>3. CASE c.arg = "100"
      BY <2>2, <3>3 DEF MediaFor, MediaNamed
    <3> QED
      BY <2>1, <3>1, <3>2, <3>3
  <2>8. CASE c.arg = "auto"
    <3>1. PortCommand(c) = [f \in {Port("media", Phys[l]) : l \in c.ports} |-> AutoMedia(f[3])]
      BY <1>12, <2>8 DEF PortCommand
    <3>2. {Port("media", q) : q \in taken} = {Port("media", Phys[l]) : l \in c.ports}
      BY <2>3, <2>8
    <3>3. x = PortCommand(c)
      BY <2>7, <2>8, <3>1, <3>2
    <3> HIDE DEF x, y
    <3> QED
      BY <2>4, <2>5, <3>3 DEF ++, Same
  <2>9. CASE c.arg # "auto"
    <3> DEFINE some == {l \in c.ports : c.arg = "1000" => Phys[l] \in Gigabit}
    <3>1. PortCommand(c) = [f \in {Port("media", Phys[l]) : l \in some} |-> MediaNamed(c.arg, c.arg2)]
      BY <1>12, <2>9 DEF PortCommand
    <3>2. {Port("media", q) : q \in taken} = {Port("media", Phys[l]) : l \in some}
      BY <2>3, <2>9
    <3> HIDE DEF some
    <3>3. x = PortCommand(c)
      BY <2>7, <2>9, <3>1, <3>2
    <3> HIDE DEF x, y
    <3> QED
      BY <2>4, <2>5, <3>3 DEF ++, Same
  <2> QED
    BY <2>8, <2>9
<1> QED
  BY <1>6, <1>7, <1>8, <1>9, <1>10, <1>11, <1>12 DEF InterfaceWords

\* Maps of different fields may come in any order.
LEMMA Reordered ==
    ASSUME NEW a, NEW b, NEW c, NEW d, NEW e, NEW x, NEW y, NEW z,
           Same(c, x), Same(a, y), Same(d, z),
           \A f \in DOMAIN a : f[1] = "port_vlan",
           \A f \in DOMAIN b : f[1] = "output_tag",
           \A f \in DOMAIN c : f[1] = "vlan_entry",
           \A f \in DOMAIN d : f[1] = "vlan_vid",
           \A f \in DOMAIN e : f[1] = "insert_vid"
    PROVE  /\ Same(a ++ b ++ c ++ d ++ e, x ++ y ++ z ++ b ++ e)
           /\ \A f \in DOMAIN (a ++ b ++ c ++ d ++ e) : f[1] \notin {"enable", "dot1q"}
<1> DEFINE ab == a ++ b
           abc == ab ++ c
           abcd == abc ++ d
           xy == x ++ y
           xyz == xy ++ z
           xyzb == xyz ++ b
<1>1. /\ DOMAIN a = DOMAIN y /\ \A f \in DOMAIN y : a[f] = y[f]
      /\ DOMAIN c = DOMAIN x /\ \A f \in DOMAIN x : c[f] = x[f]
      /\ DOMAIN d = DOMAIN z /\ \A f \in DOMAIN z : d[f] = z[f]
  BY DEF Same
<1>2. /\ DOMAIN ab = DOMAIN a \cup DOMAIN b
      /\ \A f \in DOMAIN a : ab[f] = a[f]
      /\ \A f \in DOMAIN b : ab[f] = b[f]
  <2>1. DOMAIN a \cap DOMAIN b = {}
    BY <1>1
  <2> QED
    BY <2>1 DEF ++
<1>3. /\ DOMAIN xy = DOMAIN x \cup DOMAIN y
      /\ \A f \in DOMAIN x : xy[f] = x[f]
      /\ \A f \in DOMAIN y : xy[f] = y[f]
  <2>1. DOMAIN x \cap DOMAIN y = {}
    BY <1>1
  <2> QED
    BY <2>1 DEF ++
<1> HIDE DEF ab, xy
<1>4. /\ DOMAIN abc = DOMAIN ab \cup DOMAIN c
      /\ \A f \in DOMAIN ab : abc[f] = ab[f]
      /\ \A f \in DOMAIN c : abc[f] = c[f]
  <2>1. DOMAIN ab \cap DOMAIN c = {}
    BY <1>1, <1>2
  <2> QED
    BY <2>1 DEF ++
<1>5. /\ DOMAIN xyz = DOMAIN xy \cup DOMAIN z
      /\ \A f \in DOMAIN xy : xyz[f] = xy[f]
      /\ \A f \in DOMAIN z : xyz[f] = z[f]
  <2>1. DOMAIN xy \cap DOMAIN z = {}
    BY <1>1, <1>3
  <2> QED
    BY <2>1 DEF ++
<1> HIDE DEF abc, xyz
<1>6. /\ DOMAIN abcd = DOMAIN abc \cup DOMAIN d
      /\ \A f \in DOMAIN abc : abcd[f] = abc[f]
      /\ \A f \in DOMAIN d : abcd[f] = d[f]
  <2>1. DOMAIN abc \cap DOMAIN d = {}
    BY <1>1, <1>2, <1>4
  <2> QED
    BY <2>1 DEF ++
<1>7. /\ DOMAIN xyzb = DOMAIN xyz \cup DOMAIN b
      /\ \A f \in DOMAIN xyz : xyzb[f] = xyz[f]
      /\ \A f \in DOMAIN b : xyzb[f] = b[f]
  <2>1. DOMAIN xyz \cap DOMAIN b = {}
    BY <1>1, <1>3, <1>5
  <2> QED
    BY <2>1 DEF ++
<1> HIDE DEF abcd, xyzb
<1>8. /\ DOMAIN (abcd ++ e) = DOMAIN a \cup DOMAIN b \cup DOMAIN c \cup DOMAIN d \cup DOMAIN e
      /\ DOMAIN (xyzb ++ e) = DOMAIN x \cup DOMAIN y \cup DOMAIN z \cup DOMAIN b \cup DOMAIN e
  <2>1. /\ DOMAIN (abcd ++ e) = DOMAIN abcd \cup DOMAIN e
        /\ DOMAIN (xyzb ++ e) = DOMAIN xyzb \cup DOMAIN e
    BY DEF ++
  <2> QED
    BY <1>2, <1>3, <1>4, <1>5, <1>6, <1>7, <2>1
<1>9. /\ \A f \in DOMAIN a : (abcd ++ e)[f] = a[f] /\ (xyzb ++ e)[f] = y[f]
      /\ \A f \in DOMAIN b : (abcd ++ e)[f] = b[f] /\ (xyzb ++ e)[f] = b[f]
      /\ \A f \in DOMAIN c : (abcd ++ e)[f] = c[f] /\ (xyzb ++ e)[f] = x[f]
      /\ \A f \in DOMAIN d : (abcd ++ e)[f] = d[f] /\ (xyzb ++ e)[f] = z[f]
      /\ \A f \in DOMAIN e : (abcd ++ e)[f] = e[f] /\ (xyzb ++ e)[f] = e[f]
  <2>1. DOMAIN abcd \cap DOMAIN e = {} /\ DOMAIN xyzb \cap DOMAIN e = {}
    BY <1>1, <1>2, <1>3, <1>4, <1>5, <1>6, <1>7
  <2>2. /\ \A f \in DOMAIN abcd : (abcd ++ e)[f] = abcd[f]
        /\ \A f \in DOMAIN e : (abcd ++ e)[f] = e[f]
        /\ \A f \in DOMAIN xyzb : (xyzb ++ e)[f] = xyzb[f]
        /\ \A f \in DOMAIN e : (xyzb ++ e)[f] = e[f]
    BY <2>1 DEF ++
  <2> QED
    BY <1>1, <1>2, <1>3, <1>4, <1>5, <1>6, <1>7, <2>2
<1>10. Same(abcd ++ e, xyzb ++ e)
  BY <1>1, <1>8, <1>9 DEF Same
<1>11. \A f \in DOMAIN (abcd ++ e) : f[1] \notin {"enable", "dot1q"}
  BY <1>8
<1> QED
  BY <1>10, <1>11 DEF ab, abc, abcd, xy, xyz, xyzb

\* The bits of the ports in the whole table.
LEMMA MemberBits ==
    ASSUME NEW j \in Slots, NEW p \in PhysPorts, NEW clear \in BOOLEAN
    PROVE  (IF p \in TableMembers(j, clear) THEN 1 ELSE 0) =
               IF clear THEN Bit(j = 0) ELSE Tree(j, p)
<1>1. NumPorts \in Nat /\ NumPorts >= 2 /\ j \in Nat /\ p \in Nat
  BY SwitchRegsAssumption DEF Slots, PhysPorts
<1>2. CASE clear
  <2>1. TableMembers(j, clear) = IF j = 0 THEN PhysPorts ELSE {}
    BY <1>2 DEF TableMembers
  <2> QED
    BY <1>2, <2>1 DEF Bit
<1>3. CASE ~clear /\ j \in {NumPorts - 2, NumPorts - 1}
  <2>1. j < NumPorts
    BY <1>1, <1>3
  <2>2. TableMembers(j, clear) = PhysPorts
    BY <1>1, <1>3, <2>1 DEF TableMembers
  <2> QED
    BY <1>3, <2>2 DEF Tree, Bit
<1>4. CASE ~clear /\ j \notin {NumPorts - 2, NumPorts - 1} /\ j >= NumPorts
  <2>1. TableMembers(j, clear) = {}
    BY <1>4 DEF TableMembers
  <2> QED
    BY <1>1, <1>4, <2>1 DEF Tree, Bit
<1>5. CASE ~clear /\ j \notin {NumPorts - 2, NumPorts - 1} /\ ~(j >= NumPorts)
  <2>1. TableMembers(j, clear) = {j} \cup {NumPorts - 2, NumPorts - 1}
    BY <1>5 DEF TableMembers
  <2>2. j < NumPorts
    BY <1>1, <1>5
  <2> QED
    BY <1>5, <2>1, <2>2 DEF Tree, Bit
<1> QED
  BY <1>2, <1>3, <1>4, <1>5

\* The whole table holds what a map of the entries, of the ports and of the
\* VLANs say, whatever their order.
LEMMA TableFits ==
    ASSUME NEW bit, NEW clear \in BOOLEAN, NEW joins, NEW index, NEW vids,
           \A i \in Slots : \A q \in PhysPorts :
               joins[i][q] = IF q \in TableMembers(i, clear) THEN 1 ELSE 0,
           \A q \in PhysPorts : index[q] = IF clear THEN 0 ELSE q,
           \A i \in Slots : vids[i] = IF clear /\ i = 0 THEN bit ELSE 0
    PROVE  /\ Same(do_vlan_enable_vlan(bit, clear).edit, WholeTable(joins, index, vids))
           /\ \A f \in DOMAIN do_vlan_enable_vlan(bit, clear).edit : f[1] \notin {"enable", "dot1q"}
<1> DEFINE a == [f \in {Port("port_vlan", q) : q \in PhysPorts} |-> IF clear THEN 0 ELSE f[3]]
           b == PortsTo("output_tag", PhysPorts, 3)
           m == [f \in {Member(i, q) : i \in Slots, q \in PhysPorts} |->
                    IF f[3] \in TableMembers(f[2], clear) THEN 1 ELSE 0]
           d == [f \in {Vid(i) : i \in Slots} |-> IF clear /\ f[2] = 0 THEN bit ELSE 0]
           e == PortsTo("insert_vid", PhysPorts, 0)
           x == [f \in {Member(i, q) : i \in Slots, q \in PhysPorts} |-> joins[f[2]][f[3]]]
           y == [f \in {Port("port_vlan", q) : q \in PhysPorts} |-> index[f[3]]]
           z == [f \in {Vid(i) : i \in Slots} |-> vids[f[2]]]
<1>1. do_vlan_enable_vlan(bit, clear).edit = a ++ b ++ m ++ d ++ e
  BY DEF do_vlan_enable_vlan, Job
<1>2. WholeTable(joins, index, vids) = x ++ y ++ z ++ b ++ e
  BY DEF WholeTable
<1>3. \A i, q : /\ Member(i, q)[1] = "vlan_entry" /\ Member(i, q)[2] = i /\ Member(i, q)[3] = q
                /\ Vid(i)[1] = "vlan_vid" /\ Vid(i)[2] = i
                /\ Port("port_vlan", q)[1] = "port_vlan" /\ Port("port_vlan", q)[3] = q
                /\ Port("output_tag", q)[1] = "output_tag"
                /\ Port("insert_vid", q)[1] = "insert_vid"
  BY DEF Member, Vid, Port
<1>4. Same(m, x)
  <2>1. DOMAIN m = DOMAIN x /\ (\A f \in DOMAIN x : \E i \in Slots, q \in PhysPorts : f = Member(i, q))
    OBVIOUS
  <2>2. \A f \in DOMAIN x : /\ m[f] = IF f[3] \in TableMembers(f[2], clear) THEN 1 ELSE 0
                            /\ x[f] = joins[f[2]][f[3]]
    OBVIOUS
  <2> HIDE DEF m, x
  <2>3. ASSUME NEW f \in DOMAIN x PROVE m[f] = x[f]
    <3>1. PICK j \in Slots, p \in PhysPorts : f = Member(j, p)
      BY <2>1
    <3>2. f[2] = j /\ f[3] = p
      BY <1>3, <3>1
    <3>3. joins[j][p] = IF p \in TableMembers(j, clear) THEN 1 ELSE 0
      OBVIOUS
    <3> QED
      BY <2>2, <3>2, <3>3
  <2> QED
    BY <2>1, <2>3 DEF Same
<1>5. Same(a, y)
  <2>1. \A f \in {Port("port_vlan", q) : q \in PhysPorts} : f[3] \in PhysPorts
    BY <1>3
  <2> QED
    BY <2>1 DEF Same
<1>6. Same(d, z)
  <2>1. \A f \in {Vid(i) : i \in Slots} : f[2] \in Slots
    BY <1>3
  <2> QED
    BY <2>1 DEF Same
<1>7. /\ \A f \in DOMAIN a : f[1] = "port_vlan"
      /\ \A f \in DOMAIN b : f[1] = "output_tag"
      /\ \A f \in DOMAIN m : f[1] = "vlan_entry"
      /\ \A f \in DOMAIN d : f[1] = "vlan_vid"
      /\ \A f \in DOMAIN e : f[1] = "insert_vid"
  BY <1>3 DEF PortsTo
<1> HIDE DEF a, b, m, d, e, x, y, z
<1>8. /\ Same(a ++ b ++ m ++ d ++ e, x ++ y ++ z ++ b ++ e)
      /\ \A f \in DOMAIN (a ++ b ++ m ++ d ++ e) : f[1] \notin {"enable", "dot1q"}
  BY <1>4, <1>5, <1>6, <1>7, Reordered
<1> QED
  BY <1>1, <1>2, <1>8

\* What is asked for, with the VID that "vlan clear" takes from the mode the
\* process has read.
VlanAskedAt(c, vid) == IF c.word = "vlan clear" THEN OneVlan(vid) ELSE VlanCommand(c)
AskedAt(c, vid) == IF c.word = "vlan clear" THEN OneVlan(vid) ELSE Asked(c)

LEMMA ClearFits ==
    ASSUME NEW c, c.word = "vlan clear", NEW bit, NEW clear \in BOOLEAN, clear
    PROVE  Same(do_vlan_enable_vlan(bit, clear).edit, VlanAskedAt(c, bit))
<1> DEFINE joins == [i \in Slots |-> [q \in PhysPorts |-> Bit(i = 0)]]
           index == [q \in PhysPorts |-> 0]
           vids == [i \in Slots |-> IF i = 0 THEN bit ELSE 0]
<1>1. VlanAskedAt(c, bit) = WholeTable(joins, index, vids)
  BY DEF VlanAskedAt, OneVlan
<1>2. /\ \A j \in Slots : \A p \in PhysPorts : joins[j][p] = Bit(j = 0)
      /\ \A p \in PhysPorts : index[p] = IF clear THEN 0 ELSE p
      /\ \A j \in Slots : vids[j] = IF clear /\ j = 0 THEN bit ELSE 0
  BY DEF Bit
<1> HIDE DEF joins, index, vids
<1>3. ASSUME NEW j \in Slots, NEW p \in PhysPorts
      PROVE  joins[j][p] = IF p \in TableMembers(j, clear) THEN 1 ELSE 0
  <2>1. (IF p \in TableMembers(j, clear) THEN 1 ELSE 0) = IF clear THEN Bit(j = 0) ELSE Tree(j, p)
    BY MemberBits
  <2> QED
    BY <1>2, <2>1
<1>4. Same(do_vlan_enable_vlan(bit, clear).edit, WholeTable(joins, index, vids))
  BY <1>2, <1>3, TableFits
<1> QED
  BY <1>1, <1>4

\* It takes the mode for the VLAN of entry 0 and nothing else.
LEMMA ClearBit ==
    ASSUME NEW bit, NEW clear \in BOOLEAN, clear
    PROVE  LET e == do_vlan_enable_vlan(0, clear).edit
               g == do_vlan_enable_vlan(bit, clear).edit
           IN /\ DOMAIN e = DOMAIN g /\ Vid(0) \in DOMAIN g /\ g[Vid(0)] = bit
              /\ \A f \in DOMAIN g : f = Vid(0) \/ e[f] = g[f]
<1> DEFINE a == [f \in {Port("port_vlan", q) : q \in PhysPorts} |-> IF clear THEN 0 ELSE f[3]]
           b == PortsTo("output_tag", PhysPorts, 3)
           m == [f \in {Member(i, q) : i \in Slots, q \in PhysPorts} |->
                    IF f[3] \in TableMembers(f[2], clear) THEN 1 ELSE 0]
           d(k) == [f \in {Vid(i) : i \in Slots} |-> IF clear /\ f[2] = 0 THEN k ELSE 0]
           e == PortsTo("insert_vid", PhysPorts, 0)
           first == a ++ b ++ m
           u == d(0)
           v == d(bit)
<1>1. /\ do_vlan_enable_vlan(0, clear).edit = first ++ u ++ e
      /\ do_vlan_enable_vlan(bit, clear).edit = first ++ v ++ e
  BY DEF do_vlan_enable_vlan, Job
<1>2. /\ DOMAIN u = DOMAIN v /\ Vid(0) \in DOMAIN v /\ v[Vid(0)] = bit
      /\ \A f \in DOMAIN v : f = Vid(0) \/ u[f] = v[f]
  <2>1. 0 \in Slots
    BY SwitchRegsAssumption DEF Slots
  <2>2. \A i : Vid(i) = <<"vlan_vid", i, 0>> /\ Vid(i)[2] = i
    BY DEF Vid
  <2> QED
    BY <2>1, <2>2
<1>3. Vid(0) \notin DOMAIN first
  <2>1. \A f \in DOMAIN a : f[1] = "port_vlan"
    BY DEF Port
  <2>2. \A f \in DOMAIN b : f[1] = "output_tag"
    BY DEF Port, PortsTo
  <2>3. \A f \in DOMAIN m : f[1] = "vlan_entry"
    BY DEF Member
  <2>4. Vid(0)[1] = "vlan_vid"
    BY DEF Vid
  <2> HIDE DEF a, b, m
  <2> QED
    BY <2>1, <2>2, <2>3, <2>4 DEF ++
<1> HIDE DEF first, e, u, v
<1> DEFINE fu == first ++ u
           fv == first ++ v
<1>4. /\ DOMAIN fu = DOMAIN fv /\ Vid(0) \in DOMAIN fv /\ fv[Vid(0)] = bit
      /\ \A f \in DOMAIN fv : f = Vid(0) \/ fu[f] = fv[f]
  BY <1>2, <1>3 DEF ++
<1>5. Vid(0) \notin DOMAIN e
  <2>1. \A f \in DOMAIN e : f[1] = "insert_vid"
    BY DEF Port, PortsTo, e
  <2>2. Vid(0)[1] = "vlan_vid"
    BY DEF Vid
  <2> QED
    BY <2>1, <2>2
<1> HIDE DEF fu, fv
<1>6. /\ DOMAIN (fu ++ e) = DOMAIN (fv ++ e) /\ Vid(0) \in DOMAIN (fv ++ e)
      /\ (fv ++ e)[Vid(0)] = bit
      /\ \A f \in DOMAIN (fv ++ e) : f = Vid(0) \/ (fu ++ e)[f] = (fv ++ e)[f]
  BY <1>4, <1>5 DEF ++
<1> QED
  BY <1>1, <1>6 DEF fu, fv

LEMMA TemplateFits ==
    ASSUME NEW arg \in {"portbased", "dot1qtree"}
    PROVE  Same(do_vlan_tmpl(Pos(<<"portbased", "dot1qtree">>, arg) + 1, 0).edit,
                WholeTable([i \in Slots |-> [q \in PhysPorts |-> Tree(i, q)]],
                           [q \in PhysPorts |-> q], [i \in Slots |-> 0])
                  ++ OnSwitch("enable", 1) ++ OnSwitch("dot1q", Bit(arg = "dot1qtree")))
<1> DEFINE num == Pos(<<"portbased", "dot1qtree">>, arg) + 1
           clear == num = 0
           table == do_vlan_enable_vlan(IF num # 0 THEN num - 1 ELSE 0, clear).edit
           joins == [i \in Slots |-> [q \in PhysPorts |-> Tree(i, q)]]
           index == [q \in PhysPorts |-> q]
           vids == [i \in Slots |-> 0]
           whole == WholeTable(joins, index, vids)
           on == OnSwitch("enable", 1)
           mode == OnSwitch("dot1q", Bit(arg = "dot1qtree"))
<1>1. /\ arg = "portbased" => num = 1
      /\ arg = "dot1qtree" => num = 2
  <2> DEFINE p == Pos(<<"portbased", "dot1qtree">>, arg)
  <2>1. (arg = "portbased" => p = 0) /\ (arg = "dot1qtree" => p = 1)
    BY Numbers
  <2> HIDE DEF p
  <2>2. (arg = "portbased" => p + 1 = 1) /\ (arg = "dot1qtree" => p + 1 = 2)
    BY <2>1
  <2> QED
    BY <2>2 DEF p
<1>3. do_vlan_tmpl(num, 0).edit = Flags({"enable"}, IF num \in {1, 2} THEN 1 ELSE 0)
                             ++ Flags({"dot1q"}, IF num = 2 THEN 1 ELSE 0) ++ table
  <2> HIDE DEF num
  <2>2. num # 0
    BY <1>1
  <2> QED
    BY <2>2 DEF do_vlan_tmpl, do_vlan, EditFlags, Job
<1>4. /\ (IF num \in {1, 2} THEN 1 ELSE 0) = 1
      /\ (IF num = 2 THEN 1 ELSE 0) = Bit(arg = "dot1qtree")
  BY <1>1 DEF Bit
<1>5. do_vlan_tmpl(num, 0).edit = on ++ mode ++ table
  BY <1>3, <1>4, FlagsAsked
<1>6. clear \in BOOLEAN /\ ~clear
  BY <1>1
<1>7. /\ \A j \in Slots : \A p \in PhysPorts : joins[j][p] = Tree(j, p)
      /\ \A p \in PhysPorts : index[p] = IF clear THEN 0 ELSE p
      /\ \A j \in Slots : vids[j] = 0
  BY <1>6 DEF Tree, Bit
<1> HIDE DEF joins, index, vids, num, clear
<1>8. ASSUME NEW j \in Slots, NEW p \in PhysPorts
      PROVE  joins[j][p] = IF p \in TableMembers(j, clear) THEN 1 ELSE 0
  <2>1. (IF p \in TableMembers(j, clear) THEN 1 ELSE 0) = IF clear THEN Bit(j = 0) ELSE Tree(j, p)
    BY <1>6, MemberBits
  <2> QED
    BY <1>6, <1>7, <2>1
<1>9. Same(table, whole) /\ \A f \in DOMAIN table : f[1] \notin {"enable", "dot1q"}
  <2>1. \A j \in Slots : vids[j] = IF clear /\ j = 0 THEN (IF num # 0 THEN num - 1 ELSE 0) ELSE 0
    BY <1>6, <1>7
  <2> QED
    BY <1>6, <1>7, <1>8, <2>1, TableFits
<1>10. /\ \A f \in DOMAIN on : f[1] = "enable"
       /\ \A f \in DOMAIN mode : f[1] = "dot1q"
  BY DEF OnSwitch, Flag
<1> HIDE DEF table, whole, on, mode
<1>11. Same(on ++ mode ++ table, whole ++ on ++ mode)
  <2>1. /\ DOMAIN table = DOMAIN whole /\ \A f \in DOMAIN whole : table[f] = whole[f]
        /\ \A f \in DOMAIN on : f \notin DOMAIN mode /\ f \notin DOMAIN whole
        /\ \A f \in DOMAIN mode : f \notin DOMAIN on /\ f \notin DOMAIN whole
    BY <1>9, <1>10 DEF Same
  <2> QED
    BY <2>1 DEF Same, ++
<1> QED
  BY <1>5, <1>11 DEF num, whole, joins, index, vids, on, mode

\* The commands for VLANs but "vlan clear", which takes the mode it reads.
LEMMA VlanJobsFit ==
    ASSUME NEW c, IsRtl83xx(c), c.word \in VlanWords,
           ~Surprising(c, "rtl83xx"), NEW bit
    PROVE  c.word = "vlan clear" \/ Same(VlanJob(c, 0).edit, VlanAskedAt(c, bit))
<1> DEFINE ports == {Phys[l] : l \in c.ports}
<1>1. c.arg \in ArgsOf(c.no, c.word)
  BY DEF IsRtl83xx
<1>2. \A e : Same(e, e)
  BY DEF Same
<1>3. CASE c.word = "vlan transparent"
  <2>1. VlanAskedAt(c, bit) = OnSwitch("enable", 0) ++ OnSwitch("dot1q", 0)
    BY <1>3 DEF VlanAskedAt, VlanCommand
  <2>2. VlanJob(c, 0).edit = Flags({"enable"}, 0) ++ Flags({"dot1q"}, 0)
    <3>1. VlanJob(c, 0) = do_vlan(0)
      BY <1>3 DEF VlanJob
    <3>2. \A k : do_vlan(k).edit = Flags({"enable"}, IF k \in {1, 2} THEN 1 ELSE 0)
                                    ++ Flags({"dot1q"}, IF k = 2 THEN 1 ELSE 0)
      BY DEF do_vlan, EditFlags, Job
    <3>3. \A k : k = 0 => (IF k \in {1, 2} THEN 1 ELSE 0) = 0 /\ (IF k = 2 THEN 1 ELSE 0) = 0
      OBVIOUS
    <3> QED
      BY <3>1, <3>2, <3>3
  <2>3. Flags({"enable"}, 0) = OnSwitch("enable", 0) /\ Flags({"dot1q"}, 0) = OnSwitch("dot1q", 0)
    BY FlagsAsked
  <2>4. VlanJob(c, 0).edit = VlanAskedAt(c, bit)
    BY <2>1, <2>2, <2>3
  <2> QED
    BY <1>2, <2>4
<1>4. CASE c.word = "vlan mode"
  <2> DEFINE num == Pos(<<"portbased", "dot1q">>, c.arg) + 1
  <2>1. c.arg \in {"portbased", "dot1q"}
    BY <1>1, <1>4 DEF ArgsOf
  <2>2. /\ c.arg = "portbased" => num = 1
        /\ c.arg = "dot1q" => num = 2
    <3> DEFINE p == Pos(<<"portbased", "dot1q">>, c.arg)
    <3>1. (c.arg = "portbased" => p = 0) /\ (c.arg = "dot1q" => p = 1)
      BY Numbers
    <3> HIDE DEF p
    <3>2. (c.arg = "portbased" => p + 1 = 1) /\ (c.arg = "dot1q" => p + 1 = 2)
      BY <3>1
    <3> QED
      BY <3>2 DEF p
  <2>3. VlanAskedAt(c, bit) = OnSwitch("enable", 1) ++ OnSwitch("dot1q", Bit(c.arg = "dot1q"))
    BY <1>4 DEF VlanAskedAt, VlanCommand, Bit
  <2>4. VlanJob(c, 0).edit = Flags({"enable"}, IF num \in {1, 2} THEN 1 ELSE 0)
                               ++ Flags({"dot1q"}, IF num = 2 THEN 1 ELSE 0)
    BY <1>4 DEF VlanJob, do_vlan, EditFlags, Job
  <2>5. /\ (IF num \in {1, 2} THEN 1 ELSE 0) = 1
        /\ (IF num = 2 THEN 1 ELSE 0) = Bit(c.arg = "dot1q")
    BY <2>1, <2>2 DEF Bit
  <2>6. /\ Flags({"enable"}, 1) = OnSwitch("enable", 1)
        /\ Flags({"dot1q"}, Bit(c.arg = "dot1q")) = OnSwitch("dot1q", Bit(c.arg = "dot1q"))
    BY FlagsAsked
  <2>7. VlanJob(c, 0).edit = VlanAskedAt(c, bit)
    BY <2>3, <2>4, <2>5, <2>6
  <2> QED
    BY <1>2, <2>7
<1>5. CASE c.word = "vlan template-load"
  <2>1. c.arg \in {"portbased", "dot1qtree"}
    BY <1>1, <1>5 DEF ArgsOf
  <2>2. VlanAskedAt(c, bit) =
            WholeTable([i \in Slots |-> [q \in PhysPorts |-> Tree(i, q)]],
                       [q \in PhysPorts |-> q], [i \in Slots |-> 0])
              ++ OnSwitch("enable", 1) ++ OnSwitch("dot1q", Bit(c.arg = "dot1qtree"))
    BY <1>5 DEF VlanAskedAt, VlanCommand, Bit
  <2>3. VlanJob(c, 0) = do_vlan_tmpl(Pos(<<"portbased", "dot1qtree">>, c.arg) + 1, 0)
    BY <1>5 DEF VlanJob
  <2> QED
    BY <2>1, <2>2, <2>3, TemplateFits
<1>6. CASE c.word \in {"vlan add", "vlan delete"}
  <2>1. VlanAskedAt(c, bit) = OnMembers(c, Bit(c.word = "vlan add"))
    BY <1>6 DEF VlanAskedAt, VlanCommand, Bit
  <2>2. {Member(i, q) : i \in ToSet(c.slots), q \in ports}
          = {Member(i, Phys[l]) : i \in ToSet(c.slots), l \in c.ports}
    OBVIOUS
  <2>3. ASSUME NEW val
        PROVE  do_vlan_table_config(ports, c.slots, val).edit = OnMembers(c, IF val # 0 THEN 0 ELSE 1)
    BY <2>2 DEF do_vlan_table_config, OnMembers, Job
  <2>4. VlanJob(c, 0) = do_vlan_table_config(ports, c.slots, IF c.word = "vlan add" THEN 0 ELSE 1)
    BY <1>6 DEF VlanJob
  <2>5. \A val \in {0, 1} : val = (IF c.word = "vlan add" THEN 0 ELSE 1)
                              => (IF val # 0 THEN 0 ELSE 1) = Bit(c.word = "vlan add")
    BY DEF Bit
  <2> QED
    BY <1>2, <2>1, <2>3, <2>4, <2>5
<1>7. CASE c.word = "vlan index"
  <2>1. VlanAskedAt(c, bit) = [f \in {Vid(i) : i \in ToSet(c.slots)} |-> c.num]
    BY <1>7 DEF VlanAskedAt, VlanCommand
  <2>2. VlanJob(c, 0).edit = [f \in {Vid(i) : i \in ToSet(c.slots)} |-> c.num]
    BY <1>7 DEF VlanJob, do_vlan_index_config, Job
  <2> QED
    BY <1>2, <2>1, <2>2
<1>8. CASE c.word = "vlan leaky"
  <2> DEFINE n == Pos(<<"arp", "multicast", "unicast">>, c.arg) + 1
             name == CASE c.arg = "arp"       -> "arp_leaky"
                       [] c.arg = "multicast" -> "multicast_leaky"
                       [] c.arg = "unicast"   -> "unicast_leaky"
  <2>1. c.arg \in {"arp", "multicast", "unicast"}
    BY <1>1, <1>8 DEF ArgsOf
  <2>2. /\ c.arg = "arp" => n = 1
        /\ c.arg = "multicast" => n = 2
        /\ c.arg = "unicast" => n = 3
    <3> DEFINE p == Pos(<<"arp", "multicast", "unicast">>, c.arg)
    <3>1. (c.arg = "arp" => p = 0) /\ (c.arg = "multicast" => p = 1) /\ (c.arg = "unicast" => p = 2)
      BY Numbers
    <3> HIDE DEF p
    <3>2. (c.arg = "arp" => p + 1 = 1) /\ (c.arg = "multicast" => p + 1 = 2)
          /\ (c.arg = "unicast" => p + 1 = 3)
      BY <3>1
    <3> QED
      BY <3>2 DEF p
  <2>3. VlanAskedAt(c, bit) = OnSwitch(name, Bit(~c.no))
    BY <1>8 DEF VlanAskedAt, VlanCommand, Bit
  <2>4. VlanJob(c, 0).edit
          = Flags({<<"arp_leaky", "multicast_leaky", "unicast_leaky">>[n]}, On(c))
    BY <1>8 DEF VlanJob, do_vlan_leaky, EditFlags, Job
  <2>5. <<"arp_leaky", "multicast_leaky", "unicast_leaky">>[n] = name
    <3> HIDE DEF n
    <3> QED
      BY <2>1, <2>2
  <2>6. On(c) = Bit(~c.no)
    BY DEF On, Bit
  <2> HIDE DEF n, name
  <2> QED
    BY <1>2, <2>3, <2>4, <2>5, <2>6, FlagsAsked
<1>9. CASE c.word = "vlan drop"
  <2> DEFINE n == Pos(<<"untagged_frames", "invalid_vid">>, c.arg) + 1
  <2>1. c.arg = "invalid_vid"
    BY <1>1, <1>9 DEF ArgsOf, Surprising
  <2>2. n = 2
    <3> DEFINE p == Pos(<<"untagged_frames", "invalid_vid">>, c.arg)
    <3>1. p = 1
      BY <2>1, Numbers
    <3> HIDE DEF p
    <3>2. p + 1 = 2
      BY <3>1
    <3> QED
      BY <3>2 DEF p
  <2>3. VlanAskedAt(c, bit) = OnSwitch("ingress_filtering", Bit(~c.no))
    BY <1>9, <2>1 DEF VlanAskedAt, VlanCommand, Bit
  <2>4. VlanJob(c, 0) = do_vlan_drop(n, On(c))
    BY <1>9 DEF VlanJob
  <2> HIDE DEF n
  <2>5. {"ingress_filtering"} \cup (IF n = 1 THEN {"drop_untagged_frames"} ELSE {})
          = {"ingress_filtering"}
    BY <2>2
  <2>6. VlanJob(c, 0).edit = Flags({"ingress_filtering"}, On(c))
    BY <2>4, <2>5 DEF do_vlan_drop, EditFlags, Job
  <2>7. On(c) = Bit(~c.no)
    BY DEF On, Bit
  <2> QED
    BY <1>2, <2>3, <2>6, <2>7, FlagsAsked
<1> QED
  BY <1>3, <1>4, <1>5, <1>6, <1>7, <1>8, <1>9 DEF VlanWords

LEMMA OneFlag ==
    ASSUME NEW k, NEW n, NEW v
    PROVE  /\ EditFlags(k, Flags({n}, v)).edit = OnSwitch(n, v)
           /\ IfChanged(k, Flags({n}, v)).edit = OnSwitch(n, v)
<1>1. EditFlags(k, Flags({n}, v)).edit = Flags({n}, v)
  BY DEF EditFlags, Job
<1>2. IfChanged(k, Flags({n}, v)).edit = Flags({n}, v)
  BY DEF IfChanged, Job
<1> QED
  BY <1>1, <1>2, FlagsAsked

\* The numbers of the ports to mirror, as a map of all ports.
LEMMA MapsFit ==
    ASSUME NEW name, NEW logical, logical \subseteq 1 .. NumPorts
    PROVE  Same([f \in {Port(name, q) : q \in PhysPorts} |->
                    IF f[3] \in {Phys[l] : l \in logical} THEN 1 ELSE 0],
                OnMap(name, logical))
<1> DEFINE x == [f \in {Port(name, q) : q \in PhysPorts} |->
                    IF f[3] \in {Phys[l] : l \in logical} THEN 1 ELSE 0]
<1>1. {Port(name, q) : q \in PhysPorts} = {Port(name, Phys[l]) : l \in 1 .. NumPorts}
  <2>1. \A q \in PhysPorts : \E l \in 1 .. NumPorts : Phys[l] = q
    BY SwitchRegsAssumption
  <2>2. \A l \in 1 .. NumPorts : Phys[l] \in PhysPorts
    BY SwitchRegsAssumption
  <2> QED
    BY <2>1, <2>2
<1>2. \A f : f[3] \in {Phys[l] : l \in logical} <=> \E l \in logical : f[3] = Phys[l]
  OBVIOUS
<1> QED
  BY <1>1, <1>2 DEF Same, OnMap, Bit

LEMMA MirrorFits ==
    ASSUME NEW dir, NEW dest, NEW listed, NEW from, listed \subseteq 1 .. NumPorts,
           from \subseteq 1 .. NumPorts, dir \in 0 .. 3,
           dir < 3 => from = {dest}, ~(dir < 3) => from = {}
    PROVE  Same(do_port_config_mirror(dir, {Phys[l] : l \in listed}, Phys[dest]).edit,
                OnMap("sniffer", from)
                  ++ OnMap("sniffed_rx", IF dir \in {0, 1} THEN listed ELSE {})
                  ++ OnMap("sniffed_tx", IF dir \in {0, 2} THEN listed ELSE {}))
<1> DEFINE rx == IF dir \in {0, 1} THEN listed ELSE {}
           tx == IF dir \in {0, 2} THEN listed ELSE {}
           a == [f \in {Port("sniffer", q) : q \in PhysPorts} |->
                    IF f[3] \in {Phys[l] : l \in from} THEN 1 ELSE 0]
           b == [f \in {Port("sniffed_rx", q) : q \in PhysPorts} |->
                    IF f[3] \in {Phys[l] : l \in rx} THEN 1 ELSE 0]
           d == [f \in {Port("sniffed_tx", q) : q \in PhysPorts} |->
                    IF f[3] \in {Phys[l] : l \in tx} THEN 1 ELSE 0]
           x == OnMap("sniffer", from)
           y == OnMap("sniffed_rx", rx)
           z == OnMap("sniffed_tx", tx)
<1>1. do_port_config_mirror(dir, {Phys[l] : l \in listed}, Phys[dest]).edit = a ++ b ++ d
  <2> DEFINE set1 == IF dir < 3 THEN {Phys[dest]} ELSE {}
             set2 == IF dir \in {0, 1} THEN {Phys[l] : l \in listed} ELSE {}
             set3 == IF dir \in {0, 2} THEN {Phys[l] : l \in listed} ELSE {}
  <2>1. do_port_config_mirror(dir, {Phys[l] : l \in listed}, Phys[dest]).edit =
            [f \in {Port("sniffer", q) : q \in PhysPorts} |-> IF f[3] \in set1 THEN 1 ELSE 0]
              ++ [f \in {Port("sniffed_rx", q) : q \in PhysPorts} |-> IF f[3] \in set2 THEN 1 ELSE 0]
              ++ [f \in {Port("sniffed_tx", q) : q \in PhysPorts} |-> IF f[3] \in set3 THEN 1 ELSE 0]
    BY DEF do_port_config_mirror, Job
  <2>2. set1 = {Phys[l] : l \in from}
    OBVIOUS
  <2>3. set2 = {Phys[l] : l \in rx} /\ set3 = {Phys[l] : l \in tx}
    OBVIOUS
  <2> HIDE DEF set1, set2, set3, rx, tx
  <2> QED
    BY <2>1, <2>2, <2>3
<1>2. rx \subseteq 1 .. NumPorts /\ tx \subseteq 1 .. NumPorts
  OBVIOUS
<1> HIDE DEF rx, tx
<1>3. Same(a, x) /\ Same(b, y) /\ Same(d, z)
  BY <1>2, MapsFit
<1>4. /\ \A f \in DOMAIN a : f[1] = "sniffer"
      /\ \A f \in DOMAIN b : f[1] = "sniffed_rx"
      /\ \A f \in DOMAIN d : f[1] = "sniffed_tx"
  BY DEF Port
<1> HIDE DEF a, b, d, x, y, z
<1> DEFINE ab == a ++ b
           xy == x ++ y
<1>5. Same(ab, xy)
  BY <1>3 DEF Same, ++
<1> HIDE DEF ab, xy
<1>6. Same(ab ++ d, xy ++ z)
  BY <1>3, <1>5 DEF Same, ++
<1> QED
  BY <1>1, <1>6 DEF ab, xy, x, y, z, rx, tx

LEMMA MonitorFits ==
    ASSUME NEW c, IsRtl83xx(c)
    PROVE  c.word = "monitor" => Same(SwitchJob(c).edit, SwitchCommand(c))
<1>2. CASE c.word = "monitor" /\ c.no
  <2>1. SwitchJob(c) = do_port_config_mirror(3, {}, Phys[1])
    BY <1>2 DEF SwitchJob
  <2>2. SwitchCommand(c) = OnMap("sniffer", {}) ++ OnMap("sniffed_rx", {}) ++ OnMap("sniffed_tx", {})
    BY <1>2 DEF SwitchCommand
  <2>3. \A dir : dir = 3 => dir \in 0 .. 3 /\ ~(dir < 3) /\ ~(dir \in {0, 1}) /\ ~(dir \in {0, 2})
    OBVIOUS
  <2>4. ASSUME NEW dir, dir = 3
        PROVE  Same(do_port_config_mirror(dir, {}, Phys[1]).edit,
                    OnMap("sniffer", {}) ++ OnMap("sniffed_rx", {}) ++ OnMap("sniffed_tx", {}))
    <3> DEFINE listed == {}
    <3>1. listed \subseteq 1 .. NumPorts /\ {Phys[l] : l \in listed} = {}
      OBVIOUS
    <3>2. Same(do_port_config_mirror(dir, {Phys[l] : l \in listed}, Phys[1]).edit,
               OnMap("sniffer", listed)
                 ++ OnMap("sniffed_rx", IF dir \in {0, 1} THEN listed ELSE {})
                 ++ OnMap("sniffed_tx", IF dir \in {0, 2} THEN listed ELSE {}))
      <4> HIDE DEF listed
      <4>1. listed = {}
        BY DEF listed
      <4> QED
        BY <2>3, <2>4, <3>1, <4>1, MirrorFits
    <3>3. (IF dir \in {0, 1} THEN listed ELSE {}) = {} /\ (IF dir \in {0, 2} THEN listed ELSE {}) = {}
      OBVIOUS
    <3>4. listed = {}
      OBVIOUS
    <3> HIDE DEF listed
    <3> QED
      BY <3>1, <3>2, <3>3, <3>4
  <2> QED
    BY <2>1, <2>2, <2>4
<1>3. CASE c.word = "monitor" /\ ~c.no
  <2> DEFINE dir == IF c.arg = "" THEN 0 ELSE 1 + Pos(<<"input", "output">>, c.arg)
             rx == IF c.arg = "output" THEN {} ELSE c.ports
             tx == IF c.arg = "input" THEN {} ELSE c.ports
  <2>1. c.arg \in {"", "input", "output"} /\ c.ports \subseteq 1 .. NumPorts /\ c.num \in 1 .. NumPorts
    BY <1>3 DEF IsRtl83xx, ArgsOf
  <2>2. /\ c.arg = "" => dir = 0
        /\ c.arg = "input" => dir = 1
        /\ c.arg = "output" => dir = 2
    <3> DEFINE p == Pos(<<"input", "output">>, c.arg)
    <3>1. (c.arg = "input" => p = 0) /\ (c.arg = "output" => p = 1)
      BY Numbers
    <3> HIDE DEF p
    <3>2. (c.arg = "input" => 1 + p = 1) /\ (c.arg = "output" => 1 + p = 2)
      BY <3>1
    <3> QED
      BY <3>2 DEF p
  <2>3. SwitchJob(c) = do_port_config_mirror(dir, {Phys[l] : l \in c.ports}, Phys[c.num])
    BY <1>3 DEF SwitchJob
  <2>4. SwitchCommand(c) = OnMap("sniffer", {c.num}) ++ OnMap("sniffed_rx", rx) ++ OnMap("sniffed_tx", tx)
    <3>1. SwitchCommand(c) = OnMap("sniffer", {c.num})
                               ++ OnMap("sniffed_rx", IF c.no \/ c.arg = "output" THEN {} ELSE c.ports)
                               ++ OnMap("sniffed_tx", IF c.no \/ c.arg = "input" THEN {} ELSE c.ports)
      BY <1>3 DEF SwitchCommand
    <3>2. /\ (IF c.no \/ c.arg = "output" THEN {} ELSE c.ports) = rx
          /\ (IF c.no \/ c.arg = "input" THEN {} ELSE c.ports) = tx
      BY <1>3
    <3> HIDE DEF rx, tx
    <3> QED
      BY <3>1, <3>2
  <2> HIDE DEF dir
  <2>5. /\ dir \in 0 .. 3 /\ dir < 3
        /\ (IF dir \in {0, 1} THEN c.ports ELSE {}) = rx
        /\ (IF dir \in {0, 2} THEN c.ports ELSE {}) = tx
    <3>1. CASE c.arg = ""
      <4>1. dir = 0 /\ c.arg # "output" /\ c.arg # "input"
        BY <2>2, <3>1
      <4> QED
        BY <4>1
    <3>2. CASE c.arg = "input"
      BY <2>2, <3>2
    <3>3. CASE c.arg = "output"
      BY <2>2, <3>3
    <3> QED
      BY <2>1, <3>1, <3>2, <3>3
  <2> HIDE DEF rx, tx
  <2>6. {c.num} \subseteq 1 .. NumPorts
    BY <2>1
  <2>7. Same(do_port_config_mirror(dir, {Phys[l] : l \in c.ports}, Phys[c.num]).edit,
             OnMap("sniffer", {c.num})
               ++ OnMap("sniffed_rx", IF dir \in {0, 1} THEN c.ports ELSE {})
               ++ OnMap("sniffed_tx", IF dir \in {0, 2} THEN c.ports ELSE {}))
    BY <2>1, <2>5, <2>6, MirrorFits
  <2> QED
    BY <2>3, <2>4, <2>5, <2>7
<1> QED
  BY <1>2, <1>3

LEMMA FlowFits ==
    ASSUME NEW c, IsRtl83xx(c)
    PROVE  c.word = "flowcontrol" => Same(SwitchJob(c).edit, SwitchCommand(c))
<1>1. CASE c.word = "flowcontrol"
  <2> DEFINE n == Pos(<<"dot3x", "backpressure", "ondemand-disable">>, c.arg)
             state == Pos(ena_disa, c.arg2)
             name == CASE c.arg = "dot3x"            -> "flow_dot3x_disable"
                       [] c.arg = "backpressure"     -> "flow_backpressure_disable"
                       [] c.arg = "ondemand-disable" -> "flow_ondemand_disable"
  <2>1. c.arg \in {"dot3x", "backpressure", "ondemand-disable"} /\ c.arg2 \in {"enable", "disable"}
    BY <1>1 DEF IsRtl83xx, ArgsOf
  <2>2. /\ c.arg = "dot3x" => n = 0
        /\ c.arg = "backpressure" => n = 1
        /\ c.arg = "ondemand-disable" => n = 2
    BY Numbers
  <2>3. (c.arg2 = "disable" => state = 0) /\ (c.arg2 = "enable" => state = 1)
    BY Numbers
  <2>4. SwitchJob(c) = do_glob_flowctrl(n, state)
    BY <1>1 DEF SwitchJob
  <2>5. SwitchCommand(c) = OnSwitch(name, Bit(Enables(c) = (c.arg = "ondemand-disable")))
    BY <1>1 DEF SwitchCommand, Bit
  <2> HIDE DEF n, state
  <2>6. Enables(c) <=> c.arg2 = "enable"
    BY <2>1 DEF Enables
  <2>7. Bit(Enables(c) = (c.arg = "ondemand-disable"))
          = IF c.arg = "ondemand-disable" THEN state ELSE Not(state)
    <3>1. CASE c.arg2 = "enable"
      <4>1. Enables(c) = TRUE /\ state = 1
        BY <2>3, <2>6, <3>1 DEF Enables
      <4> QED
        BY <4>1 DEF Bit, Not
    <3>2. CASE c.arg2 = "disable"
      <4>1. Enables(c) = FALSE /\ state = 0
        BY <2>1, <2>3, <2>6, <3>2 DEF Enables
      <4> QED
        BY <4>1 DEF Bit, Not
    <3> QED
      BY <2>1, <3>1, <3>2
  <2>8. \A e : Same(e, e)
    BY DEF Same
  <2>9. SwitchJob(c).edit = OnSwitch(name, IF c.arg = "ondemand-disable" THEN state ELSE Not(state))
    <3>1. CASE c.arg = "dot3x"
      <4>1. do_glob_flowctrl(n, state)
              = EditFlags("port_config_global", Flags({"flow_dot3x_disable"}, Not(state)))
        BY <2>2, <3>1 DEF do_glob_flowctrl
      <4> QED
        BY <2>4, <3>1, <4>1, OneFlag
    <3>2. CASE c.arg = "backpressure"
      <4>1. do_glob_flowctrl(n, state)
              = EditFlags("port_config_global", Flags({"flow_backpressure_disable"}, Not(state)))
        BY <2>2, <3>2 DEF do_glob_flowctrl
      <4> QED
        BY <2>4, <3>2, <4>1, OneFlag
    <3>3. CASE c.arg = "ondemand-disable"
      <4>1. do_glob_flowctrl(n, state) = EditFlags("qos_config", Flags({"flow_ondemand_disable"}, state))
        BY <2>2, <3>3 DEF do_glob_flowctrl
      <4> QED
        BY <2>4, <3>3, <4>1, OneFlag
    <3> QED
      BY <2>1, <3>1, <3>2, <3>3
  <2> QED
    BY <2>5, <2>7, <2>8, <2>9
<1> QED
  BY <1>1

LEMMA TrustFits ==
    ASSUME NEW c, IsRtl83xx(c)
    PROVE  c.word = "mls qos trust" => Same(SwitchJob(c).edit, SwitchCommand(c))
<1>1. CASE c.word = "mls qos trust"
  <2> DEFINE names == (IF c.num % 2 = 1 THEN {"dscp_enable"} ELSE {})
                        \cup (IF c.num > 1 THEN {"cos_enable"} ELSE {})
             x == IF c.num \in {1, 3} THEN OnSwitch("dscp_enable", Bit(~c.no)) ELSE <<>>
             y == IF c.num \in {2, 3} THEN OnSwitch("cos_enable", Bit(~c.no)) ELSE <<>>
  <2>1. c.num \in 1 .. 3 /\ c.arg = ""
    BY <1>1 DEF IsRtl83xx, ArgsOf
  <2>2. SwitchCommand(c) = x ++ y
    BY <1>1, <2>1 DEF SwitchCommand, Bit
  <2>3. SwitchJob(c).edit = Flags(names, Bit(~c.no))
    <3>1. SwitchJob(c).edit = Flags(names, On(c))
      BY <1>1 DEF SwitchJob, do_mls_qos_trust, IfChanged, Job
    <3>2. On(c) = Bit(~c.no)
      BY DEF On, Bit
    <3> QED
      BY <3>1, <3>2
  <2>4. names = (IF c.num \in {1, 3} THEN {"dscp_enable"} ELSE {})
                  \cup (IF c.num \in {2, 3} THEN {"cos_enable"} ELSE {})
    <3>0. \A k \in 1 .. 3 : k \in {1, 2, 3}
      OBVIOUS
    <3>1. \A k \in {1, 2, 3} : k % 2 = 1 <=> k \in {1, 3}
      OBVIOUS
    <3>2. \A k \in {1, 2, 3} : k > 1 <=> k \in {2, 3}
      OBVIOUS
    <3> QED
      BY <2>1, <3>0, <3>1, <3>2
  <2> HIDE DEF names
  <2>5. DOMAIN <<>> = {}
    OBVIOUS
  <2>6. /\ DOMAIN x = IF c.num \in {1, 3} THEN {Flag("dscp_enable")} ELSE {}
        /\ DOMAIN y = IF c.num \in {2, 3} THEN {Flag("cos_enable")} ELSE {}
        /\ \A f \in DOMAIN x : x[f] = Bit(~c.no)
        /\ \A f \in DOMAIN y : y[f] = Bit(~c.no)
    BY <2>5 DEF OnSwitch
  <2>7. /\ DOMAIN Flags(names, Bit(~c.no)) = DOMAIN x \cup DOMAIN y
        /\ \A f \in DOMAIN Flags(names, Bit(~c.no)) : Flags(names, Bit(~c.no))[f] = Bit(~c.no)
    BY <2>4, <2>6 DEF Flags
  <2> HIDE DEF x, y
  <2> QED
    BY <2>2, <2>3, <2>6, <2>7 DEF Same, ++
<1> QED
  BY <1>1

\* The commands for the switch as a whole.
LEMMA SwitchJobsFit ==
    ASSUME NEW c, IsRtl83xx(c), c.word \in SwitchWords
    PROVE  Same(SwitchJob(c).edit, SwitchCommand(c))
<1>1. c.arg \in ArgsOf(c.no, c.word) /\ c.no \in BOOLEAN
  BY DEF IsRtl83xx
<1>2. \A e : Same(e, e)
  BY DEF Same
<1>3. On(c) = Bit(~c.no)
  BY DEF On, Bit
<1>4. CASE c.word \in {"rrcp disable", "rrcp enable"}
  <2>1. c.no = FALSE
    BY <1>4 DEF IsRtl83xx, Negatable
  <2>2. CASE c.word = "rrcp disable"
    <3>1. SwitchCommand(c) = OnSwitch("rrcp_disable", 1)
      BY <2>2 DEF SwitchCommand
    <3>2. SwitchJob(c).edit = OnSwitch("rrcp_disable", 1)
      <4>1. SwitchJob(c) = EditFlags("rrcp_config", Flags({"rrcp_disable"}, 1))
        BY <2>2 DEF SwitchJob, do_rrcp_ctrl
      <4> QED
        BY <4>1, OneFlag
    <3> QED
      BY <1>2, <3>1, <3>2
  <2>3. CASE c.word = "rrcp enable"
    <3>1. SwitchCommand(c) = OnSwitch("rrcp_disable", Bit(c.no))
      BY <2>3 DEF SwitchCommand, Bit
    <3>2. SwitchJob(c).edit = OnSwitch("rrcp_disable", 0)
      <4>1. SwitchJob(c) = EditFlags("rrcp_config", Flags({"rrcp_disable"}, 0))
        BY <2>3 DEF SwitchJob, do_rrcp_ctrl
      <4> QED
        BY <4>1, OneFlag
    <3>3. Bit(c.no) = 0
      BY <2>1 DEF Bit
    <3> QED
      BY <1>2, <3>1, <3>2, <3>3
  <2> QED
    BY <1>4, <2>2, <2>3
<1>5. CASE c.word = "rrcp echo"
  <2> DEFINE n == Pos(ena_disa, c.arg)
  <2>1. c.arg \in {"disable", "enable"}
    BY <1>1, <1>5 DEF ArgsOf
  <2>2. (c.arg = "disable" => n = 0) /\ (c.arg = "enable" => n = 1)
    BY Numbers
  <2>3. SwitchCommand(c) = OnSwitch("echo_disable", Bit(c.arg = "disable"))
    BY <1>5 DEF SwitchCommand, Bit
  <2>4. SwitchJob(c).edit = OnSwitch("echo_disable", Not(n))
    BY <1>5, OneFlag DEF SwitchJob, do_rrcp_echo
  <2> HIDE DEF n
  <2>5. Not(n) = Bit(c.arg = "disable")
    BY <2>1, <2>2 DEF Bit, Not
  <2> QED
    BY <1>2, <2>3, <2>4, <2>5
<1>6. CASE c.word = "rrcp loop-detect"
  <2> DEFINE n == Pos(ena_disa, c.arg)
  <2>1. c.arg \in {"disable", "enable"}
    BY <1>1, <1>6 DEF ArgsOf
  <2>2. (c.arg = "disable" => n = 0) /\ (c.arg = "enable" => n = 1)
    BY Numbers
  <2>3. SwitchCommand(c) = OnSwitch("loop_enable", Bit(c.arg = "enable"))
    BY <1>6 DEF SwitchCommand, Bit
  <2>4. SwitchJob(c).edit = OnSwitch("loop_enable", n)
    BY <1>6, OneFlag DEF SwitchJob, do_loopdetect
  <2> HIDE DEF n
  <2>5. n = Bit(c.arg = "enable")
    BY <2>1, <2>2 DEF Bit
  <2> QED
    BY <1>2, <2>3, <2>4, <2>5
<1>7. CASE c.word = "rrcp authkey"
  <2>1. SwitchCommand(c) = OnSwitch("authkey", c.num)
    BY <1>7 DEF SwitchCommand
  <2>2. SwitchJob(c).edit = OnSwitch("authkey", c.num)
    BY <1>7, FlagsAsked DEF SwitchJob, set_authkey, Job
  <2> QED
    BY <1>2, <2>1, <2>2
<1>8. CASE c.word = "mac-address-table aging-time"
  <2> DEFINE n == Pos(<<"0", "12", "300">>, c.arg) + 1
             x == Flags({"mac_aging_disable"}, IF n = 1 THEN 1 ELSE 0)
             y == Flags({"mac_aging_fast"}, IF n = 2 THEN 1 ELSE 0)
  <2>1. c.arg \in {"0", "12", "300"}
    BY <1>1, <1>8 DEF ArgsOf
  <2>2. (c.arg = "0" => n = 1) /\ (c.arg = "12" => n = 2) /\ (c.arg = "300" => n = 3)
    <3> DEFINE p == Pos(<<"0", "12", "300">>, c.arg)
    <3>1. (c.arg = "0" => p = 0) /\ (c.arg = "12" => p = 1) /\ (c.arg = "300" => p = 2)
      BY Numbers
    <3> HIDE DEF p
    <3>2. (c.arg = "0" => p + 1 = 1) /\ (c.arg = "12" => p + 1 = 2) /\ (c.arg = "300" => p + 1 = 3)
      BY <3>1
    <3> QED
      BY <3>2 DEF p
  <2>3. SwitchCommand(c) = OnSwitch("mac_aging_disable", Bit(c.arg = "0"))
                             ++ OnSwitch("mac_aging_fast", Bit(c.arg = "12"))
    BY <1>8 DEF SwitchCommand, Bit
  <2>4. SwitchJob(c) = do_alt_config(n)
    BY <1>8 DEF SwitchJob
  <2> HIDE DEF n
  <2>5. n \in {1, 2, 3}
    BY <2>1, <2>2
  <2>6. SwitchJob(c).edit = x ++ y
    BY <2>4, <2>5 DEF do_alt_config, EditFlags, Job
  <2>7. (IF n = 1 THEN 1 ELSE 0) = Bit(c.arg = "0") /\ (IF n = 2 THEN 1 ELSE 0) = Bit(c.arg = "12")
    BY <2>1, <2>2 DEF Bit
  <2>8. /\ x = OnSwitch("mac_aging_disable", Bit(c.arg = "0"))
        /\ y = OnSwitch("mac_aging_fast", Bit(c.arg = "12"))
    BY <2>7, FlagsAsked
  <2> HIDE DEF x, y
  <2>9. SwitchJob(c).edit = SwitchCommand(c)
    BY <2>3, <2>6, <2>8
  <2> QED
    BY <1>2, <2>9
<1>9. CASE c.word = "mac-address-table unknown-destination"
  <2> DEFINE n == Pos(<<"drop", "pass">>, c.arg) + 4
  <2>1. c.arg \in {"drop", "pass"}
    BY <1>1, <1>9 DEF ArgsOf
  <2>2. (c.arg = "drop" => n = 4) /\ (c.arg = "pass" => n = 5)
    <3> DEFINE p == Pos(<<"drop", "pass">>, c.arg)
    <3>1. (c.arg = "drop" => p = 0) /\ (c.arg = "pass" => p = 1)
      BY Numbers
    <3> HIDE DEF p
    <3>2. (c.arg = "drop" => p + 4 = 4) /\ (c.arg = "pass" => p + 4 = 5)
      BY <3>1
    <3> QED
      BY <3>2 DEF p
  <2>3. SwitchCommand(c) = OnSwitch("mac_drop_unknown", Bit(c.arg = "drop"))
    BY <1>9 DEF SwitchCommand, Bit
  <2>4. SwitchJob(c) = do_alt_config(n)
    BY <1>9 DEF SwitchJob
  <2> HIDE DEF n
  <2>5. n > 3 /\ (IF n = 4 THEN 1 ELSE 0) = Bit(c.arg = "drop")
    BY <2>1, <2>2 DEF Bit
  <2>6. SwitchJob(c) = EditFlags("alt_config", Flags({"mac_drop_unknown"}, Bit(c.arg = "drop")))
    BY <2>4, <2>5 DEF do_alt_config
  <2>7. SwitchJob(c).edit = SwitchCommand(c)
    BY <2>3, <2>6, OneFlag
  <2> QED
    BY <1>2, <2>7
<1>10. CASE c.word = "storm-control broadcast"
  <2> DEFINE n == IF c.no THEN 0 ELSE Pos(<<"relaxed", "strict">>, c.arg) + 1
             x == Flags({"broadcast_disable"}, IF n \in {1, 2} THEN 0 ELSE 1)
             y == Flags({"broadcast_strict"}, IF n = 2 THEN 1 ELSE 0)
  <2>1. ~c.no => c.arg \in {"relaxed", "strict"}
    BY <1>1, <1>10 DEF ArgsOf
  <2>2. /\ c.no => n = 0
        /\ ~c.no /\ c.arg = "relaxed" => n = 1
        /\ ~c.no /\ c.arg = "strict" => n = 2
    <3> DEFINE p == Pos(<<"relaxed", "strict">>, c.arg)
    <3>1. (c.arg = "relaxed" => p = 0) /\ (c.arg = "strict" => p = 1)
      BY Numbers
    <3> HIDE DEF p
    <3>2. (c.arg = "relaxed" => p + 1 = 1) /\ (c.arg = "strict" => p + 1 = 2)
      BY <3>1
    <3> QED
      BY <3>2 DEF p
  <2>3. SwitchCommand(c) = OnSwitch("broadcast_disable", Bit(c.no))
                             ++ OnSwitch("broadcast_strict", Bit(~c.no /\ c.arg = "strict"))
    BY <1>10 DEF SwitchCommand, Bit
  <2>4. SwitchJob(c) = do_storm_control(1, n)
    BY <1>10 DEF SwitchJob
  <2> HIDE DEF n
  <2>5. \A mode : mode = 1 => do_storm_control(mode, n).edit = x ++ y
    BY DEF do_storm_control, EditFlags, Job
  <2>6. /\ (IF n \in {1, 2} THEN 0 ELSE 1) = Bit(c.no)
        /\ (IF n = 2 THEN 1 ELSE 0) = Bit(~c.no /\ c.arg = "strict")
    BY <1>1, <2>1, <2>2 DEF Bit
  <2>7. /\ x = OnSwitch("broadcast_disable", Bit(c.no))
        /\ y = OnSwitch("broadcast_strict", Bit(~c.no /\ c.arg = "strict"))
    BY <2>6, FlagsAsked
  <2> HIDE DEF x, y
  <2>8. SwitchJob(c).edit = SwitchCommand(c)
    BY <2>3, <2>4, <2>5, <2>7
  <2> QED
    BY <1>2, <2>8
<1>11. CASE c.word = "storm-control multicast"
  <2>1. SwitchCommand(c) = OnSwitch("multicast_strict", Bit(~c.no))
    BY <1>11 DEF SwitchCommand, Bit
  <2>2. \A mode : mode = 0 => do_storm_control(mode, On(c)).edit
                                = Flags({"multicast_strict"}, IF On(c) # 0 THEN 1 ELSE 0)
    BY DEF do_storm_control, EditFlags, Job
  <2>3. SwitchJob(c) = do_storm_control(0, On(c))
    BY <1>11 DEF SwitchJob
  <2>4. (IF On(c) # 0 THEN 1 ELSE 0) = Bit(~c.no)
    BY DEF On, Bit
  <2> QED
    BY <1>2, <2>1, <2>2, <2>3, <2>4, FlagsAsked
<1>12. CASE c.word = "igmp-snooping"
  <2>1. SwitchCommand(c) = OnSwitch("en_igmp_snooping", Bit(~c.no))
    BY <1>12 DEF SwitchCommand, Bit
  <2>2. SwitchJob(c).edit = OnSwitch("en_igmp_snooping", On(c))
    BY <1>12, OneFlag DEF SwitchJob, do_igmp_snooping
  <2> QED
    BY <1>2, <1>3, <2>1, <2>2
<1>13. CASE c.word = "wrr-queue"
  <2>1. SwitchCommand(c) = OnSwitch("wrr_ratio", Pos(Ratios, IF c.no THEN "1:0" ELSE c.arg))
    BY <1>13 DEF SwitchCommand
  <2>2. SwitchJob(c).edit = OnSwitch("wrr_ratio", Pos(Ratios, IF c.no THEN "1:0" ELSE c.arg))
    BY <1>13, OneFlag DEF SwitchJob, do_wrr_queue, Ratios
  <2> QED
    BY <1>2, <2>1, <2>2
<1>14. CASE c.word = "monitor"
  BY <1>14, MonitorFits
<1>15. CASE c.word = "flowcontrol"
  BY <1>15, FlowFits
<1>16. CASE c.word = "mls qos trust"
  BY <1>16, TrustFits
<1> QED
  BY <1>4, <1>5, <1>6, <1>7, <1>8, <1>9, <1>10, <1>11, <1>12, <1>13, <1>14, <1>15, <1>16
     DEF SwitchWords

\* Alike, but for the VLAN of entry 0 where a command takes it from the mode.
Alike(c, e, w) ==
    /\ DOMAIN e = DOMAIN w
    /\ \A f \in DOMAIN w : e[f] = w[f] \/ (c.word = "vlan clear" /\ f = Vid(0))

LEMMA AskedWords ==
    ASSUME NEW c, IsRtl83xx(c), NEW d, NEW wraps
    PROVE  /\ c.word \in InterfaceWords => /\ AskedAt(c, d) = PortCommand(c)
                                           /\ Rtl83xxJob(c, wraps) = InterfaceJob(c, wraps)
           /\ c.word \in VlanWords => /\ AskedAt(c, d) = VlanAskedAt(c, d)
                                      /\ Rtl83xxJob(c, wraps) = VlanJob(c, 0)
           /\ c.word \in SwitchWords => /\ AskedAt(c, d) = SwitchCommand(c)
                                        /\ Rtl83xxJob(c, wraps) = SwitchJob(c)
<1>1. CASE c.word \in InterfaceWords
  <2>1. c.word \notin VlanWords /\ c.word \notin SwitchWords /\ c.word # "monitor"
    BY <1>1 DEF InterfaceWords, VlanWords, SwitchWords
  <2>2. c.ports # {}
    BY <1>1 DEF IsRtl83xx
  <2>3. AskedAt(c, d) = PortCommand(c)
    BY <2>1, <2>2 DEF AskedAt, Asked, VlanWords
  <2>4. Rtl83xxJob(c, wraps) = InterfaceJob(c, wraps)
    BY <1>1, <2>1 DEF Rtl83xxJob
  <2> QED
    BY <2>1, <2>3, <2>4
<1>2. CASE c.word \in VlanWords
  <2>1. c.word \notin InterfaceWords /\ c.word \notin SwitchWords
    BY <1>2 DEF InterfaceWords, VlanWords, SwitchWords
  <2>2. AskedAt(c, d) = VlanAskedAt(c, d)
    BY <1>2 DEF AskedAt, VlanAskedAt, Asked, VlanWords
  <2>3. Rtl83xxJob(c, wraps) = VlanJob(c, 0)
    BY <1>2, <2>1 DEF Rtl83xxJob
  <2> QED
    BY <2>1, <2>2, <2>3
<1>3. CASE c.word \in SwitchWords
  <2>1. c.word \notin InterfaceWords /\ c.word \notin VlanWords
    BY <1>3 DEF InterfaceWords, VlanWords, SwitchWords
  <2>2. ~(c.ports # {} /\ c.word # "monitor")
    BY <1>3 DEF IsRtl83xx
  <2>3. AskedAt(c, d) = SwitchCommand(c)
    BY <2>1, <2>2 DEF AskedAt, Asked, VlanWords
  <2>4. Rtl83xxJob(c, wraps) = SwitchJob(c)
    BY <1>3, <2>1 DEF Rtl83xxJob
  <2> QED
    BY <2>1, <2>3, <2>4
<1> QED
  BY <1>1, <1>2, <1>3

LEMMA Rtl83xxFits ==
    ASSUME NEW c, IsRtl83xx(c), ~Surprising(c, "rtl83xx"), NEW wraps, NEW d
    PROVE  /\ Alike(c, Rtl83xxJob(c, wraps).edit, AskedAt(c, d))
           /\ c.word = "vlan clear" => Vid(0) \in DOMAIN AskedAt(c, d) /\ AskedAt(c, d)[Vid(0)] = d
<1> DEFINE e == Rtl83xxJob(c, wraps).edit
           w == AskedAt(c, d)
<1>1. CASE c.word = "vlan clear"
  <2> DEFINE clear == TRUE
  <2>1. e = do_vlan_enable_vlan(0, clear).edit
    BY <1>1, GoodRtl83xxJob, Zenon
  <2>2. clear \in BOOLEAN /\ clear
    OBVIOUS
  <2> HIDE DEF clear
  <2>3. c.word \in VlanWords
    BY <1>1 DEF VlanWords
  <2>4. w = VlanAskedAt(c, d)
    BY <2>3, AskedWords
  <2> DEFINE g == do_vlan_enable_vlan(d, clear).edit
  <2>5. Same(g, w)
    BY <1>1, <2>2, <2>4, ClearFits
  <2> DEFINE u == do_vlan_enable_vlan(0, clear).edit
  <2>6. /\ DOMAIN u = DOMAIN g /\ Vid(0) \in DOMAIN g /\ g[Vid(0)] = d
        /\ \A f \in DOMAIN g : f = Vid(0) \/ u[f] = g[f]
    BY <2>2, ClearBit
  <2>7. e = u
    BY <2>1
  <2> HIDE DEF g, u, e, w
  <2>8. Alike(c, e, w)
    BY <1>1, <2>5, <2>6, <2>7 DEF Same, Alike
  <2>9. Vid(0) \in DOMAIN w /\ w[Vid(0)] = d
    BY <2>5, <2>6 DEF Same
  <2> QED
    BY <2>8, <2>9 DEF e, w
<1>2. CASE ~(c.word = "vlan clear")
  <2>1. Same(e, w)
    <3>1. c.word \in InterfaceWords \cup VlanWords \cup SwitchWords
      BY DEF IsRtl83xx
    <3>2. CASE c.word \in InterfaceWords
      BY <3>2, AskedWords, PortJobsFit
    <3>3. CASE c.word \in VlanWords
      <4>1. Same(VlanJob(c, 0).edit, VlanAskedAt(c, d))
        BY <1>2, <3>3, VlanJobsFit
      <4> QED
        BY <3>3, <4>1, AskedWords
    <3>4. CASE c.word \in SwitchWords
      BY <3>4, AskedWords, SwitchJobsFit
    <3> QED
      BY <3>1, <3>2, <3>3, <3>4
  <2> HIDE DEF e, w
  <2>2. Alike(c, e, w)
    BY <2>1 DEF Same, Alike
  <2> QED
    BY <1>2, <2>2 DEF e, w
<1> QED
  BY <1>1, <1>2

\* Only that VLAN depends on the mode.
LEMMA AskedAlike ==
    ASSUME NEW c, IsRtl83xx(c), ~Surprising(c, "rtl83xx"), NEW d, NEW k
    PROVE  Alike(c, AskedAt(c, k), AskedAt(c, d))
<1> DEFINE e == Rtl83xxJob(c, TRUE).edit
           w == AskedAt(c, d)
           x == AskedAt(c, k)
<1>1. Alike(c, e, w) /\ Alike(c, e, x)
  BY Rtl83xxFits
<1> HIDE DEF e, w, x
<1>2. Alike(c, x, w)
  BY <1>1 DEF Alike
<1> QED
  BY <1>2 DEF x, w

\* What a command of rrcpcli sets: the same, or a match.
Fits(e, w) == DOMAIN e = DOMAIN w /\ \A f \in DOMAIN w : Match(f, e[f], w[f])

LEMMA SameFits == \A e, w : (e = w => Same(e, w)) /\ (Same(e, w) => Fits(e, w))
BY DEF Same, Fits, Match

\* The one port of a command.
LEMMA OnePort ==
    ASSUME NEW c, IsRrcpCli(c), c.ports # {}
    PROVE  LET q == Phys[CHOOSE l \in c.ports : TRUE]
           IN /\ q \in PhysPorts
              /\ \A l \in c.ports : Phys[l] = q
              /\ \A name, v : PortsTo(name, {q}, v) = OnPorts(name, c, v)
              /\ \A name : {Port(name, Phys[l]) : l \in c.ports} = {Port(name, q)}
<1> DEFINE q == Phys[CHOOSE l \in c.ports : TRUE]
<1>1. PICK k \in 1 .. NumPorts : c.ports = {k}
  BY DEF IsRrcpCli
<1>2. q = Phys[k] /\ {Phys[l] : l \in c.ports} = {q}
  BY <1>1
<1> HIDE DEF q
<1>3. q \in PhysPorts /\ \A l \in c.ports : Phys[l] = q
  BY <1>1, <1>2, SwitchRegsAssumption
<1>4. \A name, v : PortsTo(name, {q}, v) = OnPorts(name, c, v)
  BY <1>2, PortsAsked
<1>5. \A name : {Port(name, Phys[l]) : l \in c.ports} = {Port(name, q)}
  BY <1>1, <1>2
<1> QED
  BY <1>3, <1>4, <1>5 DEF q

LEMMA CliPortWords ==
    ASSUME NEW c, c.ports # {}
    PROVE  /\ c.word = "mls qos cos" =>
                  PortCommand(c) = OnPorts("qos_port_priority", c, IF c.arg = "7" THEN 1 ELSE 0)
           /\ c.word = "rrcp enable" =>
                  PortCommand(c) = OnPorts("rrcp_byport_disable", c, IF c.no THEN 1 ELSE 0)
BY DEF PortCommand, Bit

LEMMA CliPortFits ==
    ASSUME NEW c, IsRrcpCli(c), c.ports # {}, NEW media
    PROVE  c.word # "duplex" => Fits(InterfaceCommandJob(c, media).edit, PortCommand(c))
<1> DEFINE q == Phys[CHOOSE l \in c.ports : TRUE]
           job == InterfaceCommandJob(c, media)
<1>1. /\ q \in PhysPorts
      /\ \A name, v : PortsTo(name, {q}, v) = OnPorts(name, c, v)
      /\ \A name : {Port(name, Phys[l]) : l \in c.ports} = {Port(name, q)}
  <2>1. LET p == Phys[CHOOSE l \in c.ports : TRUE]
        IN /\ p \in PhysPorts
           /\ \A l \in c.ports : Phys[l] = p
           /\ \A name, v : PortsTo(name, {p}, v) = OnPorts(name, c, v)
           /\ \A name : {Port(name, Phys[l]) : l \in c.ports} = {Port(name, p)}
    BY OnePort, Zenon
  <2> QED
    BY <2>1
<1>2. c.arg \in CliArgsOf(c.no, c.word)
  BY DEF IsRrcpCli
<1>3. c.word \in {"shutdown", "rate-limit", "mac-learn disable", "mac-learn enable",
                  "rrcp enable", "mls qos cos", "speed", "duplex"}
  BY DEF IsRrcpCli
<1>4. On(c) = Bit(~c.no) /\ Not(On(c)) = Bit(c.no)
  BY DEF On, Not, Bit
<1>5. /\ c.word = "shutdown"          => job = cmd_config_int_shutdown(q, On(c))
      /\ c.word = "rate-limit"        => job = cmd_rate_limit(q, c.arg, IF c.no THEN 0 ELSE c.num)
      /\ c.word = "mac-learn disable" => job = cmd_config_int_mac_learning(q, On(c))
      /\ c.word = "mac-learn enable"  => job = cmd_config_int_mac_learning(q, 0)
      /\ c.word = "rrcp enable"       => job = cmd_config_int_rrcp(q, Not(On(c)))
      /\ c.word = "mls qos cos"       => job = cmd_config_int_mls(q, c.arg)
      /\ c.word = "speed"             => job = cmd_config_int_speed(q, c.arg, media[q])
  BY DEF InterfaceCommandJob
<1> HIDE DEF q, job
<1>6. CASE c.word = "shutdown"
  <2>1. PortCommand(c) = OnPorts("port_disable", c, Bit(~c.no))
    BY <1>6 DEF PortCommand, Bit
  <2>2. job.edit = PortsTo("port_disable", {q}, Bit(~c.no))
    BY <1>4, <1>5, <1>6 DEF cmd_config_int_shutdown, Set, Job
  <2> QED
    BY <1>1, <2>1, <2>2, SameFits DEF job
<1>7. CASE c.word \in {"mac-learn disable", "mac-learn enable"}
  <2>1. PortCommand(c) = OnPorts("alt_mask", c, IF c.word = "mac-learn enable" THEN 0 ELSE Bit(~c.no))
    BY <1>7 DEF PortCommand, Bit
  <2>2. job = cmd_config_int_mac_learning(q, IF c.word = "mac-learn enable" THEN 0 ELSE Bit(~c.no))
    BY <1>4, <1>5, <1>7
  <2>3. \A v : cmd_config_int_mac_learning(q, v).edit = PortsTo("alt_mask", {q}, v)
    BY DEF cmd_config_int_mac_learning, SetPort, Job
  <2> QED
    BY <1>1, <2>1, <2>2, <2>3, SameFits DEF job
<1>8. CASE c.word = "rrcp enable"
  <2>1. PortCommand(c) = OnPorts("rrcp_byport_disable", c, Bit(c.no))
    BY <1>8, CliPortWords DEF Bit
  <2>2. job.edit = PortsTo("rrcp_byport_disable", {q}, Bit(c.no))
    <3>1. job = cmd_config_int_rrcp(q, Bit(c.no))
      BY <1>4, <1>5, <1>8
    <3>2. \A v : cmd_config_int_rrcp(q, v).edit = PortsTo("rrcp_byport_disable", {q}, v)
      BY DEF cmd_config_int_rrcp, SetPort, Job
    <3> QED
      BY <3>1, <3>2
  <2> QED
    BY <1>1, <2>1, <2>2, SameFits DEF job
<1>9. CASE c.word = "mls qos cos"
  <2>1. PortCommand(c) = OnPorts("qos_port_priority", c, Bit(c.arg = "7"))
    BY <1>9, CliPortWords DEF Bit
  <2>2. job.edit = PortsTo("qos_port_priority", {q}, Bit(c.arg = "7"))
    <3>1. job = cmd_config_int_mls(q, c.arg)
      BY <1>5, <1>9
    <3>2. cmd_config_int_mls(q, c.arg).edit
            = PortsTo("qos_port_priority", {q}, IF c.arg = "7" THEN 1 ELSE 0)
      BY DEF cmd_config_int_mls, Set, Job
    <3> QED
      BY <3>1, <3>2 DEF Bit
  <2> QED
    BY <1>1, <2>1, <2>2, SameFits DEF job
<1>10. CASE c.word = "rate-limit"
  <2> DEFINE rate == IF c.no THEN 0 ELSE c.num
             x == IF c.arg = "output" THEN <<>> ELSE OnPorts("rx", c, rate)
             y == IF c.arg = "input" THEN <<>> ELSE OnPorts("tx", c, rate)
  <2>1. c.arg \in {"input", "output"}
    BY <1>2, <1>10 DEF CliArgsOf
  <2>2. PortCommand(c) = x ++ y
    BY <1>10 DEF PortCommand
  <2>3. job.edit = PortsTo(IF c.arg = "input" THEN "rx" ELSE "tx", {q}, rate)
    BY <1>5, <1>10 DEF cmd_rate_limit, SetPort, Job
  <2>4. DOMAIN <<>> = {}
    OBVIOUS
  <2> HIDE DEF rate
  <2>5. job.edit = OnPorts(IF c.arg = "input" THEN "rx" ELSE "tx", c, rate)
    BY <1>1, <2>3
  <2>6. CASE c.arg = "input"
    <3>1. x = job.edit /\ DOMAIN y = {}
      BY <2>4, <2>5, <2>6
    <3> HIDE DEF x, y
    <3>2. Same(job.edit, x ++ y)
      BY <3>1 DEF Same, ++
    <3> QED
      BY <2>2, <3>2, SameFits DEF job
  <2>7. CASE c.arg = "output"
    <3>1. y = job.edit /\ DOMAIN x = {}
      BY <2>4, <2>5, <2>7
    <3> HIDE DEF x, y
    <3>2. Same(job.edit, x ++ y)
      BY <3>1 DEF Same, ++
    <3> QED
      BY <2>2, <3>2, SameFits DEF job
  <2> QED
    BY <2>1, <2>6, <2>7
<1>11. CASE c.word = "speed"
  <2> DEFINE set == CASE c.arg = "10"   -> {"10full"}
                      [] c.arg = "100"  -> {"100full"}
                      [] c.arg = "1000" -> {"1000full"}
                      [] c.arg = "auto" -> AutoMedia(q) \cup (media[q] \cap {"1000full"})
             want == IF c.arg = "auto" THEN AutoMedia(q) ELSE MediaNamed(c.arg, "full")
  <2>1. c.arg \in {"10", "100", "1000", "auto"}
    BY <1>2, <1>11 DEF CliArgsOf
  <2>2. DOMAIN PortCommand(c) = {Port("media", q)} /\ PortCommand(c)[Port("media", q)] = want
    <3>1. PortCommand(c) = [f \in {Port("media", q)} |->
                               IF c.arg = "auto" THEN AutoMedia(f[3]) ELSE MediaNamed(c.arg, "full")]
      <4>1. {Port("media", Phys[l]) : l \in c.ports} = {Port("media", q)}
        BY <1>1
      <4>2. PortCommand(c) = [f \in {Port("media", Phys[l]) : l \in c.ports} |->
                               IF c.arg = "auto" THEN AutoMedia(f[3]) ELSE MediaNamed(c.arg, "full")]
        BY <1>11 DEF PortCommand
      <4> QED
        BY <4>1, <4>2
    <3>2. Port("media", q)[3] = q
      BY DEF Port
    <3> QED
      BY <3>1, <3>2
  <2>3. job.edit = PortsTo("media", {q}, set)
    <3>1. job = cmd_config_int_speed(q, c.arg, media[q])
      BY <1>5, <1>11
    <3>2. cmd_config_int_speed(q, c.arg, media[q]).edit = PortsTo("media", {q}, set)
      BY DEF cmd_config_int_speed, SetPort, Job
    <3> QED
      BY <3>1, <3>2
  <2>4. DOMAIN job.edit = {Port("media", q)} /\ job.edit[Port("media", q)] = set
    <3> HIDE DEF set
    <3> QED
      BY <2>3 DEF PortsTo
  <2>5. Match(Port("media", q), set, want)
    <3>1. CASE c.arg = "auto"
      <4>1. "autoneg" \in AutoMedia(q)
        BY DEF AutoMedia, Media
      <4>2. set = AutoMedia(q) \/ set = AutoMedia(q) \cup {"1000full"}
        BY <3>1
      <4>3. want = AutoMedia(q) /\ Port("media", q)[1] = "media"
        BY <3>1 DEF Port
      <4> HIDE DEF set, want
      <4> QED
        BY <4>1, <4>2, <4>3 DEF Match
    <3>2. CASE ~(c.arg = "auto")
      <4>1. set = want
        BY <2>1, <3>2 DEF MediaNamed
      <4> QED
        BY <4>1 DEF Match
    <3> QED
      BY <3>1, <3>2
  <2> HIDE DEF set, want
  <2> QED
    BY <2>2, <2>4, <2>5 DEF Fits, job
<1> QED
  BY <1>3, <1>6, <1>7, <1>8, <1>9, <1>10, <1>11 DEF job

\* The media a duplex leaves no port with.
Wrong(duplex) == IF duplex = "half" THEN {"10full", "100full"} ELSE {"10half", "100half"}

LEMMA CliDuplexFits ==
    ASSUME NEW c, IsRrcpCli(c), c.ports # {}, NEW media
    PROVE  c.word = "duplex" =>
               LET q == Phys[CHOOSE l \in c.ports : TRUE]
                   e == InterfaceCommandJob(c, media).edit
               IN /\ DOMAIN e \subseteq {Port("media", q)}
                  /\ \/ DuplexRefused(q, media[q], c.arg) /\ DOMAIN e = {}
                     \/ Port("media", q) \in DOMAIN e /\ e[Port("media", q)] \cap Wrong(c.arg) = {}
<1>1. CASE c.word = "duplex"
  <2> DEFINE q == Phys[CHOOSE l \in c.ports : TRUE]
             e == InterfaceCommandJob(c, media).edit
             m == media[q]
  <2>1. InterfaceCommandJob(c, media) = cmd_config_int_duplex(q, c.arg, m)
    BY <1>1 DEF InterfaceCommandJob
  <2>2. c.arg \in {"half", "full"}
    BY <1>1 DEF IsRrcpCli, CliArgsOf
  <2> HIDE DEF q, m
  <2>3. CASE DuplexRefused(q, m, c.arg)
    <3>1. e = <<>>
      BY <2>1, <2>3 DEF cmd_config_int_duplex, Job, Keep
    <3>2. DOMAIN e = {}
      BY <3>1, NoEdit
    <3> QED
      BY <2>3, <3>2 DEF q, m
  <2>4. CASE ~DuplexRefused(q, m, c.arg)
    <3> DEFINE set == Duplexed(m, c.arg)
    <3>1. e = PortsTo("media", {q}, set)
      BY <2>1, <2>4 DEF cmd_config_int_duplex, SetPort, Job
    <3>2. set \cap Wrong(c.arg) = {}
      BY <2>2 DEF Duplexed, Wrong
    <3> HIDE DEF set
    <3>3. DOMAIN e = {Port("media", q)} /\ e[Port("media", q)] = set
      BY <3>1 DEF PortsTo
    <3> QED
      BY <3>2, <3>3 DEF q
  <2> QED
    BY <2>3, <2>4
<1> QED
  BY <1>1

LEMMA SetOne == \A reg, name, v : Set(reg, Flags({name}, v)).edit = OnSwitch(name, v)
<1>1. ASSUME NEW reg, NEW name, NEW v PROVE Set(reg, Flags({name}, v)).edit = OnSwitch(name, v)
  <2>1. Flags({name}, v) = OnSwitch(name, v)
    BY FlagsAsked
  <2> QED
    BY <2>1 DEF Set, Job
<1> QED
  BY <1>1

LEMMA CliFlowFits ==
    ASSUME NEW c, IsRrcpCli(c)
    PROVE  c.word = "flowcontrol" => Fits(GlobalCommandJob(c).edit, SwitchCommand(c))
<1>1. CASE c.word = "flowcontrol"
  <2> DEFINE name == CASE c.arg = "dot3x"            -> "flow_dot3x_disable"
                       [] c.arg = "backpressure"     -> "flow_backpressure_disable"
                       [] c.arg = "ondemand-disable" -> "flow_ondemand_disable"
             v == IF c.arg = "ondemand-disable" THEN On(c) ELSE Not(On(c))
  <2>1. c.arg \in {"dot3x", "backpressure", "ondemand-disable"} /\ c.no \in BOOLEAN /\ c.arg2 = ""
    BY <1>1 DEF IsRrcpCli, CliArgsOf, ArgsOf
  <2>2. SwitchCommand(c) = OnSwitch(name, Bit(Enables(c) = (c.arg = "ondemand-disable")))
    BY <1>1 DEF SwitchCommand, Bit
  <2>3. GlobalCommandJob(c).edit = Flags({name}, v)
    <3>1. GlobalCommandJob(c) = cmd_config_flowcontrol(
             CASE c.arg = "dot3x"        -> Flags({"flow_dot3x_disable"}, Not(On(c)))
               [] c.arg = "backpressure" -> Flags({"flow_backpressure_disable"}, Not(On(c)))
               [] c.arg = "ondemand-disable" -> Flags({"flow_ondemand_disable"}, On(c)))
      BY <1>1 DEF GlobalCommandJob
    <3>2. GlobalCommandJob(c) = cmd_config_flowcontrol(Flags({name}, v))
      BY <2>1, <3>1
    <3>3. \A e : cmd_config_flowcontrol(e).edit = e
      BY DEF cmd_config_flowcontrol, Job
    <3> QED
      BY <3>2, <3>3
  <2>4. Bit(Enables(c) = (c.arg = "ondemand-disable")) = v
    <3>1. CASE c.no
      <4>1. Enables(c) = FALSE /\ On(c) = 0
        BY <2>1, <3>1 DEF Enables, On
      <4> QED
        BY <4>1 DEF Bit, Not
    <3>2. CASE ~c.no
      <4>1. Enables(c) = TRUE /\ On(c) = 1
        BY <2>1, <3>2 DEF Enables, On
      <4> QED
        BY <4>1 DEF Bit, Not
    <3> QED
      BY <3>1, <3>2
  <2>5. GlobalCommandJob(c).edit = OnSwitch(name, v)
    BY <2>3, FlagsAsked
  <2> QED
    BY <2>2, <2>4, <2>5, SameFits
<1> QED
  BY <1>1

LEMMA CliSwitchFits ==
    ASSUME NEW c, IsRrcpCli(c), c.ports = {}, NEW d
    PROVE  c.word \notin {"vlan leaky", "vlan drop"} =>
               Fits(GlobalCommandJob(c).edit, SwitchCommand(c))
<1> DEFINE job == GlobalCommandJob(c)
           on == Bit(~c.no)
           off == Bit(c.no)
<1>1. c.word \in {"mac-address-table aging-time", "ip igmp snooping", "rrcp enable",
                  "rrcp echo enable", "rrcp loop-detect enable", "rrcp authkey",
                  "vlan leaky", "vlan drop", "mls qos trust", "wrr-queue ratio",
                  "flowcontrol", "storm-control broadcast",
                  "storm-control multicast", "spanning-tree bpdufilter"}
  BY DEF IsRrcpCli
<1>2. c.arg \in CliArgsOf(c.no, c.word) /\ c.no \in BOOLEAN
  BY DEF IsRrcpCli
<1>3. On(c) = on /\ Not(On(c)) = off
  BY DEF On, Not, Bit
<1>4. /\ c.word = "mac-address-table aging-time" => job = cmd_config_mac_aging(c.arg)
      /\ c.word = "ip igmp snooping" => job = cmd_config_ip_igmp_snooping(On(c))
      /\ c.word = "rrcp enable"      => job = cmd_config_rrcp("rrcp_disable", Not(On(c)))
      /\ c.word = "rrcp echo enable" => job = cmd_config_rrcp("echo_disable", Not(On(c)))
      /\ c.word = "rrcp loop-detect enable" => job = cmd_config_rrcp("loop_enable", On(c))
      /\ c.word = "rrcp authkey"     => job = set_authkey(c.num)
      /\ c.word = "storm-control multicast"  => job = cmd_config_stormcontrol_multicast(On(c))
      /\ c.word = "spanning-tree bpdufilter" => job = cmd_config_spanning_tree(On(c))
  BY DEF GlobalCommandJob
<1>5. /\ c.word = "mls qos trust"    =>
             job = cmd_config_qos(IF c.arg = "dscp" THEN "dscp_enable" ELSE "cos_enable", On(c))
      /\ c.word = "wrr-queue ratio"  =>
             job = IF c.no THEN cmd_config_qos("wrr_ratio", 3)
                   ELSE cmd_config_qos_wrr_queue_ratio(c.arg)
      /\ c.word = "storm-control broadcast" =>
             job = IF c.no THEN cmd_config_stormcontrol(1, 0)
                   ELSE cmd_config_stormcontrol(0, IF c.arg = "strict" THEN 1 ELSE 0)
  BY DEF GlobalCommandJob
<1>6. /\ c.word = "ip igmp snooping" => SwitchCommand(c) = OnSwitch("en_igmp_snooping", on)
      /\ c.word = "rrcp enable"      => SwitchCommand(c) = OnSwitch("rrcp_disable", off)
      /\ c.word = "rrcp echo enable" => SwitchCommand(c) = OnSwitch("echo_disable", off)
      /\ c.word = "rrcp loop-detect enable" => SwitchCommand(c) = OnSwitch("loop_enable", on)
      /\ c.word = "rrcp authkey"     => SwitchCommand(c) = OnSwitch("authkey", c.num)
      /\ c.word = "storm-control multicast"  => SwitchCommand(c) = OnSwitch("multicast_strict", on)
      /\ c.word = "spanning-tree bpdufilter" => SwitchCommand(c) = OnSwitch("stp_filter", on)
  BY DEF SwitchCommand, Bit
<1> HIDE DEF job, on, off
<1>7. /\ \A v : cmd_config_ip_igmp_snooping(v).edit = OnSwitch("en_igmp_snooping", v)
      /\ \A name, v : cmd_config_rrcp(name, v).edit = OnSwitch(name, v)
      /\ \A name, v : cmd_config_qos(name, v).edit = OnSwitch(name, v)
      /\ \A v : set_authkey(v).edit = OnSwitch("authkey", v)
      /\ \A v : cmd_config_stormcontrol_multicast(v).edit = OnSwitch("multicast_strict", v)
      /\ \A v : cmd_config_spanning_tree(v).edit = OnSwitch("stp_filter", v)
  <2>1. \A v : set_authkey(v).edit = OnSwitch("authkey", v)
    BY FlagsAsked DEF set_authkey, Job
  <2> QED
    BY <2>1, SetOne DEF cmd_config_ip_igmp_snooping, cmd_config_rrcp, cmd_config_qos,
                        cmd_config_stormcontrol_multicast, cmd_config_spanning_tree
<1>8. CASE c.word \in {"ip igmp snooping", "rrcp enable", "rrcp echo enable", "rrcp loop-detect enable",
                       "rrcp authkey", "storm-control multicast", "spanning-tree bpdufilter"}
  <2> SUFFICES job.edit = SwitchCommand(c)
    BY SameFits DEF job
  <2>1. CASE c.word = "ip igmp snooping"
    <3>1. job = cmd_config_ip_igmp_snooping(on)
      BY <1>3, <1>4, <2>1
    <3>2. SwitchCommand(c) = job.edit
      BY <1>6, <1>7, <2>1, <3>1
    <3> QED
      BY <3>2
  <2>2. CASE c.word = "rrcp enable"
    <3>1. job = cmd_config_rrcp("rrcp_disable", off)
      BY <1>3, <1>4, <2>2
    <3>3. SwitchCommand(c) = OnSwitch("rrcp_disable", off)
      BY <1>6, <2>2
    <3>4. \A name, x : cmd_config_rrcp(name, x).edit = OnSwitch(name, x)
      BY <1>7
    <3>5. job.edit = OnSwitch("rrcp_disable", off)
      BY <3>1, <3>4, Zenon
    <3>2. SwitchCommand(c) = job.edit
      BY <3>3, <3>5
    <3> QED
      BY <3>2
  <2>3. CASE c.word = "rrcp echo enable"
    <3>1. job = cmd_config_rrcp("echo_disable", off)
      BY <1>3, <1>4, <2>3
    <3>3. SwitchCommand(c) = OnSwitch("echo_disable", off)
      BY <1>6, <2>3
    <3>4. \A name, x : cmd_config_rrcp(name, x).edit = OnSwitch(name, x)
      BY <1>7
    <3>5. job.edit = OnSwitch("echo_disable", off)
      BY <3>1, <3>4, Zenon
    <3>2. SwitchCommand(c) = job.edit
      BY <3>3, <3>5
    <3> QED
      BY <3>2
  <2>4. CASE c.word = "rrcp loop-detect enable"
    <3>1. job = cmd_config_rrcp("loop_enable", on)
      BY <1>3, <1>4, <2>4
    <3>3. SwitchCommand(c) = OnSwitch("loop_enable", on)
      BY <1>6, <2>4
    <3>4. \A name, x : cmd_config_rrcp(name, x).edit = OnSwitch(name, x)
      BY <1>7
    <3>5. job.edit = OnSwitch("loop_enable", on)
      BY <3>1, <3>4, Zenon
    <3>2. SwitchCommand(c) = job.edit
      BY <3>3, <3>5
    <3> QED
      BY <3>2
  <2>5. CASE c.word = "rrcp authkey"
    <3>1. job = set_authkey(c.num)
      BY <1>3, <1>4, <2>5
    <3>2. SwitchCommand(c) = job.edit
      BY <1>6, <1>7, <2>5, <3>1
    <3> QED
      BY <3>2
  <2>6. CASE c.word = "storm-control multicast"
    <3>1. job = cmd_config_stormcontrol_multicast(on)
      BY <1>3, <1>4, <2>6
    <3>2. SwitchCommand(c) = job.edit
      BY <1>6, <1>7, <2>6, <3>1
    <3> QED
      BY <3>2
  <2>7. CASE c.word = "spanning-tree bpdufilter"
    <3>1. job = cmd_config_spanning_tree(on)
      BY <1>3, <1>4, <2>7
    <3>2. SwitchCommand(c) = job.edit
      BY <1>6, <1>7, <2>7, <3>1
    <3> QED
      BY <3>2
  <2> QED
    BY <1>8, <2>1, <2>2, <2>3, <2>4, <2>5, <2>6, <2>7
<1>9. CASE c.word = "mac-address-table aging-time"
  <2>1. SwitchCommand(c) = OnSwitch("mac_aging_disable", Bit(c.arg = "0"))
                             ++ OnSwitch("mac_aging_fast", Bit(c.arg = "12"))
    BY <1>9 DEF SwitchCommand, Bit
  <2>2. job.edit = Flags({"mac_aging_disable"}, Bit(c.arg = "0"))
                     ++ Flags({"mac_aging_fast"}, Bit(c.arg = "12"))
    <3>1. job = cmd_config_mac_aging(c.arg)
      BY <1>4, <1>9
    <3>2. cmd_config_mac_aging(c.arg).edit = Flags({"mac_aging_disable"}, IF c.arg = "0" THEN 1 ELSE 0)
                                               ++ Flags({"mac_aging_fast"}, IF c.arg = "12" THEN 1 ELSE 0)
      BY DEF cmd_config_mac_aging, Set, Job
    <3> QED
      BY <3>1, <3>2 DEF Bit
  <2>3. job.edit = SwitchCommand(c)
    BY <2>1, <2>2, FlagsAsked
  <2> QED
    BY <2>3, SameFits DEF job
<1>10. CASE c.word = "mls qos trust"
  <2>1. c.arg \in {"dscp", "cos"} /\ c.num = 0
    BY <1>2, <1>10 DEF CliArgsOf, IsRrcpCli
  <2> DEFINE x == IF c.arg = "dscp" \/ c.num \in {1, 3} THEN OnSwitch("dscp_enable", on) ELSE <<>>
             y == IF c.arg = "cos" \/ c.num \in {2, 3} THEN OnSwitch("cos_enable", on) ELSE <<>>
  <2>2. SwitchCommand(c) = x ++ y
    BY <1>10 DEF SwitchCommand, Bit, on
  <2>3. job.edit = OnSwitch(IF c.arg = "dscp" THEN "dscp_enable" ELSE "cos_enable", on)
    <3> DEFINE f == IF c.arg = "dscp" THEN "dscp_enable" ELSE "cos_enable"
    <3>1. job = cmd_config_qos(f, On(c))
      BY <1>5, <1>10
    <3>2. On(c) = on
      BY <1>3
    <3>3. \A name, v : cmd_config_qos(name, v).edit = OnSwitch(name, v)
      BY <1>7
    <3> HIDE DEF f
    <3>4. job.edit = OnSwitch(f, on)
      BY <3>1, <3>2, <3>3, Zenon
    <3> QED
      BY <3>4 DEF f
  <2>4. CASE c.arg = "dscp"
    <3>1. x = job.edit /\ DOMAIN y = {}
      BY <2>1, <2>3, <2>4, NoEdit
    <3> HIDE DEF x, y
    <3>2. Same(job.edit, x ++ y)
      BY <3>1 DEF Same, ++
    <3> QED
      BY <2>2, <3>2, SameFits DEF job
  <2>5. CASE c.arg = "cos"
    <3>1. y = job.edit /\ DOMAIN x = {}
      BY <2>1, <2>3, <2>5, NoEdit
    <3> HIDE DEF x, y
    <3>2. Same(job.edit, x ++ y)
      BY <3>1 DEF Same, ++
    <3> QED
      BY <2>2, <3>2, SameFits DEF job
  <2> QED
    BY <2>1, <2>4, <2>5
<1>11. CASE c.word = "wrr-queue ratio"
  <2>1. SwitchCommand(c) = OnSwitch("wrr_ratio", Pos(Ratios, IF c.no THEN "1:0" ELSE c.arg))
    BY <1>11 DEF SwitchCommand
  <2>2. CASE c.no
    <3>1. Pos(Ratios, "1:0") = 3
      BY Pos4 DEF Ratios
    <3>2. job = cmd_config_qos("wrr_ratio", 3)
      BY <1>5, <1>11, <2>2
    <3>4. job.edit = OnSwitch("wrr_ratio", 3)
      BY <1>7, <3>2
    <3>3. job.edit = SwitchCommand(c)
      BY <2>1, <2>2, <3>1, <3>4
    <3> QED
      BY <3>3, SameFits DEF job
  <2>3. CASE ~c.no
    <3>1. job.edit = OnSwitch("wrr_ratio", Pos(Ratios, c.arg))
      BY <1>5, <1>11, <2>3, SetOne DEF cmd_config_qos_wrr_queue_ratio, Ratios
    <3>2. job.edit = SwitchCommand(c)
      BY <2>1, <2>3, <3>1
    <3> QED
      BY <3>2, SameFits DEF job
  <2> QED
    BY <2>2, <2>3
<1>12. CASE c.word = "storm-control broadcast"
  <2>1. SwitchCommand(c) = OnSwitch("broadcast_disable", off)
                             ++ OnSwitch("broadcast_strict", Bit(~c.no /\ c.arg = "strict"))
    BY <1>12 DEF SwitchCommand, Bit, off
  <2>2. \A v, s : cmd_config_stormcontrol(v, s).edit = OnSwitch("broadcast_disable", v)
                                                         ++ OnSwitch("broadcast_strict", s)
    BY FlagsAsked DEF cmd_config_stormcontrol, Set, Job
  <2>3. job = cmd_config_stormcontrol(off, Bit(~c.no /\ c.arg = "strict"))
    BY <1>2, <1>5, <1>12 DEF Bit, off
  <2>4. job.edit = SwitchCommand(c)
    BY <2>1, <2>2, <2>3
  <2> QED
    BY <2>4, SameFits DEF job
<1>13. CASE c.word = "flowcontrol"
  BY <1>13, CliFlowFits
<1> QED
  BY <1>1, <1>8, <1>9, <1>10, <1>11, <1>12, <1>13 DEF job

LEMMA CliVlanFits ==
    ASSUME NEW c, IsRrcpCli(c), c.ports = {}, NEW d
    PROVE  c.word \in {"vlan leaky", "vlan drop"} /\ ~Surprising(c, "rrcpcli") =>
               Fits(GlobalCommandJob(c).edit, VlanAskedAt(c, d))
<1> DEFINE on == Bit(~c.no)
           job == GlobalCommandJob(c)
<1> SUFFICES ASSUME ~Surprising(c, "rrcpcli")
             PROVE  c.word \in {"vlan leaky", "vlan drop"} =>
                        Fits(GlobalCommandJob(c).edit, VlanAskedAt(c, d))
  OBVIOUS
<1>1. c.arg \in CliArgsOf(c.no, c.word) /\ c.no \in BOOLEAN /\ On(c) = on
  BY DEF IsRrcpCli, On, Bit
<1>2. CASE c.word = "vlan leaky"
  <2> DEFINE name == CASE c.arg = "arp"       -> "arp_leaky"
                       [] c.arg = "multicast" -> "multicast_leaky"
                       [] c.arg = "unicast"   -> "unicast_leaky"
  <2>1. ~(c.arg = "arp" /\ ~c.no)
    BY <1>2 DEF Surprising
  <2>2. ~(c.arg = "arp" /\ on = 1)
    BY <2>1 DEF Bit
  <2>3. VlanAskedAt(c, d) = OnSwitch(name, on)
    BY <1>2 DEF VlanAskedAt, VlanCommand
  <2>4. job = cmd_config_vlan_leaky(c.arg, on)
    <3>1. job = cmd_config_vlan_leaky(c.arg, On(c))
      BY <1>2 DEF GlobalCommandJob
    <3> QED
      BY <1>1, <3>1
  <2> HIDE DEF on, job
  <2>5. cmd_config_vlan_leaky(c.arg, on).edit = Flags({name}, on)
    BY <2>2 DEF cmd_config_vlan_leaky, Set, Job
  <2> HIDE DEF name
  <2>6. job.edit = OnSwitch(name, on)
    BY <2>4, <2>5, FlagsAsked
  <2> QED
    BY <2>3, <2>6, SameFits DEF job
<1>3. CASE c.word = "vlan drop"
  <2> DEFINE name == CASE c.arg = "untagged_frames" -> "drop_untagged_frames"
                       [] c.arg = "invalid_vid"     -> "ingress_filtering"
  <2>1. c.arg \in {"untagged_frames", "invalid_vid"}
    BY <1>1, <1>3 DEF CliArgsOf, ArgsOf
  <2>3. VlanAskedAt(c, d) = OnSwitch(name, on)
    BY <1>3 DEF VlanAskedAt, VlanCommand
  <2>4. job = cmd_config_vlan_drop(c.arg, on)
    <3>1. job = cmd_config_vlan_drop(c.arg, On(c))
      BY <1>3 DEF GlobalCommandJob
    <3> QED
      BY <1>1, <3>1
  <2> HIDE DEF on, job
  <2>5. cmd_config_vlan_drop(c.arg, on).edit = Flags({name}, on)
    <3>1. cmd_config_vlan_drop(c.arg, on).edit
            = Flags({IF c.arg = "untagged_frames" THEN "drop_untagged_frames" ELSE "ingress_filtering"}, on)
      BY DEF cmd_config_vlan_drop, Set, Job
    <3> QED
      BY <2>1, <3>1
  <2> HIDE DEF name
  <2>6. job.edit = OnSwitch(name, on)
    BY <2>4, <2>5, FlagsAsked
  <2> QED
    BY <2>3, <2>6, SameFits DEF job
<1> QED
  BY <1>2, <1>3

\* What a command of rrcpcli, "duplex" apart, sets is what its words say.
LEMMA CliFits ==
    ASSUME NEW a, NEW c, IsRrcpCli(c), ~Surprising(c, "rrcpcli"), NEW d
    PROVE  c.word # "duplex" => Fits(CliJob(a, c).edit, AskedAt(c, d))
<1> DEFINE vlan == c.word \in {"vlan transparent", "vlan clear", "vlan mode", "vlan template-load",
                   "vlan add", "vlan delete", "vlan index", "vlan leaky", "vlan drop"}
<1>1. CASE c.ports # {}
  <2>1. c.word \in {"shutdown", "rate-limit", "mac-learn disable", "mac-learn enable",
                    "rrcp enable", "mls qos cos", "speed", "duplex"}
    BY <1>1 DEF IsRrcpCli
  <2>2. ~vlan /\ c.word # "monitor"
    BY <2>1
  <2>3. AskedAt(c, d) = PortCommand(c)
    BY <1>1, <2>2 DEF AskedAt, Asked
  <2> DEFINE media == [q \in PhysPorts |-> Value(a, Port("media", q))]
  <2>4. CliJob(a, c) = InterfaceCommandJob(c, media)
    BY <1>1 DEF CliJob
  <2> HIDE DEF media
  <2>5. c.word # "duplex" => Fits(InterfaceCommandJob(c, media).edit, PortCommand(c))
    BY <1>1, CliPortFits
  <2> QED
    BY <2>3, <2>4, <2>5
<1>2. CASE c.ports = {}
  <2>1. CliJob(a, c) = GlobalCommandJob(c)
    BY <1>2 DEF CliJob
  <2>2. CASE c.word \in {"vlan leaky", "vlan drop"}
    <3>1. AskedAt(c, d) = VlanAskedAt(c, d)
      BY <2>2 DEF AskedAt, VlanAskedAt, Asked
    <3>2. Fits(GlobalCommandJob(c).edit, VlanAskedAt(c, d))
      <4>1. c.word \in {"vlan leaky", "vlan drop"} /\ ~Surprising(c, "rrcpcli") => Fits(GlobalCommandJob(c).edit, VlanAskedAt(c, d))
        BY <1>2, CliVlanFits
      <4> QED
        BY <2>2, <4>1
    <3> QED
      BY <2>1, <3>1, <3>2
  <2>3. CASE ~(c.word \in {"vlan leaky", "vlan drop"})
    <3>1. ~vlan
      <4>1. c.word \in {"mac-address-table aging-time", "ip igmp snooping", "rrcp enable",
                        "rrcp echo enable", "rrcp loop-detect enable", "rrcp authkey",
                        "vlan leaky", "vlan drop", "mls qos trust", "wrr-queue ratio",
                        "flowcontrol", "storm-control broadcast",
                        "storm-control multicast", "spanning-tree bpdufilter"}
        BY <1>2 DEF IsRrcpCli
      <4> QED
        BY <2>3, <4>1
    <3>2. AskedAt(c, d) = SwitchCommand(c)
      BY <1>2, <3>1 DEF AskedAt, Asked
    <3>3. Fits(GlobalCommandJob(c).edit, SwitchCommand(c))
      BY <1>2, <2>3, CliSwitchFits
    <3> QED
      BY <2>1, <3>2, <3>3
  <2> QED
    BY <2>2, <2>3
<1> QED
  BY <1>1, <1>2

-----------------------------------------------------------------------------
(***************************************************************************)
(* What a tool has set is what its command says                            *)
(***************************************************************************)
\* A command of rtl83xx sets exactly what it says, "vlan clear" from when it
\* has read the mode on.  In a session of rrcpcli what the last command says
\* is set, and nothing else when it is the first.
ReadsLeft(a) == \E n \in 1 .. Len(todo[a]) : Reading(todo[a][n])
SetsExactly(a, want) ==
    /\ DOMAIN edit[a] = DOMAIN want
    /\ \A f \in DOMAIN want :
          edit[a][f] = want[f] \/ (cmd[a].word = "vlan clear" /\ f = Vid(0) /\ ReadsLeft(a))
SetsToo(a, want) ==
    /\ \A f \in DOMAIN want : f \in DOMAIN edit[a] /\ Match(f, edit[a][f], want[f])
    /\ given[a] <= 1 => DOMAIN edit[a] \subseteq DOMAIN want
DuplexSet(a, q) ==
    /\ given[a] <= 1 => DOMAIN edit[a] \subseteq {Port("media", q)}
    /\ \/ DuplexRefused(q, Value(a, Port("media", q)), cmd[a].arg)
       \/ Value(a, Port("media", q)) \cap Wrong(cmd[a].arg) = {}

Meant(a) == Running(a) /\ stage[a] = "command" =>
    /\ Is(a, "rtl83xx") =>
          /\ IsRtl83xx(cmd[a])
          /\ ~Surprising(cmd[a], "rtl83xx") =>
                SetsExactly(a, AskedAt(cmd[a], copy[a][Flag("dot1q")]))
    /\ Is(a, "rrcpcli") =>
          /\ given[a] = 0 => DOMAIN edit[a] = {}
          /\ cmd[a] # NoCmd =>
                /\ IsRrcpCli(cmd[a]) /\ ~ReadsLeft(a)
                /\ ~Surprising(cmd[a], "rrcpcli") =>
                      IF cmd[a].word = "duplex" THEN \A l \in cmd[a].ports : DuplexSet(a, Phys[l])
                      ELSE SetsToo(a, AskedAt(cmd[a], copy[a][Flag("dot1q")]))

\* Commands are counted.
LEMMA GivenStep ==
    ASSUME Owned, NEW b \in Actor, given[b] \in Nat, Step(b)
    PROVE  given'[b] \in Nat
<1>1. ASSUME NEW how, Exit(b, how) PROVE given'[b] \in Nat
  BY <1>1 DEF Exit, Owned, Rest, OfActors
<1>2. ASSUME UNCHANGED given PROVE given'[b] \in Nat
  BY <1>2
<1>3. CASE Session(b)
  <2>1. CASE StartRtl83xx(b) \/ StartRrcpCli(b)
    BY <1>2, <2>1 DEF StartRtl83xx, StartRrcpCli, Begin
  <2>2. CASE GiveCommand(b)
    BY <2>2 DEF GiveCommand, Owned, Rest, OfActors
  <2>3. CASE Access(b)
    BY <1>2, <2>3 DEF Access, toolVars
  <2>4. CASE Finish(b) \/ EndInside(b)
    BY <1>1, <2>4 DEF Finish, EndInside
  <2> QED
    BY <1>3, <2>1, <2>2, <2>3, <2>4 DEF Session
<1>4. CASE Capture(b)
  <2>1. CASE StartCapture(b)
    BY <1>2, <2>1 DEF StartCapture, Begin
  <2>2. CASE Signal(b) \/ SetSecondWord(b) \/ BeginReset(b)
    BY <1>2, <2>2 DEF Signal, SetSecondWord, BeginReset, toolVars
  <2>3. CASE ClearCaptured(b) \/ StopCapturing(b)
    BY <1>2, <2>3 DEF Restore, ClearCaptured, StopCapturing
  <2>4. CASE FinishCapture(b)
    BY <1>1, <2>4 DEF FinishCapture
  <2> QED
    BY <1>4, <2>1, <2>2, <2>3, <2>4 DEF Capture
<1>5. CASE CheckRun(b)
  <2>1. CASE StartCheck(b)
    BY <1>2, <2>1 DEF StartCheck, Begin
  <2>2. CASE HelloAnswered(b) \/ CheckAnswered(b)
    BY <1>2, <2>2 DEF HelloAnswered, CheckAnswered, GoOn, Note, toolVars
  <2>3. CASE HelloFails(b) \/ UseNewKey(b) \/ CheckFails(b) \/ Conclude(b) \/ Alarm(b)
    BY <1>2, <2>3 DEF HelloFails, UseNewKey, CheckFails, Conclude, Alarm, Quit, GoOn, Note
  <2>4. CASE ExitCheck(b)
    BY <1>1, <2>4 DEF ExitCheck
  <2> QED
    BY <1>5, <2>1, <2>2, <2>3, <2>4 DEF CheckRun
<1>6. CASE DetectRun(b)
  <2>1. CASE StartDetection(b)
    BY <1>2, <2>1 DEF StartDetection, Begin
  <2>2. CASE CountPorts(b) \/ ReadId(b) \/ CompareByte(b) \/ TestEcho(b)
    <3>1. PICK ops, learnt : NextSteps(b, ops, learnt)
      BY <2>2 DEF CountPorts, ReadId, CompareByte, TestEcho, PastEnd, NextPlace, EndsUnread
    <3> QED
      BY <1>2, <3>1 DEF NextSteps
  <2>3. CASE Decide(b)
    BY <1>2, <2>3 DEF Decide, sharedVars
  <2>4. CASE FinishDetection(b)
    BY <1>1, <2>4 DEF FinishDetection
  <2> QED
    BY <1>6, <2>1, <2>2, <2>3, <2>4 DEF DetectRun
<1> QED
  BY <1>3, <1>4, <1>5, <1>6 DEF Step

\* A read is left as long as the one that goes is not one.
LEMMA RestReads ==
    ASSUME NEW S, NEW s \in Seq(S), s # <<>>, ~Reading(Head(s))
    PROVE  (\E n \in 1 .. Len(s) : Reading(s[n]))
             <=> (\E n \in 1 .. Len(Tail(s)) : Reading(Tail(s)[n]))
<1> DEFINE t == Tail(s)
<1>1. /\ Len(s) \in Nat \ {0} /\ Len(t) = Len(s) - 1 /\ Head(s) = s[1]
      /\ \A n \in 1 .. Len(s) - 1 : t[n] = s[n + 1]
  BY TailOf
<1> HIDE DEF t
<1>2. ASSUME NEW n \in 1 .. Len(s), Reading(s[n]) PROVE \E k \in 1 .. Len(t) : Reading(t[k])
  <2>1. n # 1
    BY <1>1, <1>2
  <2>2. n - 1 \in 1 .. Len(s) - 1 /\ (n - 1) + 1 = n
    BY <1>1, <2>1
  <2>3. t[n - 1] = s[n]
    BY <1>1, <2>2
  <2> QED
    BY <1>1, <1>2, <2>2, <2>3
<1>3. ASSUME NEW n \in 1 .. Len(t), Reading(t[n]) PROVE \E k \in 1 .. Len(s) : Reading(s[k])
  <2>1. n \in 1 .. Len(s) - 1 /\ n + 1 \in 1 .. Len(s)
    BY <1>1
  <2>2. t[n] = s[n + 1]
    BY <1>1, <2>1
  <2> QED
    BY <1>3, <2>1, <2>2
<1> QED
  BY <1>2, <1>3 DEF t

\* A step of another.
LEMMA MeantApart ==
    ASSUME NEW a \in Actor, Meant(a), Apart(a) \/ UNCHANGED vars
    PROVE  Meant(a)'
<1>1. UNCHANGED <<status[a], todo[a], copy[a], edit[a], cmd[a], given[a], stage[a], sitting>>
  BY DEF Apart, vars, sharedVars, toolVars
<1> QED
  BY <1>1 DEF Meant, SetsExactly, SetsToo, DuplexSet, ReadsLeft, Value, Running, Is

\* "vlan clear" has its VLAN from the mode it reads.
LEMMA MeantRead ==
    ASSUME Owned, Calm, NEW a \in Actor, Meant(a), Sound(a), ReadReg(a),
           edit' = [edit EXCEPT ![a] = Refined(a)], UNCHANGED toolVars
    PROVE  Meant(a)'
<1> SUFFICES ASSUME Running(a)', stage'[a] = "command" PROVE Meant(a)'
  BY DEF Meant
<1> DEFINE d == copy[a][Flag("dot1q")]
           k == copy'[a][Flag("dot1q")]
<1>1. /\ AtOp(a, "read") /\ Running(a) /\ stage[a] = "command"
      /\ edit'[a] = Refined(a) /\ UNCHANGED <<cmd, given, sitting>>
  BY DEF ReadReg, AtOp, toolVars, Owned, Rest, Shape, OfActors
<1>2. ReadsLeft(a)
  <2>1. todo[a] \in Seq(Steps) /\ todo[a] # <<>> /\ Reading(Head(todo[a]))
    BY <1>1 DEF AtOp, Calm, Reading
  <2>2. Len(todo[a]) \in Nat \ {0} /\ Head(todo[a]) = todo[a][1]
    BY <2>1, TailOf
  <2>3. 1 \in 1 .. Len(todo[a])
    BY <2>2
  <2> QED
    BY <2>1, <2>2, <2>3 DEF ReadsLeft
<1>3. CASE Is(a, "rtl83xx")
  <2>1. ~Is(a, "rrcpcli")' /\ IsRtl83xx(cmd[a])
    BY <1>1, <1>3 DEF Is, Meant
  <2> DEFINE want == AskedAt(cmd[a], d)
             next == AskedAt(cmd[a], k)
  <2> SUFFICES ASSUME ~Surprising(cmd[a], "rtl83xx")
               PROVE  /\ DOMAIN edit'[a] = DOMAIN next
                      /\ \A f \in DOMAIN next : edit'[a][f] = next[f]
    BY <1>1, <1>3, <2>1 DEF Meant, Is, SetsExactly
  <2>2. SetsExactly(a, want)
    BY <1>1, <1>3 DEF Meant
  <2>3. Alike(cmd[a], next, want)
    BY <2>1, AskedAlike
  <2>4. cmd[a].word = "vlan clear" => Vid(0) \in DOMAIN next /\ next[Vid(0)] = k
    <3>1. \A wraps, x : cmd[a].word = "vlan clear" =>
                  Vid(0) \in DOMAIN AskedAt(cmd[a], x) /\ AskedAt(cmd[a], x)[Vid(0)] = x
      BY <2>1, Rtl83xxFits
    <3> QED
      BY <3>1
  <2> HIDE DEF want, next
  <2>6. CASE cmd[a].word = "vlan clear"
    <3>1. edit'[a] = [edit[a] EXCEPT ![Vid(0)] = k]
      BY <1>1, <1>3, <2>6 DEF Refined
    <3> HIDE DEF k
    <3>2. DOMAIN edit'[a] = DOMAIN edit[a] /\ DOMAIN next = DOMAIN want /\ DOMAIN edit[a] = DOMAIN want
      BY <2>2, <2>3, <3>1 DEF Alike, SetsExactly
    <3>3. Vid(0) \in DOMAIN edit[a] /\ edit'[a][Vid(0)] = next[Vid(0)]
      BY <2>4, <2>6, <3>1, <3>2
    <3>4. ASSUME NEW f \in DOMAIN next, f # Vid(0) PROVE edit'[a][f] = next[f]
      BY <2>2, <2>3, <3>1, <3>2, <3>4 DEF Alike, SetsExactly
    <3> QED
      BY <3>2, <3>3, <3>4
  <2>7. CASE ~(cmd[a].word = "vlan clear")
    <3>1. edit'[a] = edit[a]
      BY <1>1, <2>7 DEF Refined
    <3>2. DOMAIN edit[a] = DOMAIN next /\ \A f \in DOMAIN next : edit[a][f] = next[f]
      BY <2>2, <2>3, <2>7 DEF Alike, SetsExactly
    <3> QED
      BY <3>1, <3>2
  <2> QED
    BY <2>6, <2>7
<1>4. CASE ~Is(a, "rtl83xx")
  <2>1. edit'[a] = edit[a]
    BY <1>1, <1>4 DEF Refined
  <2>2. Is(a, "rrcpcli") => cmd[a] = NoCmd
    BY <1>1, <1>2 DEF Meant
  <2> QED
    BY <1>1, <1>4, <2>1, <2>2 DEF Meant, Is
<1> QED
  BY <1>3, <1>4

\* Writes change nothing of what it has set.
LEMMA MeantWrite ==
    ASSUME Owned, Calm, NEW a \in Actor, Meant(a), UNCHANGED toolVars,
           WriteReg(a) \/ LoseWrite(a) \/ SkipWrite(a)
    PROVE  Meant(a)'
<1>1. PICK kind \in {"write", "writeIfChanged"} : AtOp(a, kind)
  BY DEF WriteReg, LoseWrite, SkipWrite, AtWrite
<1>2. /\ todo'[a] = Tail(todo[a])
      /\ UNCHANGED <<status, copy, edit, cmd, given, stage, sitting>>
  BY DEF WriteReg, LoseWrite, SkipWrite, Advance, toolVars, Owned, Rest, OfActors
<1>3. todo[a] \in Seq(Steps) /\ todo[a] # <<>> /\ ~Reading(Head(todo[a]))
  BY <1>1 DEF AtOp, Calm, Reading
<1>4. ReadsLeft(a)' <=> ReadsLeft(a)
  <2> DEFINE S == Steps
             s == todo[a]
  <2>1. s \in Seq(S) /\ s # <<>> /\ ~Reading(Head(s)) /\ todo'[a] = Tail(s)
    BY <1>2, <1>3
  <2> HIDE DEF S, s
  <2>2. (\E n \in 1 .. Len(s) : Reading(s[n])) <=> (\E n \in 1 .. Len(Tail(s)) : Reading(Tail(s)[n]))
    BY <2>1, RestReads
  <2> QED
    BY <2>1, <2>2 DEF ReadsLeft, s
<1> QED
  BY <1>2, <1>4 DEF Meant, SetsExactly, SetsToo, DuplexSet, Value, Running, Is

\* The command of a session is set over what the session has set before.
LEMMA MeantGive ==
    ASSUME Owned, Calm, NEW a \in Actor, Sound(a), given[a] \in Nat, Meant(a), GiveCommand(a)
    PROVE  Meant(a)'
<1> SUFFICES ASSUME stage[a] = "command" PROVE Meant(a)'
  BY DEF Meant, GiveCommand
<1>1. PICK c \in sitting[a].commands :
         /\ cmd' = [cmd EXCEPT ![a] = c]
         /\ todo' = [todo EXCEPT ![a] = CliJob(a, c).ops]
         /\ edit' = [edit EXCEPT ![a] = CliJob(a, c).edit ++ @]
  BY DEF GiveCommand
<1>2. /\ Prompt(a) /\ IsRrcpCli(c) /\ Is(a, "rrcpcli") /\ Running(a)
      /\ given'[a] = given[a] + 1 /\ UNCHANGED <<status, copy, sitting, stage>>
  BY <1>1, CommandsAssumption DEF GiveCommand, Prompt, Is, Calm, Owned, Rest, OfActors
<1> DEFINE job == CliJob(a, c)
           d == copy[a][Flag("dot1q")]
           want == AskedAt(c, d)
<1>3. todo'[a] = job.ops /\ edit'[a] = job.edit ++ edit[a] /\ cmd'[a] = c
  BY <1>1 DEF Owned, Rest, Shape, OfActors
<1>4. job.ops \in Seq({"write"} \X ConfigRegs)
  BY <1>2, CliJobGood DEF Sound, GoodCli
<1>5. c.word # "duplex" /\ ~Surprising(c, "rrcpcli") => Fits(job.edit, want)
  BY <1>2, CliFits
<1>6. c.word = "duplex" => \A l \in c.ports :
         LET e == job.edit
             q == Phys[l]
             m == Value(a, Port("media", q))
         IN /\ DOMAIN e \subseteq {Port("media", q)}
            /\ \/ DuplexRefused(q, m, c.arg) /\ DOMAIN e = {}
               \/ Port("media", q) \in DOMAIN e /\ e[Port("media", q)] \cap Wrong(c.arg) = {}
  <2> SUFFICES ASSUME c.ports # {}
               PROVE  c.word = "duplex" => \A l \in c.ports :
         LET e == job.edit
             q == Phys[l]
             m == Value(a, Port("media", q))
         IN /\ DOMAIN e \subseteq {Port("media", q)}
            /\ \/ DuplexRefused(q, m, c.arg) /\ DOMAIN e = {}
               \/ Port("media", q) \in DOMAIN e /\ e[Port("media", q)] \cap Wrong(c.arg) = {}
    OBVIOUS
  <2> DEFINE p == Phys[CHOOSE l \in c.ports : TRUE]
             media == [q \in PhysPorts |-> Value(a, Port("media", q))]
             e == job.edit
  <2>1. job = InterfaceCommandJob(c, media)
    BY DEF CliJob
  <2>2. p \in PhysPorts /\ \A l \in c.ports : Phys[l] = p
    <3>1. LET q == Phys[CHOOSE l \in c.ports : TRUE]
          IN /\ q \in PhysPorts
             /\ \A l \in c.ports : Phys[l] = q
             /\ \A name, v : PortsTo(name, {q}, v) = OnPorts(name, c, v)
             /\ \A name : {Port(name, Phys[l]) : l \in c.ports} = {Port(name, q)}
      BY <1>2, OnePort, Zenon
    <3> QED
      BY <3>1
  <2>3. c.word = "duplex" =>
           /\ DOMAIN e \subseteq {Port("media", p)}
           /\ \/ DuplexRefused(p, media[p], c.arg) /\ DOMAIN e = {}
              \/ Port("media", p) \in DOMAIN e /\ e[Port("media", p)] \cap Wrong(c.arg) = {}
    <3> HIDE DEF media, job
    <3>1. c.word = "duplex" =>
               LET q == Phys[CHOOSE l \in c.ports : TRUE]
                   x == InterfaceCommandJob(c, media).edit
               IN /\ DOMAIN x \subseteq {Port("media", q)}
                  /\ \/ DuplexRefused(q, media[q], c.arg) /\ DOMAIN x = {}
                     \/ Port("media", q) \in DOMAIN x /\ x[Port("media", q)] \cap Wrong(c.arg) = {}
      BY <1>2, CliDuplexFits, Zenon
    <3> QED
      BY <2>1, <3>1
  <2>4. media[p] = Value(a, Port("media", p))
    BY <2>2
  <2> HIDE DEF p, media, e
  <2> QED
    BY <2>2, <2>3, <2>4 DEF e
<1> HIDE DEF job, want, d
<1>7. ~ReadsLeft(a)'
  BY <1>3, <1>4 DEF ReadsLeft, Reading
<1>8. given'[a] # 0 /\ (given'[a] <= 1 => DOMAIN edit[a] = {})
  <2>1. given[a] = 0 => DOMAIN edit[a] = {}
    BY <1>2 DEF Meant
  <2> QED
    BY <1>2, <2>1
<1>9. /\ DOMAIN edit'[a] = DOMAIN job.edit \cup DOMAIN edit[a]
      /\ \A f \in DOMAIN job.edit : edit'[a][f] = job.edit[f]
      /\ \A f \in DOMAIN edit[a] : f \notin DOMAIN job.edit => edit'[a][f] = edit[a][f]
  BY <1>3 DEF ++
<1>10. ASSUME ~Surprising(c, "rrcpcli") PROVE c.word # "duplex" => SetsToo(a, want)'
  <2>1. CASE c.word # "duplex"
    <3>1. DOMAIN job.edit = DOMAIN want /\ \A f \in DOMAIN want : Match(f, job.edit[f], want[f])
      BY <1>5, <1>10, <2>1 DEF Fits
    <3>2. want' = want
      BY <1>2 DEF want, d
    <3> QED
      BY <1>8, <1>9, <3>1, <3>2 DEF SetsToo
  <2> QED
    BY <2>1
<1>11. c.word = "duplex" => \A l \in c.ports : DuplexSet(a, Phys[l])'
  <2> SUFFICES ASSUME NEW l \in c.ports PROVE c.word = "duplex" => DuplexSet(a, Phys[l])'
    OBVIOUS
  <2> DEFINE q == Phys[l]
             g == Port("media", q)
             e == job.edit
  <2>1. c.word = "duplex" =>
            /\ DOMAIN e \subseteq {g}
            /\ \/ DuplexRefused(q, Value(a, g), c.arg) /\ DOMAIN e = {}
               \/ g \in DOMAIN e /\ e[g] \cap Wrong(c.arg) = {}
    BY <1>6
  <2>2. /\ DOMAIN e = {} => Value(a, g)' = Value(a, g)
        /\ g \in DOMAIN e => Value(a, g)' = e[g]
    BY <1>2, <1>9 DEF Value
  <2>3. given'[a] <= 1 => DOMAIN edit'[a] = DOMAIN e
    BY <1>8, <1>9
  <2> HIDE DEF e, g, q
  <2>4. q' = q /\ g' = g
    BY DEF q, g
  <2>5. c.word = "duplex" =>
           /\ given'[a] <= 1 => DOMAIN edit'[a] \subseteq {g}
           /\ DuplexRefused(q, Value(a, g)', c.arg) \/ Value(a, g)' \cap Wrong(c.arg) = {}
    BY <2>1, <2>2, <2>3
  <2> QED
    BY <1>3, <2>5 DEF DuplexSet, g, q
<1> QED
  BY <1>2, <1>3, <1>7, <1>8, <1>10, <1>11 DEF Meant, Is, want, d

LEMMA MeantStep ==
    ASSUME Owned, Calm, NEW a \in Actor, Sound(a), Sound(a)', given[a] \in Nat, Meant(a), Step(a)
    PROVE  Meant(a)'
<1>1. CASE ~Session(a)
  <2>1. ~(Running(a)' /\ stage'[a] = "command")
    BY <1>1, OtherTools DEF Step
  <2> QED
    BY <2>1 DEF Meant
<1>2. CASE StartRtl83xx(a)
  <2>1. PICK c \in sitting[a].commands, wraps \in BOOLEAN :
           Begin(a, c, Rtl83xxJob(c, wraps), "command")
    BY <1>2 DEF StartRtl83xx
  <2>2. IsRtl83xx(c) /\ Is(a, "rtl83xx")
    BY <1>2, CommandsAssumption DEF StartRtl83xx, Is, Calm
  <2> DEFINE job == Rtl83xxJob(c, wraps)
             d == copy[a][Flag("dot1q")]
             want == AskedAt(c, d)
  <2>3. /\ todo'[a] = job.ops /\ edit'[a] = job.edit /\ cmd'[a] = c
        /\ UNCHANGED <<copy, sitting>>
    BY <2>1 DEF Begin, Owned, Rest, Shape, OfActors
  <2>4. ~Is(a, "rrcpcli")' /\ IsRtl83xx(cmd'[a])
    BY <2>2, <2>3 DEF Is
  <2> SUFFICES ASSUME ~Surprising(c, "rtl83xx")
               PROVE  /\ DOMAIN job.edit = DOMAIN want
                      /\ \A f \in DOMAIN want : \/ job.edit[f] = want[f]
                                                \/ c.word = "vlan clear" /\ f = Vid(0) /\ ReadsLeft(a)'
    BY <2>3, <2>4 DEF Meant, SetsExactly
  <2>5. Alike(c, job.edit, want)
    BY <2>2, Rtl83xxFits
  <2>6. c.word = "vlan clear" => \E n \in 1 .. Len(job.ops) : Reading(job.ops[n])
    BY <2>2, GoodRtl83xxJob
  <2> HIDE DEF job, want
  <2>7. c.word = "vlan clear" => ReadsLeft(a)'
    BY <2>3, <2>6 DEF ReadsLeft
  <2> QED
    BY <2>5, <2>7 DEF Alike
<1>3. CASE StartRrcpCli(a)
  <2> DEFINE job == Job(ReadConfig, Keep)
  <2>1. Begin(a, NoCmd, job, "command") /\ Is(a, "rrcpcli")
    BY <1>3 DEF StartRrcpCli
  <2>2. DOMAIN job.edit = {}
    BY NoEdit DEF Job, Keep
  <2> HIDE DEF job
  <2>3. edit'[a] = job.edit /\ cmd'[a] = NoCmd /\ UNCHANGED sitting
    BY <2>1 DEF Begin, Owned, Rest, Shape, OfActors
  <2>4. ~Is(a, "rtl83xx")'
    BY <2>1, <2>3 DEF Is
  <2> QED
    BY <2>2, <2>3, <2>4 DEF Meant
<1>4. CASE GiveCommand(a)
  BY <1>4, MeantGive
<1>5. CASE Access(a)
  BY <1>5, MeantRead, MeantWrite DEF Access
<1>6. CASE Finish(a) \/ EndInside(a)
  <2>1. ~Running(a)'
    BY <1>6 DEF Finish, EndInside, Exit, Leave, Running, Owned, Shape, OfActors
  <2> QED
    BY <2>1 DEF Meant
<1> QED
  BY <1>1, <1>2, <1>3, <1>4, <1>5, <1>6 DEF Session

-----------------------------------------------------------------------------
\* At its end a command has nothing left to write.
LEMMA AllSettled ==
    ASSUME NEW a \in Actor, Committed(a), AtEnd(a), ~lost[a]
    PROVE  (\A f \in DOMAIN edit[a] : Settled(a, f)) /\ ~ReadsLeft(a)
<1>1. Running(a) /\ stage[a] = "command" /\ todo[a] = <<>>
  BY DEF AtEnd
<1>2. ~ReadsLeft(a) /\ \A f : ~Due(todo[a], f)
  BY <1>1 DEF ReadsLeft, Due
<1> QED
  BY <1>1, <1>2 DEF Committed

LEMMA DoesExactly ==
    ASSUME NEW a \in Actor, NEW want, SetsExactly(a, want), ~ReadsLeft(a),
           \A f \in DOMAIN edit[a] : Settled(a, f)
    PROVE  Does(a, want)
BY DEF SetsExactly, Settled, Does, Match

LEMMA DoesToo ==
    ASSUME NEW a \in Actor, NEW want, SetsToo(a, want),
           \A f \in DOMAIN edit[a] : Settled(a, f)
    PROVE  Does(a, want)
<1>1. ASSUME NEW f \in DOMAIN want PROVE Match(f, hw[f], want[f]) \/ f \in foreign[a]
  <2>1. Match(f, edit[a][f], want[f]) /\ Settled(a, f)
    BY DEF SetsToo
  <2> QED
    BY <2>1 DEF Settled
<1> QED
  BY <1>1 DEF SetsToo, Does

\* The media "duplex" leaves as they are are those the session has read.
LEMMA DoesDuplex ==
    ASSUME IInv, NEW a \in Actor, NEW q \in PhysPorts, DuplexSet(a, q),
           Prepared(a), AtEnd(a), Is(a, "rrcpcli"),
           \A f \in DOMAIN edit[a] : Settled(a, f)
    PROVE  DuplexDone(a, q)
<1> DEFINE g == Port("media", q)
<1>1. hw[g] = Value(a, g) \/ g \in foreign[a]
  <2>1. CASE g \in DOMAIN edit[a]
    BY <2>1 DEF Settled, Value
  <2>2. CASE g \notin DOMAIN edit[a]
    <3>1. CliFields \subseteq Held(a)
      BY NoneLeft DEF AtEnd, Prepared
    <3>2. g \in Field /\ copy[a][g] # Unread
      BY <3>1, MediaRead DEF Held
    <3>3. copy[a][g] \in {hw[g], Unread} \/ g \in foreign[a]
      BY <2>2, <3>2 DEF IInv, Faithful
    <3> QED
      BY <2>2, <3>2, <3>3 DEF Value
  <2> QED
    BY <2>1, <2>2
<1> QED
  BY <1>1 DEF DuplexSet, DuplexDone, Wrong

\* The VID from the mode makes no difference but where it is no 1.
LEMMA AskedToo ==
    ASSUME NEW a \in Actor, Does(a, AskedAt(cmd[a], copy[a][Flag("dot1q")])),
           cmd[a].word = "vlan clear" =>
               IsRtl83xx(cmd[a]) /\ ~Surprising(cmd[a], "rtl83xx")
    PROVE  Does(a, Asked(cmd[a]))
<1> DEFINE d == copy[a][Flag("dot1q")]
<1>1. CASE cmd[a].word # "vlan clear"
  BY <1>1 DEF AskedAt
<1>2. CASE cmd[a].word = "vlan clear"
  <2>1. Asked(cmd[a]) = AskedAt(cmd[a], 1)
    BY <1>2 DEF AskedAt, Asked, VlanCommand
  <2>2. CASE d = 1
    BY <2>1, <2>2
  <2>3. CASE d # 1
    <3>1. Alike(cmd[a], Asked(cmd[a]), AskedAt(cmd[a], d))
      BY <1>2, <2>1, AskedAlike
    <3>2. Unnumbered(cmd[a], Vid(0), d)
      BY <1>2, <2>3 DEF Unnumbered
    <3> QED
      BY <3>1, <3>2 DEF Does, Alike
  <2> QED
    BY <2>2, <2>3
<1> QED
  BY <1>1, <1>2

LEMMA Exact ==
    ASSUME IInv, ToolsInv, \A a \in Actor : Committed(a) /\ Meant(a)
    PROVE  CommandExact
<1> SUFFICES ASSUME NEW a \in Actor, AtEnd(a), cmd[a] # NoCmd, ~lost[a],
                    ~Surprising(cmd[a], sitting[a].tool)
             PROVE  IF cmd[a].word = "duplex" THEN \A l \in cmd[a].ports : DuplexDone(a, Phys[l])
                    ELSE Does(a, Asked(cmd[a]))
  BY DEF CommandExact
<1> DEFINE want == AskedAt(cmd[a], copy[a][Flag("dot1q")])
<1>1. Running(a) /\ stage[a] = "command" /\ Meant(a) /\ Prepared(a)
  BY DEF AtEnd, ToolsInv, Sound
<1>2. (\A f \in DOMAIN edit[a] : Settled(a, f)) /\ ~ReadsLeft(a)
  BY AllSettled
<1>3. Is(a, "rtl83xx") \/ Is(a, "rrcpcli")
  <2>1. sitting[a].tool \in ToolsAt("command")
    BY <1>1 DEF ToolsInv, Sound, Staged
  <2> QED
    BY <2>1, OtherStages DEF Is
<1>4. CASE Is(a, "rtl83xx")
  <2>1. IsRtl83xx(cmd[a]) /\ SetsExactly(a, want)
    <3>1. ~Surprising(cmd[a], "rtl83xx")
      BY <1>4 DEF Is
    <3> QED
      BY <1>1, <1>4, <3>1 DEF Meant
  <2>2. ~(cmd[a].word = "duplex")
    BY <2>1 DEF IsRtl83xx, InterfaceWords, VlanWords, SwitchWords
  <2>3. Does(a, Asked(cmd[a]))
    <3>1. ~Surprising(cmd[a], "rtl83xx")
      BY <1>4 DEF Is
    <3> QED
      BY <1>2, <2>1, <3>1, DoesExactly, AskedToo
  <2> QED
    BY <2>2, <2>3
<1>5. CASE Is(a, "rrcpcli")
  <2>1. /\ IsRrcpCli(cmd[a])
        /\ IF cmd[a].word = "duplex" THEN \A l \in cmd[a].ports : DuplexSet(a, Phys[l])
           ELSE SetsToo(a, want)
    <3>1. ~Surprising(cmd[a], "rrcpcli")
      BY <1>5 DEF Is
    <3> QED
      BY <1>1, <1>5, <3>1 DEF Meant
  <2>2. CASE cmd[a].word = "duplex"
    <3>1. ASSUME NEW l \in cmd[a].ports PROVE DuplexDone(a, Phys[l])
      <4>1. Phys[l] \in PhysPorts
        <5>1. l \in 1 .. NumPorts
          BY <2>1 DEF IsRrcpCli
        <5> QED
          BY <5>1, SwitchRegsAssumption
      <4>2. DuplexSet(a, Phys[l])
        BY <2>1, <2>2
      <4> QED
        BY <1>1, <1>2, <1>5, <4>1, <4>2, DoesDuplex
    <3> QED
      BY <2>2, <3>1
  <2>3. CASE ~(cmd[a].word = "duplex")
    <3>1. Does(a, Asked(cmd[a]))
      <4>1. cmd[a].word # "vlan clear"
        BY <2>1 DEF IsRrcpCli
      <4> QED
        BY <1>2, <2>1, <2>3, <4>1, DoesToo, AskedToo
    <3> QED
      BY <2>3, <3>1
  <2> QED
    BY <2>2, <2>3
<1> QED
  BY <1>3, <1>4, <1>5

\* The whole invariant of the commands.
CommandsInv == \A a \in Actor : given[a] \in Nat /\ Committed(a) /\ Meant(a)

LEMMA CommandsInit == Init => CommandsInv
BY DEF Init, SharedInit, CommandsInv, Committed, Meant, Running

LEMMA CommandsKept ==
    IInv /\ ToolsInv /\ ToolsInv' /\ CommandsInv /\ [Next]_vars => CommandsInv'
<1> SUFFICES ASSUME IInv, ToolsInv, ToolsInv', CommandsInv, [Next]_vars, NEW a \in Actor
             PROVE  (given[a] \in Nat /\ Committed(a) /\ Meant(a))'
  BY DEF CommandsInv
<1>1. /\ Owned /\ Calm /\ HwLegal /\ Sound(a) /\ Sound(a)'
      /\ given[a] \in Nat /\ Committed(a) /\ Meant(a)
  BY DEF ToolsInv, CommandsInv
<1>2. CASE Step(a)
  BY <1>1, <1>2, GivenStep, CommittedStep, MeantStep
<1>3. CASE Apart(a) \/ UNCHANGED vars
  <2>1. given'[a] = given[a]
    BY <1>3 DEF Apart, vars, toolVars
  <2>2. Typed(a)
    BY <1>1 DEF Sound
  <2> QED
    BY <1>1, <1>3, <2>1, <2>2, CommittedApart, MeantApart
<1> QED
  BY <1>1, <1>2, <1>3, StepOrApart

\* Whatever tools are at work: a command of rtl83xx or rrcpcli that loses no
\* SET has done exactly what it says when it ends, but for what others changed.
THEOREM CommandExactHolds == Spec => []CommandExact
<1>1. IInv /\ ToolsInv /\ CommandsInv => CommandExact
  BY Exact DEF CommandsInv
<1> QED
  BY <1>1, Invariance, AlwaysTyped, CommandsInit, CommandsKept, PTL DEF Spec
=============================================================================
