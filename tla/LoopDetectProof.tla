-------------------------- MODULE LoopDetectProof --------------------------
(***************************************************************************)
(* Proofs about LoopDetect, for any number of ports, any recovery time and *)
(* whatever the EEPROM excludes, disables or powers down.                  *)
(***************************************************************************)
EXTENDS LoopDetect, TLAPS

(***************************************************************************)
(* The inductive invariant.                                                *)
(***************************************************************************)
\* The countdown runs while ports wait, and is over while one is turned on.
\* Of what a boot finds in it nothing is known, but then the record is empty
\* before the first poll.
Countdown ==
    /\ Recovering => left = 0 /\ port \in disabled
    /\ Testing => disabled = {}
    /\ disabled # {} /\ ~Recovering /\ ~Booting => left >= 1

\* What has been waited for a port and what is left make the whole time.
QuietEnough == \A p \in disabled : quiet[p] + left >= Wait

\* A port of the record is off in 0x608, and in the copy of it about to be
\* written back.
RecordHeld ==
    ~Booting =>
        /\ \A p \in disabled : p \notin touched =>
              /\ p \in off \/ (pc = "enabled" /\ p = port)
              /\ pc \in {"disableWrite", "enableWrite"} => p \in val
        /\ pc \in {"powerDown", "record"} /\ port \notin touched => port \in off

IInv == TypeOK /\ Countdown /\ QuietEnough /\ RecordHeld

-----------------------------------------------------------------------------
\* A poll does not find the countdown at 0 while a port waits for it.
LEMMA NeverAtZero ==
    ASSUME TypeOK, Countdown, pc = "poll", disabled # {}
    PROVE  left \in 1 .. Wait
<1>1. ~Recovering /\ ~Booting
  BY DEF Recovering, Booting, Start
<1>2. left \in 0 .. Wait /\ left >= 1
  BY <1>1 DEF TypeOK, Countdown
<1> QED
  BY <1>2, LoopAssumption

LEMMA ZeroTypes == 0 \in Ports /\ 0 \in 0 .. Wait /\ 1 \in 0 .. Wait /\ Wait \in 0 .. Wait
BY LoopAssumption DEF Ports

\* Types are kept by every step.
LEMMA TypeStep ==
    ASSUME TypeOK, Countdown, [Next]_vars
    PROVE  TypeOK'
<1> USE ZeroTypes DEF TypeOK, Booting, Testing, Start, locals, statics, chip, history, Forget
<1>1. CASE Environment
  <2>1. CASE \E p \in Ports : ChipSeesLoop(p) \/ ChipForgetsLoop(p)
    BY <2>1 DEF ChipSeesLoop, ChipForgetsLoop
  <2>2. CASE \E ports \in SUBSET Ports : HostWrites(ports)
    BY <2>2 DEF HostWrites
  <2>3. CASE \E bits \in SUBSET CtlBits : HostWritesCtl(bits)
    BY <2>3 DEF HostWritesCtl
  <2>4. CASE HostWritesMac \/ MoveJumper
    BY <2>4 DEF HostWritesMac, MoveJumper
  <2>5. CASE Glitch
    BY <2>5 DEF Glitch
  <2> QED
    BY <1>1, <2>1, <2>2, <2>3, <2>4, <2>5 DEF Environment
<1>2. CASE Boot
  <2>1. CASE StartBus
    BY <2>1 DEF StartBus
  <2>2. CASE LoadPorts
    BY <2>2, LoopAssumption DEF LoadPorts
  <2>3. CASE LoadCtl
    BY <2>3, LoopAssumption DEF LoadCtl
  <2>4. CASE LoadPhys
    BY <2>4, LoopAssumption DEF LoadPhys
  <2>5. CASE LoopInit
    BY <2>5 DEF LoopInit
  <2>6. CASE WriteLoopFn
    BY <2>6 DEF WriteLoopFn, CtlBits
  <2>7. CASE Clear
    BY <2>7 DEF Clear, Restarted
  <2>8. CASE FindBroken
    BY <2>8 DEF FindBroken
  <2>9. CASE DisableRead("test", "testWrite")
    BY <2>9 DEF DisableRead
  <2>10. CASE DisableWrite("testWrite", "testDown")
    BY <2>10 DEF DisableWrite
  <2>11. CASE PowerDown("testDown", "test")
    BY <2>11 DEF PowerDown
  <2>12. CASE DisableEnd("test", "poll")
    BY <2>12 DEF DisableEnd
  <2> QED
    BY <1>2, <2>1, <2>2, <2>3, <2>4, <2>5, <2>6, <2>7, <2>8, <2>9, <2>10, <2>11, <2>12
    DEF Boot
<1>3. CASE DetectLoops
  <2>1. CASE PollOff \/ PollLoop
    BY <2>1 DEF PollOff, PollLoop
  <2>2. CASE ReadStatus
    BY <2>2 DEF ReadStatus
  <2>3. CASE DisableRead("disable", "disableWrite")
    BY <2>3 DEF DisableRead
  <2>4. CASE DisableWrite("disableWrite", "powerDown")
    BY <2>4 DEF DisableWrite
  <2>5. CASE PowerDown("powerDown", "record")
    BY <2>5 DEF PowerDown
  <2>6. CASE Record
    BY <2>6 DEF Record
  <2>7. CASE DisableEnd("disable", "jumper")
    BY <2>7 DEF DisableEnd
  <2>8. CASE PollQuiet
    <3>1. quiet' \in [Ports -> 0 .. Wait]
      <4>1. \A n \in 0 .. Wait : n < Wait => n + 1 \in 0 .. Wait
        BY LoopAssumption
      <4> QED
        BY <2>8, <4>1 DEF PollQuiet
    <3>2. left' \in 0 .. Wait
      <4>1. CASE disabled = {}
        BY <2>8, <4>1 DEF PollQuiet
      <4>2. CASE disabled # {}
        <5>1. left \in 1 .. Wait
          BY <2>8, <4>2, NeverAtZero DEF PollQuiet
        <5>2. left' = left - 1
          BY <2>8, <4>2, <5>1 DEF PollQuiet, Decrement
        <5> QED
          BY <5>1, <5>2, LoopAssumption
      <4> QED
        BY <4>1, <4>2
    <3>3. port' \in Ports /\ pc' \in {"powerUp", "jumper"}
      BY <2>8 DEF PollQuiet
    <3> QED
      BY <2>8, <3>1, <3>2, <3>3 DEF PollQuiet
  <2>9. CASE PowerUp
    BY <2>9 DEF PowerUp
  <2>10. CASE EnableRead
    BY <2>10 DEF EnableRead
  <2>11. CASE EnableWrite
    BY <2>11 DEF EnableWrite
  <2>12. CASE EnableEnd
    BY <2>12 DEF EnableEnd
  <2> QED
    BY <1>3, <2>1, <2>2, <2>3, <2>4, <2>5, <2>6, <2>7, <2>8, <2>9, <2>10, <2>11, <2>12
    DEF DetectLoops
<1>4. CASE JumperRead
  BY <1>4 DEF JumperRead
<1>5. CASE JumperWrite
  BY <1>5 DEF JumperWrite, CtlBits
<1>6. CASE CheckMac \/ Rest
  BY <1>6 DEF CheckMac, Rest
<1>7. CASE Reboot
  BY <1>7 DEF Reboot
<1>8. CASE UNCHANGED vars
  BY <1>8 DEF vars
<1> QED
  BY <1>1, <1>2, <1>3, <1>4, <1>5, <1>6, <1>7, <1>8 DEF Next, Firmware

-----------------------------------------------------------------------------
\* Between two steps a port is turned on only with the countdown over, and the
\* countdown is running whenever a port waits for it.
LEMMA CountdownStep ==
    ASSUME TypeOK, Countdown, [Next]_vars
    PROVE  Countdown'
<1> USE DEF Countdown, Recovering, Booting, Testing, Start, locals, statics, chip, history
<1>1. CASE Environment
  BY <1>1 DEF Environment, ChipSeesLoop, ChipForgetsLoop, HostWrites, HostWritesCtl,
     HostWritesMac, MoveJumper, Glitch
<1>2. CASE Boot
  <2>1. CASE StartBus \/ LoadPorts \/ LoadCtl \/ LoadPhys \/ LoopInit \/ WriteLoopFn
    BY <2>1 DEF StartBus, LoadPorts, LoadCtl, LoadPhys, LoopInit, WriteLoopFn
  <2>2. CASE Clear \/ FindBroken
    BY <2>2 DEF Clear, FindBroken
  <2>3. CASE \/ DisableRead("test", "testWrite") \/ DisableWrite("testWrite", "testDown")
             \/ PowerDown("testDown", "test") \/ DisableEnd("test", "poll")
    BY <2>3 DEF DisableRead, DisableWrite, PowerDown, DisableEnd
  <2> QED
    BY <1>2, <2>1, <2>2, <2>3 DEF Boot
<1>3. CASE DetectLoops
  <2>1. CASE \/ PollOff \/ PollLoop \/ ReadStatus
             \/ DisableRead("disable", "disableWrite")
             \/ DisableWrite("disableWrite", "powerDown")
             \/ PowerDown("powerDown", "record")
             \/ DisableEnd("disable", "jumper")
    BY <2>1 DEF PollOff, PollLoop, ReadStatus, DisableRead, DisableWrite, PowerDown, DisableEnd
  <2>2. CASE Record
    BY <2>2, LoopAssumption DEF Record
  <2>3. CASE PollQuiet
    <3>1. CASE disabled = {}
      BY <2>3, <3>1 DEF PollQuiet
    <3>2. CASE disabled # {}
      <4>1. left \in 1 .. Wait
        BY <2>3, <3>2, NeverAtZero DEF PollQuiet
      <4>2. left' = left - 1 /\ disabled' = disabled
        BY <2>3, <3>2, <4>1 DEF PollQuiet, Decrement
      <4>3. CASE left' = 0
        BY <2>3, <3>2, <4>2, <4>3 DEF PollQuiet
      <4>4. CASE left' # 0
        <5>1. pc' = "jumper"
          BY <2>3, <4>4 DEF PollQuiet
        <5>2. left' >= 1
          BY <4>1, <4>2, <4>4, LoopAssumption
        <5> QED
          BY <5>1, <5>2
      <4> QED
        BY <4>3, <4>4
    <3> QED
      BY <3>1, <3>2
  <2>4. CASE PowerUp \/ EnableRead \/ EnableWrite
    BY <2>4 DEF PowerUp, EnableRead, EnableWrite
  <2>5. CASE EnableEnd
    BY <2>5 DEF EnableEnd
  <2> QED
    BY <1>3, <2>1, <2>2, <2>3, <2>4, <2>5 DEF DetectLoops
<1>4. CASE JumperRead \/ JumperWrite \/ CheckMac \/ Rest \/ Reboot
  BY <1>4 DEF JumperRead, JumperWrite, CheckMac, Rest, Reboot
<1>5. CASE UNCHANGED vars
  BY <1>5 DEF vars
<1> QED
  BY <1>1, <1>2, <1>3, <1>4, <1>5 DEF Next, Firmware

\* What a poll takes from the countdown it adds to the waits of the ports.
LEMMA QuietStep ==
    ASSUME TypeOK, Countdown, QuietEnough, [Next]_vars
    PROVE  QuietEnough'
<1> USE DEF QuietEnough, statics, history
<1>1. CASE Environment
  BY <1>1 DEF Environment, ChipSeesLoop, ChipForgetsLoop, HostWrites, HostWritesCtl,
     HostWritesMac, MoveJumper, Glitch
<1>2. CASE Boot
  <2>1. CASE Clear
    BY <2>1 DEF Clear
  <2>2. CASE \/ StartBus \/ LoadPorts \/ LoadCtl \/ LoadPhys \/ LoopInit \/ WriteLoopFn
             \/ FindBroken
    BY <2>2 DEF StartBus, LoadPorts, LoadCtl, LoadPhys, LoopInit, WriteLoopFn, FindBroken
  <2>3. CASE \/ DisableRead("test", "testWrite") \/ DisableWrite("testWrite", "testDown")
             \/ PowerDown("testDown", "test") \/ DisableEnd("test", "poll")
    BY <2>3 DEF DisableRead, DisableWrite, PowerDown, DisableEnd
  <2> QED
    BY <1>2, <2>1, <2>2, <2>3 DEF Boot
<1>3. CASE DetectLoops
  <2>1. CASE \/ PollOff \/ PollLoop \/ ReadStatus
             \/ DisableRead("disable", "disableWrite")
             \/ DisableWrite("disableWrite", "powerDown")
             \/ PowerDown("powerDown", "record")
             \/ DisableEnd("disable", "jumper")
             \/ PowerUp \/ EnableRead \/ EnableWrite
    BY <2>1 DEF PollOff, PollLoop, ReadStatus, DisableRead, DisableWrite, PowerDown,
       DisableEnd, PowerUp, EnableRead, EnableWrite
  <2>2. CASE Record
    <3> SUFFICES ASSUME NEW p \in disabled'
                 PROVE  quiet'[p] + left' >= Wait
      OBVIOUS
    <3>1. p \in Ports /\ quiet'[p] \in Nat /\ left' = Wait
      <4>1. 0 \in Nat /\ \A n \in 0 .. Wait : n \in Nat
        OBVIOUS
      <4> QED
        BY <2>2, <4>1 DEF Record, TypeOK
    <3> QED
      BY <3>1, LoopAssumption
  <2>3. CASE PollQuiet
    <3> SUFFICES ASSUME NEW p \in disabled
                 PROVE  quiet'[p] + left' >= Wait
      BY <2>3 DEF PollQuiet
    <3>1. left \in 1 .. Wait
      BY <2>3, NeverAtZero DEF PollQuiet
    <3>2. left' = left - 1
      BY <2>3, <3>1 DEF PollQuiet, Decrement
    <3>3. /\ p \in Ports
          /\ quiet[p] \in 0 .. Wait
          /\ quiet[p] + left >= Wait
          /\ quiet'[p] = IF quiet[p] < Wait THEN quiet[p] + 1 ELSE quiet[p]
      BY <2>3 DEF PollQuiet, TypeOK
    <3> QED
      BY <3>1, <3>2, <3>3, LoopAssumption
  <2>4. CASE EnableEnd
    <3> SUFFICES ASSUME NEW p \in disabled, p # port
                 PROVE  quiet'[p] + 1 >= Wait
      BY <2>4 DEF EnableEnd
    <3>1. left = 0 /\ quiet[p] + left >= Wait /\ quiet[p] \in 0 .. Wait
      BY <2>4 DEF EnableEnd, TypeOK, Countdown, Recovering
    <3>2. quiet'[p] = quiet[p]
      BY <2>4 DEF EnableEnd, TypeOK
    <3> QED
      BY <3>1, <3>2, LoopAssumption
  <2> QED
    BY <1>3, <2>1, <2>2, <2>3, <2>4 DEF DetectLoops
<1>4. CASE JumperRead \/ JumperWrite \/ CheckMac \/ Rest \/ Reboot
  BY <1>4 DEF JumperRead, JumperWrite, CheckMac, Rest, Reboot
<1>5. CASE UNCHANGED vars
  BY <1>5 DEF vars
<1> QED
  BY <1>1, <1>2, <1>3, <1>4, <1>5 DEF Next, Firmware

\* A write of 0x608 keeps the bits of the other ports of the record, those a
\* host has changed since excepted; a boot clears the record before it ends.
LEMMA RecordStep ==
    ASSUME TypeOK, Countdown, RecordHeld, [Next]_vars
    PROVE  RecordHeld'
<1> USE DEF RecordHeld, Booting, Start, locals, statics, chip, history
<1>1. CASE Environment
  <2>1. CASE \E ports \in SUBSET Ports : HostWrites(ports)
    BY <2>1 DEF HostWrites
  <2>2. CASE Glitch
    BY <2>2 DEF Glitch
  <2> QED
    BY <1>1, <2>1, <2>2
    DEF Environment, ChipSeesLoop, ChipForgetsLoop, HostWritesCtl, HostWritesMac, MoveJumper
<1>2. CASE Boot
  <2>1. CASE StartBus \/ LoadPorts \/ LoadCtl \/ LoadPhys \/ LoopInit \/ WriteLoopFn
    BY <2>1 DEF StartBus, LoadPorts, LoadCtl, LoadPhys, LoopInit, WriteLoopFn
  <2>2. CASE Clear
    BY <2>2 DEF Clear
  <2>3. CASE \/ FindBroken
             \/ DisableRead("test", "testWrite") \/ DisableWrite("testWrite", "testDown")
             \/ PowerDown("testDown", "test") \/ DisableEnd("test", "poll")
    <3>1. disabled = {} /\ disabled' = {}
      BY <2>3 DEF FindBroken, DisableRead, DisableWrite, PowerDown, DisableEnd, Countdown,
         Testing
    <3>2. pc' \notin {"powerDown", "record"}
      BY <2>3 DEF FindBroken, DisableRead, DisableWrite, PowerDown, DisableEnd
    <3> QED
      BY <3>1, <3>2
  <2> QED
    BY <1>2, <2>1, <2>2, <2>3 DEF Boot
<1>3. CASE DetectLoops
  <2>1. CASE PollOff \/ PollLoop \/ ReadStatus \/ PollQuiet \/ DisableEnd("disable", "jumper")
    BY <2>1 DEF PollOff, PollLoop, ReadStatus, PollQuiet, DisableEnd
  <2>2. CASE DisableRead("disable", "disableWrite") \/ EnableRead
    BY <2>2 DEF DisableRead, EnableRead
  <2>3. CASE DisableWrite("disableWrite", "powerDown")
    BY <2>3 DEF DisableWrite
  <2>4. CASE PowerDown("powerDown", "record") \/ PowerUp
    BY <2>4 DEF PowerDown, PowerUp
  <2>5. CASE Record
    BY <2>5 DEF Record
  <2>6. CASE EnableWrite
    BY <2>6 DEF EnableWrite
  <2>7. CASE EnableEnd
    BY <2>7 DEF EnableEnd
  <2> QED
    BY <1>3, <2>1, <2>2, <2>3, <2>4, <2>5, <2>6, <2>7 DEF DetectLoops
<1>4. CASE JumperRead \/ JumperWrite \/ CheckMac \/ Rest \/ Reboot
  BY <1>4 DEF JumperRead, JumperWrite, CheckMac, Rest, Reboot
<1>5. CASE UNCHANGED vars
  BY <1>5 DEF vars
<1> QED
  BY <1>1, <1>2, <1>3, <1>4, <1>5 DEF Next, Firmware

-----------------------------------------------------------------------------
(***************************************************************************)
(* The theorems.                                                           *)
(***************************************************************************)
\* The invariant holds at every moment of every run.
THEOREM InductiveInvariant == Spec => []IInv
<1>1. Init => IInv
  <2> SUFFICES ASSUME Init
               PROVE  IInv
    OBVIOUS
  <2>1. TypeOK
    BY ZeroTypes DEF Init, TypeOK, Booting, Restarted
  <2>2. Countdown /\ QuietEnough /\ RecordHeld
    BY DEF Init, Countdown, Recovering, Testing, Booting, Start, QuietEnough, RecordHeld
  <2> QED
    BY <2>1, <2>2 DEF IInv
<1>2. IInv /\ [Next]_vars => IInv'
  BY TypeStep, CountdownStep, QuietStep, RecordStep DEF IInv
<1> QED
  BY <1>1, <1>2, PTL DEF Spec

\* The countdown keeps to its range, wherever the firmware is when it boots
\* again: it never wraps below 0, which would keep the ports off for 68 years.
THEOREM TypeCorrect == Spec => []TypeOK
<1>1. IInv => TypeOK
  BY DEF IInv
<1> QED
  BY <1>1, InductiveInvariant, PTL

\* No port is recovered before its recovery time is over, in polls without a
\* loop: two ports, or twenty, that share the countdown make no difference,
\* nor do boots at any point.
THEOREM NoEarlyRecoveryHolds == Spec => []NoEarlyRecovery
<1>1. IInv => NoEarlyRecovery
  <2> SUFFICES ASSUME IInv, Recovering
               PROVE  quiet[port] = Wait
    BY DEF NoEarlyRecovery
  <2>1. left = 0 /\ quiet[port] + left >= Wait /\ quiet[port] \in 0 .. Wait
    BY DEF IInv, TypeOK, Countdown, QuietEnough
  <2> QED
    BY <2>1, LoopAssumption
<1> QED
  BY <1>1, InductiveInvariant, PTL

\* But while the firmware boots, and for the moment between the write that
\* turns a port on and its end, every port of the record is off in the chip,
\* unless a host changed its bit.
THEOREM RecordedIsOffHolds == Spec => []RecordedIsOff
<1>1. IInv => RecordedIsOff
  BY DEF IInv, RecordHeld, RecordedIsOff
<1> QED
  BY <1>1, InductiveInvariant, PTL
=============================================================================
