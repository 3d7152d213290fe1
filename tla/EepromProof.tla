---------------------------- MODULE EepromProof ----------------------------
(***************************************************************************)
(* Proofs about Eeprom, for an EEPROM of any size, any values of its bytes *)
(* and any number of attempts and polls.                                   *)
(***************************************************************************)
EXTENDS Eeprom, TLAPS

(***************************************************************************)
(* The inductive invariant.                                                *)
(***************************************************************************)
InCall == pc \in {"sendData", "sendCommand", "poll", "takeData"}

\* A job covers a range of bytes and is within it while it runs; a register
\* of "write memory" starts within it, too.
JobShape ==
    /\ job.first <= job.last
    /\ job.kind = "memory" => job.first = 0
    /\ at \in job.first .. job.last + 1
    /\ InCall => at <= job.last
    /\ pc = "takeData" => ~Writes(job)

Shape == TypeOK /\ JobShape

\* What is written at present may be written: the byte the job before was at,
\* or one that this job has come to.
Reached(a) ==
    /\ Writes(job)
    /\ \E n \in job.first .. job.last : a = Place(job, n) /\ UnitStart(job, n) <= at

Confined ==
    /\ cmd.busy /\ ~cmd.read => cmd.addr = leftover \/ Reached(cmd.addr)
    /\ OnlyReachedBytesChange

\* Once a command of the job has been taken, 0x217 holds no other: a write of
\* the right byte, that of the present address while its end is waited for.
\* Until then it holds another command than the first of the job.
NotYetTaken ==
    /\ at = job.first
    /\ pc # "poll"
    /\ cmd.addr # Place(job, at) \/ cmd.read

RightByte ==
    /\ ~cmd.read
    /\ cmd.val = job.src[cmd.addr]
    /\ pc = "poll" => cmd.addr = Place(job, at)
    /\ ~cmd.busy /\ ~cmd.fail => eeprom[cmd.addr] = cmd.val

\* The bytes behind the job are stored, each one and not only whole registers.
Passed ==
    \A n \in job.first .. at - 1 : eeprom[Place(job, n)] = job.src[Place(job, n)]

Writing ==
    Writes(job) /\ ~warned /\ ~aliased =>
        /\ pc = "sendCommand" => dat.out = job.src[Place(job, at)]
        /\ Passed
        /\ NotYetTaken \/ RightByte

\* The byte in 0x218 is that of the read 0x217 speaks of; a job that reads has
\* put an end to the write it found in progress before it takes its first byte.
Fetched == cmd.read /\ ~cmd.busy /\ ~cmd.fail => dat.in = eeprom[cmd.addr]

Taken ==
    /\ Writes(job) => buf = <<>>
    /\ ~Writes(job) => Len(buf) = at - job.first

Reading ==
    ~Writes(job) /\ ~warned =>
        /\ cmd.read \/ (at = job.first /\ pc \notin {"poll", "takeData"})
        /\ pc \in {"poll", "takeData"} => cmd.read /\ cmd.addr = at
        /\ pc = "takeData" => ~cmd.busy /\ ~cmd.fail
        /\ \A i \in 1 .. Len(buf) : buf[i] = eeprom[job.first + i - 1]

IInv == Shape /\ Confined /\ Writing /\ Fetched /\ Taken /\ Reading

-----------------------------------------------------------------------------
(***************************************************************************)
(* Addresses and registers.                                                *)
(***************************************************************************)
\* The bytes of a job have addresses of the EEPROM, whichever way round.
LEMMA PlaceIsAddr ==
    ASSUME NEW j \in Jobs, NEW n \in j.first .. j.last
    PROVE  Place(j, n) \in Addrs
BY EepromAssumption DEF Place, Jobs, Addrs

\* The register of a byte begins at the byte or the one before, not before the
\* job, and no register begins between the beginning of one and its bytes.
LEMMA UnitStartBounds ==
    ASSUME NEW j, NEW n \in Nat, NEW f \in Nat, f <= n, j.kind = "memory" => f = 0
    PROVE  /\ UnitStart(j, n) \in Nat
           /\ UnitStart(j, n) \in f .. n
           /\ \A m \in Nat : UnitStart(j, m) <= n => UnitStart(j, m) <= UnitStart(j, n)
<1>1. \A k \in Nat : k % 2 \in 0 .. 1 /\ k % 2 <= k
  OBVIOUS
<1>2. \A k, m \in Nat : m - (m % 2) <= k => m - (m % 2) <= k - (k % 2)
  OBVIOUS
<1> QED
  BY <1>1, <1>2 DEF UnitStart

LEMMA UnitStartNat ==
    ASSUME NEW j, NEW n \in Nat
    PROVE  UnitStart(j, n) \in Nat
<1>1. n % 2 \in 0 .. 1 /\ n % 2 <= n
  OBVIOUS
<1> QED
  BY <1>1 DEF UnitStart

LEMMA RangeWithin ==
    ASSUME NEW f \in Nat, NEW m \in Nat, NEW n \in Nat, m <= n
    PROVE  \A k \in f .. m - 1 : k \in f .. n - 1
OBVIOUS

\* Every job has at least one attempt.
LEMMA TriesPositive ==
    ASSUME NEW j \in Jobs
    PROVE  Tries(j) \in Nat \ {0}
BY EepromAssumption DEF Tries, Jobs, Kinds

\* What the command in progress leaves behind is an EEPROM.
LEMMA StoredType ==
    ASSUME TypeOK
    PROVE  Stored \in [Addrs -> Bytes]
BY DEF TypeOK, Stored, Commands

-----------------------------------------------------------------------------
(***************************************************************************)
(* The steps: what each leaves alone, said once.                           *)
(***************************************************************************)
\* A command begins a job of the set of jobs that covers a range of bytes.
LEMMA CommandStarts ==
    ASSUME TypeOK, Command
    PROVE  \E j \in Jobs : Start(j) /\ j.first <= j.last /\ (j.kind = "memory" => j.first = 0)
<1>1. /\ 0 \in Addrs /\ NumBytes - 1 \in Addrs /\ 0 <= NumBytes - 1
      /\ Running \in [Addrs -> Bytes] /\ Defaults \in [Addrs -> Bytes]
      /\ File \in [Addrs -> Bytes] /\ Identities \subseteq [Addrs -> Bytes]
  BY EepromAssumption DEF Addrs
<1>2. \A a \in Addrs : a <= a
  BY EepromAssumption DEF Addrs
<1> USE DEF Jobs, Kinds
<1> DEFINE Whole(kind, src) == [kind |-> kind, first |-> 0, last |-> NumBytes - 1, src |-> src]
<1>3. ASSUME NEW kind \in Kinds, NEW src \in [Addrs -> Bytes], Start(Whole(kind, src))
      PROVE  \E j \in Jobs : Start(j) /\ j.first <= j.last /\ (j.kind = "memory" => j.first = 0)
  BY <1>1, <1>3
<1>4. CASE WriteMemory
  BY <1>1, <1>3, <1>4 DEF WriteMemory
<1>5. CASE CopyFile \/ CopyEeprom
  BY <1>1, <1>3, <1>5 DEF CopyFile, CopyEeprom
<1>6. CASE SetIdentity("mac") \/ SetIdentity("vendor")
  <2>1. PICK kind \in {"mac", "vendor"} : SetIdentity(kind)
    BY <1>6
  <2>2. PICK src \in Identities : Start(Whole(kind, src))
    BY <2>1 DEF SetIdentity
  <2> QED
    BY <1>1, <1>3, <2>2
<1>7. ASSUME NEW a \in Addrs, ShowByte(a)
      PROVE  \E j \in Jobs : Start(j) /\ j.first <= j.last /\ (j.kind = "memory" => j.first = 0)
  BY <1>1, <1>2, <1>7 DEF ShowByte
<1>8. ASSUME NEW a \in Addrs, NEW v \in Bytes, SetByte(a, v)
      PROVE  \E j \in Jobs : Start(j) /\ j.first <= j.last /\ (j.kind = "memory" => j.first = 0)
  <2>1. [b \in Addrs |-> v] \in [Addrs -> Bytes]
    OBVIOUS
  <2> QED
    BY <1>2, <1>8, <2>1 DEF SetByte
<1> QED
  BY <1>3, <1>4, <1>5, <1>6, <1>7, <1>8 DEF Command

\* The byte done with, the job goes on to the next or ends: what was asked of
\* the job before is as it was.
LEMMA NextByteStep ==
    ASSUME Shape, InCall, NextByte
    PROVE  /\ job' = job
           /\ at \in Addrs /\ at \in job.first .. job.last
           /\ at' = at + 1
           /\ attempt' \in 0 .. Tries(job) - 1
           /\ said' \in {"none", "done", "error"}
           /\ \/ at = job.last /\ pc' = "idle"
              \/ at + 1 <= job.last /\ pc' = Begin(job)
<1> USE DEF Shape, TypeOK, JobShape, Jobs
<1>1. at \in job.first .. job.last /\ job.first \in Nat /\ job.last \in Nat /\ at \in Addrs
  BY SMTT(30), EepromAssumption DEF Addrs
<1>2. attempt' \in 0 .. Tries(job) - 1
  BY TriesPositive DEF NextByte
<1> QED
  BY <1>1, <1>2 DEF NextByte

\* The byte failed, the job goes back to the beginning of the register, if it
\* is "write memory", to try again, or it ends where it is.
LEMMA ByteFailedStep ==
    ASSUME Shape, InCall, ByteFailed
    PROVE  /\ job' = job
           /\ attempt' \in 0 .. Tries(job) - 1
           /\ said' \in {"none", "done", "error"}
           /\ \/ at' = UnitStart(job, at) /\ pc' = Begin(job)
              \/ at' = at /\ pc' \in {"idle", "exited"}
           /\ at' \in job.first .. at
           /\ UnitStart(job, at) <= at'
           /\ ~Writes(job) => at' = at
<1> USE DEF Shape, TypeOK, JobShape, Jobs
<1>1. at \in job.first .. job.last /\ job.first \in Nat /\ job.last \in Nat /\ at \in Nat
  BY EepromAssumption DEF Addrs
<1>2. UnitStart(job, at) \in job.first .. at
  BY <1>1, UnitStartBounds
<1>3. attempt' \in 0 .. Tries(job) - 1
  BY TriesPositive DEF ByteFailed, JobEnds
<1>4. ~Writes(job) => UnitStart(job, at) = at
  BY DEF Writes, UnitStart
<1> QED
  BY <1>1, <1>2, <1>3, <1>4 DEF ByteFailed, JobEnds

\* The steps by which a call goes on within its byte, or that are not the
\* client's, leave the job and its place alone.
LEMMA StaysStep ==
    ASSUME [Next]_vars
    PROVE  \/ Command
           \/ InCall /\ (NextByte \/ ByteFailed)
           \/ UNCHANGED <<job, at, attempt, said>>
BY DEF Next, InJob, Controller, ControllerSucceeds, ControllerFails, SendData, SendCommand,
       PollBusy, PollFails, PollWritten, PollRead, TakeData, ProcessEnds, Restart, vars, InCall

-----------------------------------------------------------------------------
(***************************************************************************)
(* Types, and the shape of the job                                         *)
(***************************************************************************)
LEMMA ShapeInit == Init => Shape
<1> SUFFICES ASSUME Init PROVE Shape
  OBVIOUS
<1>1. 0 \in Addrs /\ 0 \in 0 .. NumBytes /\ 0 \in 0 .. MaxPolls - 1
  BY EepromAssumption DEF Addrs
<1>2. job \in Jobs /\ job.first = 0 /\ job.last = 0
  BY <1>1, EepromAssumption DEF Init, Jobs, Kinds
<1>3. attempt \in 0 .. Tries(job) - 1
  BY <1>2, TriesPositive DEF Init
<1>4. cmd \in Commands /\ dat \in [out : Bytes, in : Bytes]
  <2>1. PICK a \in Addrs, v \in Bytes :
          /\ dat = [out |-> v, in |-> eeprom[a]]
          /\ cmd = [addr |-> a, read |-> TRUE, busy |-> FALSE, fail |-> FALSE, val |-> v]
    BY DEF Init
  <2>2. eeprom[a] \in Bytes
    BY DEF Init
  <2> QED
    BY <2>1, <2>2 DEF Commands
<1>5. TypeOK
  <2>1. /\ pc = "idle" /\ at = 0 /\ polls = 0 /\ said = "none" /\ buf = <<>>
        /\ eeprom \in [Addrs -> Bytes] /\ before = eeprom /\ leftover = NoAddr
        /\ aliased = FALSE /\ warned = FALSE
    BY DEF Init
  <2>2. buf \in Seq(Bytes)
    BY <2>1
  <2> QED
    BY <1>1, <1>2, <1>3, <1>4, <2>1, <2>2 DEF TypeOK
<1>6. JobShape
  BY <1>2 DEF Init, JobShape, InCall
<1> QED
  BY <1>5, <1>6 DEF Shape

LEMMA ShapeStep ==
    ASSUME Shape, [Next]_vars
    PROVE  Shape'
<1> USE DEF Shape
<1>1. CASE Command
  <2>1. PICK j \in Jobs : Start(j) /\ j.first <= j.last /\ (j.kind = "memory" => j.first = 0)
    BY <1>1, CommandStarts
  <2>2. /\ j.first \in 0 .. NumBytes /\ j.first \in j.first .. j.last + 1
    BY <2>1, EepromAssumption DEF Jobs, Addrs
  <2>3. attempt' \in 0 .. Tries(job') - 1 /\ polls' \in 0 .. MaxPolls - 1
    BY <2>1, TriesPositive, EepromAssumption DEF Start
  <2>4. leftover' \in Addrs \cup {NoAddr} /\ aliased' \in BOOLEAN
    BY <2>1 DEF Start, TypeOK, Commands
  <2>5. TypeOK'
    <3>1. /\ job' \in Jobs /\ at' \in 0 .. NumBytes /\ pc' \in {"sendData", "sendCommand"}
          /\ said' = "none" /\ buf' = <<>> /\ before' = eeprom /\ warned' = FALSE
          /\ UNCHANGED <<cmd, dat, eeprom>>
      BY <2>1, <2>2 DEF Start, Begin, device
    <3>2. buf' \in Seq(Bytes)
      BY <3>1
    <3> QED
      BY <2>3, <2>4, <3>1, <3>2 DEF TypeOK
  <2>6. JobShape'
    BY <2>1, <2>2 DEF Start, JobShape, InCall, Begin
  <2> QED
    BY <2>5, <2>6
<1>2. CASE SendData
  <2>1. Place(job, at) \in Addrs
    BY <1>2, PlaceIsAddr DEF SendData, JobShape, InCall, TypeOK, Jobs, Addrs
  <2>2. job.src[Place(job, at)] \in Bytes
    BY <2>1 DEF TypeOK, Jobs
  <2> QED
    BY <1>2, <2>2 DEF SendData, TypeOK, JobShape, InCall
<1>3. CASE SendCommand
  <2>1. Place(job, at) \in Addrs
    BY <1>3, PlaceIsAddr DEF SendCommand, JobShape, InCall, TypeOK, Jobs, Addrs
  <2>2. CommandAt \in Commands
    BY <2>1 DEF TypeOK, Commands, CommandAt, Writes
  <2>3. cmd' \in Commands /\ eeprom' \in [Addrs -> Bytes]
    BY <1>3, <2>2, StoredType DEF SendCommand, TypeOK
  <2>4. polls' \in 0 .. MaxPolls - 1
    BY <1>3, EepromAssumption DEF SendCommand
  <2> QED
    BY <1>3, <2>3, <2>4 DEF SendCommand, TypeOK, JobShape, InCall
<1>4. CASE PollBusy
  BY <1>4, EepromAssumption DEF PollBusy, TypeOK, JobShape, InCall, device, history
<1>5. CASE PollFails \/ PollWritten \/ TakeData
  <2>1. InCall /\ (NextByte \/ ByteFailed)
    BY <1>5 DEF PollFails, PollWritten, TakeData, InCall
  <2>2. /\ job' = job
        /\ attempt' \in 0 .. Tries(job) - 1
        /\ said' \in {"none", "done", "error"}
        /\ at' \in job.first .. job.last + 1
        /\ pc' \in {"idle", "exited", Begin(job)}
        /\ pc' = Begin(job) => at' <= job.last
    BY SMTT(30), <2>1, NextByteStep, ByteFailedStep, EepromAssumption DEF TypeOK, JobShape, Jobs, Addrs, Begin
  <2>3. at' \in 0 .. NumBytes
    BY SMTT(30), <2>2, EepromAssumption DEF TypeOK, Jobs, Addrs
  <2>4. buf' \in Seq(Bytes)
    BY <1>5 DEF PollFails, PollWritten, TakeData, TypeOK
  <2> QED
    BY <1>5, <2>2, <2>3, <2>4
    DEF PollFails, PollWritten, TakeData, TypeOK, JobShape, InCall, Begin, device, history
<1>6. CASE PollRead
  BY <1>6 DEF PollRead, TypeOK, JobShape, InCall, device, history
<1>7. CASE Controller
  <2>1. /\ UNCHANGED <<pc, job, at, attempt, polls, said, buf, history>>
        /\ eeprom' \in {eeprom, Stored}
    BY <1>7 DEF Controller, ControllerSucceeds, ControllerFails
  <2>2. cmd' \in Commands
    BY <1>7 DEF Controller, ControllerSucceeds, ControllerFails, TypeOK, Commands
  <2>3. dat' \in [out : Bytes, in : Bytes]
    BY <1>7 DEF Controller, ControllerSucceeds, ControllerFails, TypeOK, Commands
  <2>4. eeprom' \in [Addrs -> Bytes]
    BY <2>1, StoredType DEF TypeOK
  <2>5. TypeOK'
    BY <2>1, <2>2, <2>3, <2>4 DEF TypeOK, history
  <2>6. JobShape'
    BY <2>1 DEF JobShape, InCall
  <2> QED
    BY <2>5, <2>6
<1>8. CASE ProcessEnds \/ Restart
  <2>1. pc' \in {"exited", "idle"} /\ UNCHANGED <<job, at, attempt, polls, said, buf, device, history>>
    BY <1>8 DEF ProcessEnds, Restart
  <2>2. TypeOK'
    BY <2>1 DEF TypeOK, device, history
  <2>3. JobShape'
    BY <2>1 DEF JobShape, InCall
  <2> QED
    BY <2>2, <2>3
<1>9. CASE UNCHANGED vars
  BY <1>9 DEF vars, TypeOK, JobShape, InCall, device, history
<1> QED
  BY <1>1, <1>2, <1>3, <1>4, <1>5, <1>6, <1>7, <1>8, <1>9 DEF Next, InJob

-----------------------------------------------------------------------------
(***************************************************************************)
(* What is written                                                         *)
(***************************************************************************)
\* The EEPROM changes only by the command in progress, and only at its byte.
LEMMA OnlyCommandWrites ==
    ASSUME Shape, [Next]_vars
    PROVE  \/ UNCHANGED eeprom
           \/ /\ eeprom' = [eeprom EXCEPT ![cmd.addr] = cmd.val]
              /\ cmd.busy /\ ~cmd.read
              /\ Controller \/ SendCommand
<1>1. CASE Command
  BY <1>1, CommandStarts DEF Shape, Start, device
<1>2. CASE SendCommand
  BY <1>2 DEF SendCommand, Stored
<1>3. CASE Controller
  BY <1>3 DEF Controller, ControllerSucceeds, ControllerFails, Stored
<1> QED
  BY <1>1, <1>2, <1>3 DEF Next, InJob, SendData, PollBusy, PollFails, PollWritten, PollRead,
  TakeData, ProcessEnds, Restart, device, vars

\* A byte the job has come to stays one when it moves on, or goes back to the
\* beginning of the register.
LEMMA ReachedStays ==
    ASSUME Shape, [Next]_vars, ~Command, NEW a, Reached(a)
    PROVE  Reached(a)'
<1> USE DEF Reached
<1>1. PICK n \in job.first .. job.last : a = Place(job, n) /\ UnitStart(job, n) <= at
  OBVIOUS
<1>2. /\ job.first \in Nat /\ job.last \in Nat /\ at \in Nat /\ n \in Nat
      /\ at \in job.first .. job.last + 1
  BY EepromAssumption DEF Shape, TypeOK, JobShape, Jobs, Addrs
<1>3. job' = job
  BY StaysStep, NextByteStep, ByteFailedStep
<1>4. UnitStart(job, n) <= at'
  <2>1. CASE InCall /\ NextByte
    <3>1. UnitStart(job, n) \in Nat
      BY <1>2, UnitStartNat
    <3> QED
      BY <1>1, <1>2, <2>1, <3>1, NextByteStep
  <2>2. CASE InCall /\ ByteFailed
    <3>1. UnitStart(job, n) \in Nat /\ UnitStart(job, at) \in Nat
      BY <1>2, UnitStartNat
    <3>2. UnitStart(job, n) <= UnitStart(job, at)
      BY <1>1, <1>2, UnitStartBounds DEF Shape, JobShape
    <3>3. UnitStart(job, at) <= at' /\ at' \in job.first .. at
      BY <2>2, ByteFailedStep
    <3> QED
      BY <1>2, <3>1, <3>2, <3>3
  <2>3. CASE UNCHANGED at
    BY <1>1, <2>3
  <2> QED
    BY <2>1, <2>2, <2>3, StaysStep
<1> QED
  BY <1>1, <1>3, <1>4

LEMMA ConfinedStep ==
    ASSUME Shape, Confined, [Next]_vars
    PROVE  Confined'
<1> USE DEF Confined
<1>1. CASE Command
  <2>1. PICK j \in Jobs : Start(j)
    BY <1>1, CommandStarts DEF Shape
  <2>2. UNCHANGED <<cmd, eeprom>> /\ before' = eeprom
    BY <2>1 DEF Start, device
  <2>3. cmd.busy /\ ~cmd.read => leftover' = cmd.addr
    BY <2>1 DEF Start
  <2> QED
    BY <2>2, <2>3 DEF OnlyReachedBytesChange
<1>2. CASE ~Command
  <2>1. /\ leftover' = leftover /\ before' = before
    BY <1>2 DEF Next, InJob, Controller, ControllerSucceeds, ControllerFails, SendData,
       SendCommand, PollBusy, PollFails, PollWritten, PollRead, TakeData, ProcessEnds, Restart,
       history, vars
  <2>2. ASSUME NEW a \in Addrs, a = cmd'.addr, cmd'.busy, ~cmd'.read
        PROVE  a = leftover' \/ Reached(a)'
    <3>1. CASE SendCommand /\ cmd' = CommandAt
      <4>1. /\ at \in job.first .. job.last /\ job.first \in Nat /\ at \in Nat
        BY <3>1, EepromAssumption DEF SendCommand, Shape, TypeOK, JobShape, InCall, Jobs, Addrs
      <4>2. UnitStart(job, at) <= at
        BY <4>1, UnitStartBounds DEF Shape, JobShape
      <4>3. Reached(a)
        BY <2>2, <3>1, <4>1, <4>2 DEF CommandAt, Reached
      <4> QED
        BY <1>2, <4>3, ReachedStays
    <3>2. CASE cmd' = cmd \/ Controller
      <4>1. cmd.busy /\ ~cmd.read /\ cmd.addr = a
        BY <2>2, <3>2 DEF Controller, ControllerSucceeds, ControllerFails, Shape, TypeOK, Commands
      <4>2. a = leftover \/ Reached(a)
        BY <4>1 DEF Reached
      <4> QED
        BY <1>2, <2>1, <4>2, ReachedStays
    <3> QED
      BY <1>2, <3>1, <3>2 DEF Next, InJob, SendData, SendCommand, PollBusy, PollFails,
         PollWritten, PollRead, TakeData, ProcessEnds, Restart, device, vars
  <2>3. OnlyReachedBytesChange'
    <3> SUFFICES ASSUME NEW a \in Addrs \ {leftover}, eeprom'[a] # before[a]
                 PROVE  Reached(a)'
      BY <2>1 DEF OnlyReachedBytesChange, Reached
    <3>1. CASE eeprom'[a] = eeprom[a]
      BY <1>2, <3>1, ReachedStays DEF OnlyReachedBytesChange, Reached
    <3>2. CASE eeprom'[a] # eeprom[a]
      <4>1. a = cmd.addr /\ cmd.busy /\ ~cmd.read
        BY <3>2, OnlyCommandWrites DEF Shape, TypeOK
      <4>2. Reached(a)
        BY <4>1 DEF Reached
      <4> QED
        BY <1>2, <4>2, ReachedStays
    <3> QED
      BY <3>1, <3>2
  <2>4. cmd'.addr \in Addrs
    BY ShapeStep DEF Shape, TypeOK, Commands
  <2> QED
    BY <2>2, <2>3, <2>4 DEF Reached
<1> QED
  BY <1>1, <1>2

\* The conditions of the properties at a step that does not begin a job: the
\* job and what was known when it began stay, and a warning is for good.
LEMMA JobStays ==
    ASSUME Shape, [Next]_vars, ~Command
    PROVE  /\ job' = job /\ aliased' = aliased
           /\ warned \in BOOLEAN /\ (warned => warned')
<1>1. job' = job
  BY StaysStep, NextByteStep, ByteFailedStep
<1>2. CASE SendData \/ SendCommand
  BY <1>1, <1>2 DEF SendData, SendCommand, Shape, TypeOK
<1>3. CASE UNCHANGED history
  BY <1>1, <1>3 DEF history, Shape, TypeOK
<1> QED
  BY <1>2, <1>3 DEF Next, InJob, Controller, ControllerSucceeds, ControllerFails,
     PollBusy, PollFails, PollWritten, PollRead, TakeData, ProcessEnds, Restart, vars

-----------------------------------------------------------------------------
(***************************************************************************)
(* Jobs that write                                                         *)
(***************************************************************************)
LEMMA WritingStep ==
    ASSUME Shape, Writing, [Next]_vars
    PROVE  Writing'
<1>1. CASE Command
  <2>1. PICK j \in Jobs : Start(j)
    BY <1>1, CommandStarts DEF Shape
  <2>2. /\ j.first \in Nat /\ job' = j /\ at' = j.first /\ UNCHANGED <<cmd, eeprom>>
        /\ pc' = Begin(j)
    BY <2>1, EepromAssumption DEF Start, Jobs, Addrs, device
  <2>3. Writes(j) /\ ~aliased' => cmd.addr # Place(j, j.first) \/ cmd.read
    BY <2>1 DEF Start, Shape, TypeOK, Commands
  <2>4. Passed'
    BY <2>2 DEF Passed
  <2>5. Writes(j) /\ ~aliased' => NotYetTaken' /\ pc' = "sendData"
    BY <2>2, <2>3 DEF NotYetTaken, Begin
  <2> QED
    BY <2>2, <2>4, <2>5 DEF Writing
<1>2. CASE ~Command
  <2> SUFFICES ASSUME Writes(job'), ~warned', ~aliased'
               PROVE  /\ pc' = "sendCommand" => dat'.out = job'.src[Place(job', at')]
                      /\ Passed' /\ (NotYetTaken' \/ RightByte')
    BY DEF Writing, Writes
  <2>1. /\ job' = job /\ Writes(job) /\ ~warned /\ ~aliased
    BY <1>2, JobStays
  <2>2. /\ pc = "sendCommand" => dat.out = job.src[Place(job, at)]
        /\ Passed /\ (NotYetTaken \/ RightByte)
    BY <2>1 DEF Writing
  <2>3. /\ at \in Nat /\ job.first \in Nat /\ at \in job.first .. job.last + 1
        /\ InCall => at \in job.first .. job.last /\ Place(job, at) \in Addrs
    <3>1. /\ at \in Nat /\ job.first \in Nat /\ job.last \in Nat
          /\ at \in job.first .. job.last + 1 /\ (InCall => at <= job.last)
      BY EepromAssumption DEF Shape, TypeOK, JobShape, Jobs, Addrs
    <3>2. InCall => at \in job.first .. job.last
      BY <3>1
    <3> QED
      BY <3>1, <3>2, PlaceIsAddr DEF Shape, TypeOK
  <2>4. CASE SendData
    <3>1. dat'.out = job.src[Place(job, at)]
      BY <2>4 DEF SendData, Shape, TypeOK
    <3> QED
      BY <2>1, <2>2, <2>4, <3>1 DEF SendData, Passed, NotYetTaken, RightByte
  <2>5. CASE SendCommand
    <3>1. CASE cmd' = CommandAt
      <4>1. cmd'.val = job.src[cmd'.addr] /\ ~cmd'.read /\ cmd'.busy /\ cmd'.addr = Place(job, at)
        BY <2>1, <2>2, <2>5, <3>1 DEF SendCommand, CommandAt
      <4>2. Passed'
        <5>1. \A n \in job.first .. at - 1 : eeprom'[Place(job, n)] = job.src[Place(job, n)]
          <6> SUFFICES ASSUME NEW n \in job.first .. at - 1
                       PROVE  eeprom'[Place(job, n)] = job.src[Place(job, n)]
            OBVIOUS
          <6>1. n \in job.first .. job.last /\ Place(job, n) \in Addrs
            BY <2>3, PlaceIsAddr DEF Shape, TypeOK, Jobs, Addrs
          <6>2. eeprom[Place(job, n)] = job.src[Place(job, n)]
            BY <2>2 DEF Passed
          <6>3. ~NotYetTaken
            BY <2>3 DEF NotYetTaken
          <6>4. cmd.val = job.src[cmd.addr]
            BY <2>2, <6>3 DEF RightByte
          <6> QED
            BY <6>1, <6>2, <6>4, OnlyCommandWrites DEF Shape, TypeOK
        <5>2. at' = at
          BY <2>5 DEF SendCommand
        <5> QED
          BY <2>1, <5>1, <5>2 DEF Passed
      <4> QED
        BY <2>1, <2>5, <4>1, <4>2 DEF SendCommand, RightByte
    <3>2. CASE UNCHANGED <<cmd, eeprom>>
      <4>1. warned' = (warned \/ cmd.addr # CommandAt.addr \/ cmd.read # CommandAt.read)
              \/ cmd' = CommandAt
        BY <2>5 DEF SendCommand
      <4>2. CommandAt.addr = Place(job, at) /\ CommandAt.read = FALSE
        BY <2>1 DEF CommandAt
      <4>3. cmd.addr = Place(job, at) /\ ~cmd.read
        BY <2>1, <3>2, <4>1, <4>2 DEF Shape, TypeOK, Commands
      <4>4. RightByte
        BY <2>2, <4>3 DEF NotYetTaken
      <4> QED
        BY <2>1, <2>2, <2>5, <3>2, <4>3, <4>4 DEF SendCommand, RightByte, Passed
    <3> QED
      BY <2>5, <3>1, <3>2 DEF SendCommand
  <2>6. CASE Controller
    <3>1. /\ UNCHANGED <<pc, job, at>> /\ dat'.out = dat.out
          /\ cmd'.addr = cmd.addr /\ cmd'.read = cmd.read /\ cmd'.val = cmd.val
          /\ ~cmd'.fail /\ ~cmd.read => eeprom' = [eeprom EXCEPT ![cmd.addr] = cmd.val]
      BY <2>6 DEF Controller, ControllerSucceeds, ControllerFails, Stored, Shape, TypeOK, Commands
    <3>2. Passed'
      <4> SUFFICES ASSUME NEW n \in job.first .. at - 1
                   PROVE  eeprom'[Place(job, n)] = job.src[Place(job, n)]
        BY <3>1 DEF Passed
      <4>1. n \in job.first .. job.last /\ Place(job, n) \in Addrs
        BY <2>3, PlaceIsAddr DEF Shape, TypeOK, Jobs, Addrs
      <4>2. eeprom[Place(job, n)] = job.src[Place(job, n)]
        BY <2>2 DEF Passed
      <4>3. ~NotYetTaken
        BY <2>3 DEF NotYetTaken
      <4>4. cmd.val = job.src[cmd.addr]
        BY <2>2, <4>3 DEF RightByte
      <4> QED
        BY <4>1, <4>2, <4>4, OnlyCommandWrites DEF Shape, TypeOK
    <3>3. RightByte => RightByte'
      BY <3>1 DEF RightByte, Shape, TypeOK, Commands
    <3>4. NotYetTaken => NotYetTaken'
      BY <3>1 DEF NotYetTaken
    <3> QED
      BY <2>1, <2>2, <3>1, <3>2, <3>3, <3>4
  <2>7. CASE PollFails \/ PollWritten
    <3>1. pc = "poll" /\ InCall /\ UNCHANGED <<cmd, dat, eeprom>>
      BY <2>7 DEF PollFails, PollWritten, InCall, device
    <3>2. RightByte
      BY <2>2, <3>1 DEF NotYetTaken
    <3>3. pc' # "poll" /\ pc' # "sendCommand"
      BY <2>1, <2>7, <3>1, NextByteStep, ByteFailedStep DEF PollFails, PollWritten, Begin
    <3>4. RightByte'
      BY <2>1, <3>1, <3>2, <3>3 DEF RightByte
    <3>5. Passed'
      <4>1. CASE PollFails
        <5>1. at' <= at /\ at' \in Nat /\ at \in Nat /\ job.first \in Nat
          BY <2>3, <3>1, <4>1, ByteFailedStep DEF PollFails
        <5>2. \A n \in job.first .. at' - 1 : n \in job.first .. at - 1
          BY <5>1, RangeWithin
        <5> QED
          BY <2>1, <2>2, <3>1, <5>2 DEF Passed
      <4>2. CASE PollWritten
        <5>1. at' = at + 1
          BY <3>1, <4>2, NextByteStep DEF PollWritten
        <5>2. eeprom[Place(job, at)] = job.src[Place(job, at)]
          BY <3>1, <3>2, <4>2 DEF RightByte, PollWritten
        <5>3. \A n \in job.first .. at' - 1 : n \in job.first .. at - 1 \/ n = at
          BY <2>3, <5>1
        <5> QED
          BY <2>1, <2>2, <3>1, <5>2, <5>3 DEF Passed
      <4> QED
        BY <2>7, <4>1, <4>2
    <3> QED
      BY <2>1, <3>3, <3>4, <3>5
  <2>8. CASE PollBusy \/ ProcessEnds \/ Restart \/ UNCHANGED vars
    <3>1. /\ UNCHANGED <<at, cmd, dat, eeprom>>
          /\ pc' = pc \/ (pc' # "poll" /\ pc' # "sendCommand")
      BY <2>8 DEF PollBusy, ProcessEnds, Restart, vars, device
    <3> QED
      BY <2>1, <2>2, <3>1 DEF Passed, NotYetTaken, RightByte
  <2>9. ~PollRead /\ ~TakeData
    BY <2>1 DEF PollRead, TakeData, Shape, JobShape
  <2> QED
    BY <1>2, <2>4, <2>5, <2>6, <2>7, <2>8, <2>9 DEF Next, InJob
<1> QED
  BY <1>1, <1>2

-----------------------------------------------------------------------------
(***************************************************************************)
(* Jobs that read                                                          *)
(***************************************************************************)
LEMMA FetchedStep ==
    ASSUME Shape, Fetched, [Next]_vars
    PROVE  Fetched'
<1> USE DEF Fetched
<1>1. CASE Command
  BY <1>1, CommandStarts DEF Shape, Start, device
<1>2. CASE SendData
  BY <1>2 DEF SendData, Shape, TypeOK
<1>3. CASE SendCommand
  BY <1>3, OnlyCommandWrites DEF SendCommand, CommandAt, Stored, Shape, TypeOK, Commands
<1>4. CASE Controller
  BY <1>4 DEF Controller, ControllerSucceeds, ControllerFails, Stored, Shape, TypeOK, Commands
<1>5. CASE UNCHANGED device
  BY <1>5 DEF device
<1> QED
  BY <1>1, <1>2, <1>3, <1>4, <1>5 DEF Next, InJob, PollBusy, PollFails, PollWritten, PollRead,
  TakeData, ProcessEnds, Restart, vars

\* One byte is taken for each address passed.
LEMMA TakenStep ==
    ASSUME Shape, Taken, [Next]_vars
    PROVE  Taken'
<1> USE DEF Taken
<1>0. /\ at \in Nat /\ job.first \in Nat /\ buf \in Seq(Bytes)
  BY EepromAssumption DEF Shape, TypeOK, Jobs, Addrs
<1>1. CASE Command
  <2>1. PICK j \in Jobs : Start(j)
    BY <1>1, CommandStarts DEF Shape
  <2>2. buf' = <<>> /\ at' = j.first /\ job' = j /\ j.first \in Nat
    BY <2>1, EepromAssumption DEF Start, Jobs, Addrs
  <2> QED
    BY <2>2
<1>2. CASE TakeData
  <2>1. InCall /\ ~Writes(job) /\ NextByte /\ buf' = Append(buf, dat.in) /\ dat.in \in Bytes
    BY <1>2 DEF TakeData, InCall, Shape, TypeOK, JobShape
  <2>2. Len(buf') = Len(buf) + 1
    BY <1>0, <2>1
  <2>3. at' = at + 1 /\ job' = job
    BY <2>1, NextByteStep
  <2>4. Len(buf) = at - job.first
    BY <2>1
  <2>5. Len(buf') = at' - job'.first
    BY <1>0, <2>2, <2>3, <2>4
  <2> QED
    BY <2>1, <2>3, <2>5
<1>3. CASE PollWritten
  <2>1. Writes(job) /\ buf' = buf /\ job' = job
    BY <1>3, NextByteStep DEF PollWritten, InCall
  <2> QED
    BY <2>1
<1>4. CASE PollFails
  <2>1. buf' = buf /\ job' = job /\ (~Writes(job) => at' = at)
    BY <1>4, ByteFailedStep DEF PollFails, InCall
  <2> QED
    BY <2>1
<1>5. CASE UNCHANGED <<job, at, buf>>
  BY <1>5
<1> QED
  BY <1>1, <1>2, <1>3, <1>4, <1>5 DEF Next, InJob, Controller, ControllerSucceeds,
  ControllerFails, SendData, SendCommand, PollBusy, PollRead, ProcessEnds, Restart, vars

LEMMA ReadingStep ==
    ASSUME Shape, Fetched, Taken, Reading, [Next]_vars
    PROVE  Reading'
<1>1. CASE Command
  <2>1. PICK j \in Jobs : Start(j)
    BY <1>1, CommandStarts DEF Shape
  <2>2. /\ job' = j /\ at' = j.first /\ buf' = <<>> /\ pc' = Begin(j)
    BY <2>1 DEF Start
  <2>3. pc' \in {"sendData", "sendCommand"} /\ \A i \in 1 .. Len(buf') : FALSE
    BY <2>2 DEF Begin
  <2> QED
    BY <2>2, <2>3 DEF Reading
<1>2. CASE ~Command /\ ~Writes(job) /\ ~warned'
  <2>1. /\ job' = job /\ ~warned
    BY <1>2, JobStays
  <2>2. /\ cmd.read \/ (at = job.first /\ pc \notin {"poll", "takeData"})
        /\ pc \in {"poll", "takeData"} => cmd.read /\ cmd.addr = at
        /\ pc = "takeData" => ~cmd.busy /\ ~cmd.fail
        /\ \A i \in 1 .. Len(buf) : buf[i] = eeprom[job.first + i - 1]
    BY <1>2, <2>1 DEF Reading
  <2>3. /\ at \in Nat /\ job.first \in Nat /\ buf \in Seq(Bytes) /\ Len(buf) = at - job.first
        /\ Place(job, at) = at
    BY SMTT(30), <1>2, EepromAssumption DEF Shape, TypeOK, Jobs, Addrs, Taken, Place, Writes
  <2> USE DEF Reading
  <2>4. eeprom' = eeprom \/ buf = <<>>
    BY <2>2, <2>3, OnlyCommandWrites
  <2>5. buf' = buf => \A i \in 1 .. Len(buf') : buf'[i] = eeprom'[job.first + i - 1]
    BY <2>2, <2>4
  <2>6. CASE SendCommand
    <3>1. buf' = buf /\ at' = at /\ pc' = "poll"
      BY <2>6 DEF SendCommand
    <3>2. CommandAt.addr = at /\ CommandAt.read = TRUE
      BY <1>2, <2>3 DEF CommandAt
    <3>3. cmd'.addr = at /\ cmd'.read
      <4>1. CASE cmd' = CommandAt
        BY <3>2, <4>1
      <4>2. CASE cmd' = cmd /\ warned' = (warned \/ cmd.addr # CommandAt.addr \/ cmd.read # CommandAt.read)
        BY <1>2, <3>2, <4>2 DEF Shape, TypeOK, Commands
      <4> QED
        BY <2>6, <4>1, <4>2 DEF SendCommand
    <3> QED
      BY <2>1, <2>5, <3>1, <3>3
  <2>7. CASE Controller
    <3>1. /\ UNCHANGED <<pc, at, buf>> /\ cmd'.addr = cmd.addr /\ cmd'.read = cmd.read /\ cmd.busy
      BY <2>7 DEF Controller, ControllerSucceeds, ControllerFails, Shape, TypeOK, Commands
    <3> QED
      BY <2>1, <2>2, <2>5, <3>1
  <2>8. CASE TakeData
    <3>1. InCall /\ pc = "takeData" /\ NextByte /\ buf' = Append(buf, dat.in) /\ UNCHANGED <<cmd, eeprom>>
      BY <2>8 DEF TakeData, InCall, device
    <3>2. at' = at + 1 /\ pc' \in {"idle", "sendCommand"}
      BY <1>2, <3>1, NextByteStep DEF Begin
    <3>3. dat.in = eeprom[at]
      BY <2>2, <3>1 DEF Fetched
    <3>4. dat.in \in Bytes
      BY DEF Shape, TypeOK
    <3>5. \A i \in 1 .. Len(buf') : buf'[i] = eeprom'[job.first + i - 1]
      <4>1. Len(buf') = Len(buf) + 1 /\ Len(buf) \in Nat
        BY <2>3, <3>1, <3>4
      <4>2. \A i \in 1 .. Len(buf) : buf'[i] = buf[i]
        BY <2>3, <3>1, <3>4
      <4>3. buf'[Len(buf) + 1] = eeprom[job.first + (Len(buf) + 1) - 1]
        <5>1. job.first + (Len(buf) + 1) - 1 = at
          BY <2>3, <4>1
        <5> QED
          BY <2>3, <3>1, <3>3, <3>4, <5>1
      <4>4. \A i \in 1 .. Len(buf') : i \in 1 .. Len(buf) \/ i = Len(buf) + 1
        BY <4>1
      <4> QED
        BY <2>2, <3>1, <4>2, <4>3, <4>4
    <3> QED
      BY <2>1, <2>2, <3>1, <3>2, <3>5
  <2>9. CASE PollFails
    <3>1. InCall /\ ByteFailed /\ UNCHANGED <<buf, cmd, eeprom>> /\ pc = "poll"
      BY <2>9 DEF PollFails, InCall, device
    <3>2. pc' \in {"sendCommand", "idle", "exited"}
      BY <1>2, <3>1, ByteFailedStep DEF Begin
    <3> QED
      BY <2>1, <2>2, <2>5, <3>1, <3>2
  <2>10. CASE PollRead
    BY <2>1, <2>2, <2>5, <2>10 DEF PollRead, device
  <2>11. CASE SendData \/ PollBusy \/ ProcessEnds \/ Restart \/ UNCHANGED vars
    <3>1. /\ UNCHANGED <<at, buf, cmd, eeprom>>
          /\ pc' = pc \/ pc' \notin {"poll", "takeData"}
      BY <2>11 DEF SendData, PollBusy, ProcessEnds, Restart, vars, device
    <3> QED
      BY <2>1, <2>2, <2>5, <3>1
  <2>12. ~PollWritten
    BY <1>2 DEF PollWritten
  <2> QED
    BY <1>2, <2>6, <2>7, <2>8, <2>9, <2>10, <2>11, <2>12 DEF Next, InJob
<1>3. CASE ~Command /\ Writes(job)
  BY <1>3, JobStays DEF Reading, Writes
<1>4. CASE warned'
  BY <1>4 DEF Reading
<1> QED
  BY <1>1, <1>2, <1>3, <1>4

-----------------------------------------------------------------------------
(***************************************************************************)
(* The theorems                                                            *)
(***************************************************************************)
LEMMA InvInit == Init => IInv
<1> SUFFICES ASSUME Init PROVE IInv
  OBVIOUS
<1>1. Shape
  BY ShapeInit
<1>2. Confined /\ Fetched
  <2>1. PICK a \in Addrs, v \in Bytes :
          /\ dat = [out |-> v, in |-> eeprom[a]]
          /\ cmd = [addr |-> a, read |-> TRUE, busy |-> FALSE, fail |-> FALSE, val |-> v]
    BY DEF Init
  <2>2. before = eeprom
    BY DEF Init
  <2> QED
    BY <2>1, <2>2 DEF Confined, OnlyReachedBytesChange, Fetched
<1>3. /\ job.kind = "show" /\ job.first = 0 /\ at = 0 /\ pc = "idle" /\ buf = <<>>
  BY DEF Init
<1>4. ~Writes(job)
  BY <1>3 DEF Writes
<1>5. Writing /\ Taken /\ Reading
  BY <1>3, <1>4 DEF Writing, Taken, Reading
<1> QED
  BY <1>1, <1>2, <1>5 DEF IInv

LEMMA InvStep == IInv /\ [Next]_vars => IInv'
BY ShapeStep, ConfinedStep, WritingStep, FetchedStep, TakenStep, ReadingStep DEF IInv

LEMMA InvHolds == Spec => []IInv
BY InvInit, InvStep, PTL DEF Spec

\* Whatever is lost, fails, is retried or cut short, the variables hold values
\* of their kinds: the client stays within the bytes of its job, within its
\* attempts and its polls, and 0x217 speaks of a byte of the EEPROM.
THEOREM TypeCorrect == Spec => []TypeOK
<1>1. IInv => TypeOK
  BY DEF IInv, Shape
<1> QED
  BY <1>1, InvHolds, PTL

\* A job writes the bytes it has come to and no others, and a job that reads
\* writes none, but for the byte the job before it was still writing.
THEOREM OnlyReachedBytesChangeHolds == Spec => []OnlyReachedBytesChange
<1>1. IInv => OnlyReachedBytesChange
  BY DEF IInv, Confined
<1> QED
  BY <1>1, InvHolds, PTL

\* A byte that a job without warning reported written is in the EEPROM, for
\* the rest of the job, whatever was retried around it.
THEOREM ReportedBytesStoredHolds == Spec => []ReportedBytesStored
<1>1. IInv => ReportedBytesStored
  <2> SUFFICES ASSUME IInv, Writes(job), ~warned, ~aliased, NEW a \in Reported
               PROVE  eeprom[a] = job.src[a]
    BY DEF ReportedBytesStored
  <2>1. PICK n \in job.first .. UnitStart(job, at) - 1 : a = Place(job, n)
    BY DEF Reported
  <2>2. /\ job.first \in Nat /\ at \in Nat /\ job.first <= at
        /\ job.kind = "memory" => job.first = 0
    BY EepromAssumption DEF IInv, Shape, TypeOK, JobShape, Jobs, Addrs
  <2>3. UnitStart(job, at) \in Nat /\ UnitStart(job, at) <= at
    BY <2>2, UnitStartBounds
  <2>4. n \in job.first .. at - 1
    BY <2>2, <2>3, RangeWithin
  <2> QED
    BY <2>1, <2>4 DEF IInv, Writing, Passed
<1> QED
  BY <1>1, InvHolds, PTL

\* The bytes a job without warning has read are those the EEPROM holds: no
\* write is in progress behind them.
THEOREM ReadBytesTrueHolds == Spec => []ReadBytesTrue
<1>1. IInv => ReadBytesTrue
  <2> SUFFICES ASSUME IInv, ~warned
               PROVE  \A i \in 1 .. Len(buf) : buf[i] = eeprom[job.first + i - 1]
    BY DEF ReadBytesTrue
  <2>1. CASE Writes(job)
    <3>1. \A i \in 1 .. Len(buf) : FALSE
      BY <2>1 DEF IInv, Taken
    <3> QED
      BY <3>1
  <2>2. CASE ~Writes(job)
    BY <2>2 DEF IInv, Reading
  <2> QED
    BY <2>1, <2>2
<1> QED
  BY <1>1, InvHolds, PTL

=============================================================================
