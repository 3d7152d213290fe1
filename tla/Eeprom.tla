------------------------------- MODULE Eeprom -------------------------------
(***************************************************************************)
(* The configuration EEPROM of the switch, reached through two registers:  *)
(* 0x218 holds the byte, 0x217 the command and its state.  eeprom_write,   *)
(* eeprom_read and wait_eeprom of rrcp_io.c, and the commands built on     *)
(* them: of rrcpcli "write memory", "copy file: eeprom", "copy eeprom      *)
(* file:", "set eeprom-register" and "show eeprom-register", of rtl83xx    *)
(* "write memory", "write eeprom-defaults", "config mac-address" and       *)
(* "config vendor-id".  The last two reboot the switch when they are done, *)
(* which does nothing to the EEPROM and is left out.                       *)
(*                                                                         *)
(* A rtl83xx_setreg16 behaves as RegisterService says: the SET arrives; or *)
(* it does not and the call returns all the same, with a message when the  *)
(* value read back is not the one asked for; or the process ends.          *)
(***************************************************************************)
EXTENDS Naturals, Sequences

CONSTANTS
    NumBytes,     \* bytes the jobs cover, two for each register saved
    Bytes,        \* values of a byte
    Running,      \* the registers of the switch, as the bytes to save
    Defaults,     \* regdefval: what "write eeprom-defaults" saves, and no other
    File,         \* a file to copy to the EEPROM
    Identities,   \* MAC addresses and vendor IDs to give, by address
    MemoryTries,  \* attempts for a register of "write memory" (10 in the code)
    MacTries,     \* attempts for a byte of "mac-address" (10)
    FileTries,    \* attempts for a byte of a file (3)
    ReadTries,    \* attempts of eeprom_read (3)
    MaxPolls      \* polls of wait_eeprom (20)

Addrs == 0 .. NumBytes - 1
NoAddr == NumBytes

ASSUME EepromAssumption ==
    /\ NumBytes \in Nat \ {0}
    /\ NumBytes % 2 = 0
    /\ Running \in [Addrs -> Bytes]
    /\ Defaults \in [Addrs -> Bytes]
    /\ File \in [Addrs -> Bytes]
    /\ Identities \subseteq [Addrs -> Bytes]
    /\ {MemoryTries, MacTries, FileTries, ReadTries, MaxPolls} \subseteq Nat \ {0}

VARIABLES
    pc,        \* where the client is
    job,       \* the command it runs, or the last it ran
    at,        \* the byte it is at
    attempt,   \* failed attempts at this byte, or at this register
    polls,     \* polls of 0x217 that found the controller busy
    said,      \* how the job ended: "done" or "error"
    buf,       \* the bytes read
    cmd,       \* 0x217: the last command; val is the byte latched with it
    dat,       \* 0x218: the byte to write, and the byte read
    eeprom,    \* what the EEPROM holds
    before,    \* history: what it held when the job began
    leftover,  \* history: the byte an earlier job was still writing then
    aliased,   \* history: 0x217 then held the very command the job begins with
    warned     \* history: the job printed "can't set register"

device == <<cmd, dat, eeprom>>
history == <<before, leftover, aliased, warned>>
vars == <<pc, job, at, attempt, polls, said, buf, device, history>>

Kinds == {"memory", "mac", "vendor", "file", "set", "dump", "show"}
Jobs == [kind : Kinds, first : Addrs, last : Addrs, src : [Addrs -> Bytes]]
Commands == [addr : Addrs, read : BOOLEAN, busy : BOOLEAN, fail : BOOLEAN, val : Bytes]

Writes(j) == j.kind \notin {"dump", "show"}
Begin(j) == IF Writes(j) THEN "sendData" ELSE "sendCommand"
Tries(j) == CASE j.kind = "memory" -> MemoryTries
              [] j.kind = "mac"    -> MacTries
              [] j.kind = "file"   -> FileTries
              [] j.kind \in {"vendor", "set"} -> 1
              [] OTHER             -> ReadTries

\* A failed byte of "write memory" sends both bytes of its register again.
UnitStart(j, a) == IF j.kind = "memory" THEN a - (a % 2) ELSE a
UnitEnd(j, a) == j.kind = "memory" => a % 2 = 1

\* The address of a byte: those of the vendor ID go in the other way round.
Place(j, n) == IF j.kind = "vendor" THEN j.first + j.last - n ELSE n

(***************************************************************************)
(* The controller                                                          *)
(***************************************************************************)
\* The EEPROM after the command in progress, if it comes through.
Stored == IF cmd.read THEN eeprom ELSE [eeprom EXCEPT ![cmd.addr] = cmd.val]

ControllerSucceeds ==
    /\ cmd.busy
    /\ cmd' = [cmd EXCEPT !.busy = FALSE]
    /\ eeprom' = Stored
    /\ dat' = IF cmd.read THEN [dat EXCEPT !.in = eeprom[cmd.addr]] ELSE dat
    /\ UNCHANGED <<pc, job, at, attempt, polls, said, buf, history>>

ControllerFails ==
    /\ cmd.busy
    /\ cmd' = [cmd EXCEPT !.busy = FALSE, !.fail = TRUE]
    /\ eeprom' \in {eeprom, Stored}
    /\ UNCHANGED <<pc, job, at, attempt, polls, said, buf, dat, history>>

(***************************************************************************)
(* The jobs                                                                *)
(***************************************************************************)
Start(j) ==
    /\ pc = "idle"
    /\ job' = j
    /\ at' = j.first
    /\ attempt' = 0
    /\ polls' = 0
    /\ said' = "none"
    /\ pc' = Begin(j)
    /\ buf' = <<>>
    /\ before' = eeprom
    /\ leftover' = IF cmd.busy /\ ~cmd.read THEN cmd.addr ELSE NoAddr
    /\ aliased' = (cmd.addr = Place(j, j.first) /\ cmd.read = ~Writes(j))
    /\ warned' = FALSE
    /\ UNCHANGED device

WriteMemory ==
    \E src \in {Running, Defaults} :
        Start([kind |-> "memory", first |-> 0, last |-> NumBytes - 1, src |-> src])
SetIdentity(kind) ==
    \E src \in Identities :
        Start([kind |-> kind, first |-> 0, last |-> NumBytes - 1, src |-> src])
CopyFile == Start([kind |-> "file", first |-> 0, last |-> NumBytes - 1, src |-> File])
SetByte(a, v) == Start([kind |-> "set", first |-> a, last |-> a, src |-> [b \in Addrs |-> v]])
ShowByte(a) == Start([kind |-> "show", first |-> a, last |-> a, src |-> Running])
CopyEeprom == Start([kind |-> "dump", first |-> 0, last |-> NumBytes - 1, src |-> Running])

JobEnds(how) ==
    /\ pc' = "idle"
    /\ said' = how
    /\ UNCHANGED <<job, at, attempt>>

\* The next byte; a new register or byte has all its attempts again.
NextByte ==
    /\ at' = at + 1
    /\ attempt' = IF UnitEnd(job, at) THEN 0 ELSE attempt
    /\ IF at = job.last
       THEN pc' = "idle" /\ said' = "done"
       ELSE pc' = Begin(job) /\ UNCHANGED said
    /\ UNCHANGED job

\* Mutant: one attempt too many.
ByteFailedLate ==
    /\ attempt' = attempt + 1
    /\ IF attempt + 1 <= Tries(job)
       THEN /\ at' = UnitStart(job, at)
            /\ pc' = Begin(job)
            /\ UNCHANGED <<job, said>>
       ELSE JobEnds("error") /\ UNCHANGED at

\* Another attempt, or the end: "write memory" and the commands of rtl83xx end
\* the process, and the copy to a file stops there and says "okay".
ByteFailed ==
    \/ /\ attempt + 1 < Tries(job)
       /\ attempt' = attempt + 1
       /\ at' = UnitStart(job, at)
       /\ pc' = Begin(job)
       /\ UNCHANGED <<job, said>>
    \/ /\ attempt + 1 = Tries(job)
       /\ job.kind \in {"memory", "mac", "vendor"}
       /\ pc' = "exited"
       /\ said' = "error"
       /\ UNCHANGED <<job, at, attempt>>
    \/ /\ attempt + 1 = Tries(job)
       /\ job.kind \in {"file", "set", "show"}
       /\ JobEnds("error")
    \/ /\ attempt + 1 = Tries(job)
       /\ job.kind = "dump"
       /\ JobEnds("done")

(***************************************************************************)
(* eeprom_write and eeprom_read                                            *)
(***************************************************************************)
\* setreg16(0x218): when the SET is lost the read-back tells, unless the
\* register held the byte already.
SendData ==
    /\ pc = "sendData"
    /\ pc' = "sendCommand"
    /\ \/ dat' = [dat EXCEPT !.out = job.src[Place(job, at)]] /\ UNCHANGED warned
       \/ UNCHANGED dat /\ warned' = (warned \/ dat.out # job.src[Place(job, at)])
    /\ UNCHANGED <<job, at, attempt, polls, said, buf, cmd, eeprom, before, leftover, aliased>>

\* Mutant: a read is asked for without bit 11.
CommandAtWrite ==
    [addr |-> Place(job, at), read |-> FALSE, busy |-> TRUE, fail |-> FALSE, val |-> dat.out]

\* The command eeprom_write or eeprom_read puts in 0x217.
CommandAt ==
    [addr |-> Place(job, at), read |-> ~Writes(job), busy |-> TRUE, fail |-> FALSE, val |-> dat.out]

\* setreg16(0x217): the SET starts the command, and a command in progress
\* gives way, done or not; or it is lost or not taken, and the read-back tells,
\* unless the command before was the same.
SendCommand ==
    /\ pc = "sendCommand"
    /\ pc' = "poll"
    /\ polls' = 0
    /\ \/ /\ cmd' = CommandAt
          /\ eeprom' \in IF cmd.busy THEN {eeprom, Stored} ELSE {eeprom}
          /\ UNCHANGED warned
       \/ /\ UNCHANGED <<cmd, eeprom>>
          /\ warned' = (warned \/ cmd.addr # CommandAt.addr \/ cmd.read # CommandAt.read)
    /\ UNCHANGED <<job, at, attempt, said, buf, dat, before, leftover, aliased>>

\* wait_eeprom, with its result in the caller: bit 13 is read as failure, and
\* 0xffff, after the last poll, has bit 13 set.
PollBusy ==
    /\ pc = "poll"
    /\ cmd.busy
    /\ polls + 1 < MaxPolls
    /\ polls' = polls + 1
    /\ UNCHANGED <<pc, job, at, attempt, said, buf, device, history>>

\* Mutant: wait_eeprom gives 0, success, when its polls are used up.
PollFailsUnlessBusy ==
    /\ pc = "poll"
    /\ cmd.busy => polls + 1 = MaxPolls
    /\ ~cmd.busy => cmd.fail
    /\ IF cmd.busy THEN NextByte ELSE ByteFailed
    /\ UNCHANGED <<polls, buf, device, history>>

PollFails ==
    /\ pc = "poll"
    /\ IF cmd.busy THEN polls + 1 = MaxPolls ELSE cmd.fail
    /\ ByteFailed
    /\ UNCHANGED <<polls, buf, device, history>>

PollWritten ==
    /\ pc = "poll"
    /\ Writes(job)
    /\ ~cmd.busy /\ ~cmd.fail
    /\ NextByte
    /\ UNCHANGED <<polls, buf, device, history>>

PollRead ==
    /\ pc = "poll"
    /\ ~Writes(job)
    /\ ~cmd.busy /\ ~cmd.fail
    /\ pc' = "takeData"
    /\ UNCHANGED <<job, at, attempt, polls, said, buf, device, history>>

\* Mutant: the low byte of 0x218 is taken.
TakeDataLow ==
    /\ pc = "takeData"
    /\ buf' = Append(buf, dat.out)
    /\ NextByte
    /\ UNCHANGED <<polls, device, history>>

TakeData ==
    /\ pc = "takeData"
    /\ buf' = Append(buf, dat.in)
    /\ NextByte
    /\ UNCHANGED <<polls, device, history>>

\* A register cannot be read in ten rounds, or the user stops the process.
ProcessEnds ==
    /\ pc \notin {"idle", "exited"}
    /\ pc' = "exited"
    /\ UNCHANGED <<job, at, attempt, polls, said, buf, device, history>>

Restart ==
    /\ pc = "exited"
    /\ pc' = "idle"
    /\ UNCHANGED <<job, at, attempt, polls, said, buf, device, history>>
-----------------------------------------------------------------------------
\* The size of the EEPROM has been detected, by reading it.
Init ==
    /\ pc = "idle"
    /\ job = [kind |-> "show", first |-> 0, last |-> 0, src |-> Running]
    /\ at = 0
    /\ attempt = 0
    /\ polls = 0
    /\ said = "none"
    /\ buf = <<>>
    /\ eeprom \in [Addrs -> Bytes]
    /\ \E a \in Addrs, v \in Bytes :
          /\ dat = [out |-> v, in |-> eeprom[a]]
          /\ cmd = [addr |-> a, read |-> TRUE, busy |-> FALSE, fail |-> FALSE, val |-> v]
    /\ before = eeprom
    /\ leftover = NoAddr
    /\ aliased = FALSE
    /\ warned = FALSE

Command ==
    \/ WriteMemory \/ CopyFile \/ CopyEeprom
    \/ SetIdentity("mac") \/ SetIdentity("vendor")
    \/ \E a \in Addrs : ShowByte(a) \/ \E v \in Bytes : SetByte(a, v)

InJob ==
    \/ SendData \/ SendCommand
    \/ PollBusy \/ PollFails \/ PollWritten \/ PollRead \/ TakeData

Controller == ControllerSucceeds \/ ControllerFails

Next == Command \/ InJob \/ Controller \/ ProcessEnds \/ Restart

Spec == Init /\ [][Next]_vars
-----------------------------------------------------------------------------
(***************************************************************************)
(* Properties                                                              *)
(***************************************************************************)
\* The variables hold values of their kinds.
TypeOK ==
    /\ pc \in {"idle", "sendData", "sendCommand", "poll", "takeData", "exited"}
    /\ job \in Jobs
    /\ at \in 0 .. NumBytes
    /\ attempt \in 0 .. Tries(job) - 1
    /\ polls \in 0 .. MaxPolls - 1
    /\ said \in {"none", "done", "error"}
    /\ buf \in Seq(Bytes)
    /\ cmd \in Commands
    /\ dat \in [out : Bytes, in : Bytes]
    /\ eeprom \in [Addrs -> Bytes]
    /\ before \in [Addrs -> Bytes]
    /\ leftover \in Addrs \cup {NoAddr}
    /\ aliased \in BOOLEAN
    /\ warned \in BOOLEAN

\* The bytes the job has reported written, or passed without an error.
Reported == {Place(job, n) : n \in job.first .. UnitStart(job, at) - 1}

\* A byte reported written is in the EEPROM, and stays there for the rest of
\* the job, whatever was retried, gave up or was cut short around it: unless
\* the job printed "can't set register", or began with the very command that
\* the register 0x217 held already.
ReportedBytesStored ==
    Writes(job) /\ ~warned /\ ~aliased =>
        \A a \in Reported : eeprom[a] = job.src[a]

\* A job writes the bytes it has come to and no others, and a job that reads
\* writes none: where it stops, or the process ends, the rest of the EEPROM
\* is what it was, but for the byte an earlier job left in the making.
OnlyReachedBytesChange ==
    \A a \in Addrs \ {leftover} :
        eeprom[a] # before[a] =>
            /\ Writes(job)
            /\ \E n \in job.first .. job.last : a = Place(job, n) /\ UnitStart(job, n) <= at

\* The bytes read, for a file or for the screen, are those the EEPROM holds,
\* unless the job printed "can't set register".
ReadBytesTrue ==
    ~warned => \A i \in 1 .. Len(buf) : buf[i] = eeprom[job.first + i - 1]

\* "EEPROM register 0x%04x is now set to 0x%02x": the byte is in the EEPROM,
\* unless the call printed that it could not set a register.
SetByteStored ==
    job.kind = "set" /\ said = "done" /\ ~warned => eeprom[job.first] = job.src[job.first]
=============================================================================
