------------------------------ MODULE RrcpIo ------------------------------
(***************************************************************************)
(* Register access over RRCP: the client half of rrcp_io.c                 *)
(* (rtl83xx_readreg32_, rtl83xx_readreg32, rtl83xx_setreg32), the frames   *)
(* in flight, and the switch as the client's code takes it to behave.      *)
(*                                                                         *)
(* The wire keeps the order of the frames of one direction and loses any   *)
(* of them; a full buffer drops what is sent to it; a request may be       *)
(* delivered again.  A frame may stay in flight for longer than the        *)
(* client's deadline, so answers can be late.                              *)
(***************************************************************************)
EXTENDS Naturals, Sequences

CONSTANTS
    PlainRegs,   \* ordinary registers, written under a mask that is not empty
    RoRegs,      \* registers get_register_mask gives write mask 0
    AuthReg,     \* register 0x209, the authentication key
    ResetReg,    \* register 0, self-clearing
    Vals,        \* values of registers, the keys among them
    NoVal,       \* stands where a frame or a call has no value
    BootRegs,    \* the registers as the EEPROM loads them
    Cookies,     \* pairs of cookies
    NoCookie,
    ReadTries,   \* rounds of rtl83xx_readreg32 (10 in the code)
    SetTries,    \* rounds of rtl83xx_setreg32 (3 in the code)
    WireCap,     \* frames one direction of the wire holds
    SendErrors   \* TRUE: sendto can fail three times in a row

Writable == PlainRegs \cup {AuthReg}
Readable == Writable \cup RoRegs
Regs == Readable \cup {ResetReg}

ASSUME RegsAssumption ==
    /\ AuthReg \notin PlainRegs \cup RoRegs
    /\ ResetReg \notin Writable \cup RoRegs
    /\ PlainRegs \cap RoRegs = {}
ASSUME ValsAssumption ==
    /\ NoVal \notin Vals
    /\ BootRegs \in [Readable -> Vals]
    /\ NoCookie \notin Cookies
ASSUME BoundsAssumption ==
    /\ ReadTries \in Nat \ {0}
    /\ SetTries \in Nat \ {0}
    /\ WireCap \in Nat \ {0}
    /\ SendErrors \in BOOLEAN

VARIABLES
    pc,          \* where the client is
    op,          \* the call it makes, or the last it made
    cnt,         \* failed rounds of the current rtl83xx_setreg32
    tries,       \* failed rounds of the current rtl83xx_readreg32
    cookie,      \* the cookies of the GET waited for
    authkey,     \* the global the frames are stamped with
    prevAuth,    \* local prev_auth of rtl83xx_setreg32
    setKey,      \* the key in the SET frame, stamped once at entry
    ret,         \* what the last finished call gave
    status,      \* what the last rtl83xx_readreg32_ returned
    message,     \* what the process said when it ended
    resetAsked,  \* history: some SET of register 0 was sent
    reg,         \* the switch's registers
    toSwitch,    \* requests in flight
    toClient     \* answers in flight

clientVars == <<pc, op, cnt, tries, cookie, authkey, prevAuth, setKey,
                ret, status, message, resetAsked>>
vars == <<pc, op, cnt, tries, cookie, authkey, prevAuth, setKey,
          ret, status, message, resetAsked, reg, toSwitch, toClient>>

Calls == [kind : {"Read"}, reg : Readable, val : {NoVal}]
             \cup [kind : {"Set"}, reg : Regs, val : Vals]
NoCall == [kind |-> "none", reg |-> ResetReg, val |-> NoVal]

Requests == [kind : {"GET"}, reg : Readable, val : {NoVal},
             key : Vals, cookie : Cookies]
                \cup [kind : {"SET"}, reg : Regs, val : Vals,
                      key : Vals, cookie : {NoCookie}]
Replies == [reg : Readable, val : Vals, key : Vals, cookie : Cookies]

(***************************************************************************)
(* The wire                                                                *)
(***************************************************************************)
\* A buffer with a frame more, unless it is full.
Put(wire, m) == IF Len(wire) < WireCap THEN Append(wire, m) ELSE wire

InFlight(c) ==
    \/ \E i \in 1 .. Len(toSwitch) : toSwitch[i].cookie = c
    \/ \E i \in 1 .. Len(toClient) : toClient[i].cookie = c

LoseRequest ==
    /\ toSwitch # <<>>
    /\ toSwitch' = Tail(toSwitch)
    /\ UNCHANGED <<clientVars, reg, toClient>>

LoseReply ==
    /\ toClient # <<>>
    /\ toClient' = Tail(toClient)
    /\ UNCHANGED <<clientVars, reg, toSwitch>>

(***************************************************************************)
(* The switch                                                              *)
(***************************************************************************)
\* It drops a frame stamped with a key that is not its own.
Authentic(m) == m.key = reg[AuthReg]

\* The frame is consumed, or will be delivered once more.
TakeRequest == toSwitch' \in {toSwitch, Tail(toSwitch)}

SwitchIgnores ==
    /\ toSwitch # <<>>
    /\ ~Authentic(Head(toSwitch))
    /\ toSwitch' = Tail(toSwitch)
    /\ UNCHANGED <<clientVars, reg, toClient>>

SwitchGet ==
    /\ toSwitch # <<>>
    /\ Head(toSwitch).kind = "GET"
    /\ Authentic(Head(toSwitch))
    /\ LET m == Head(toSwitch)
       IN  toClient' = Put(toClient, [reg |-> m.reg, val |-> reg[m.reg],
                                      key |-> m.key, cookie |-> m.cookie])
    /\ TakeRequest
    /\ UNCHANGED <<clientVars, reg>>

SwitchSet ==
    /\ toSwitch # <<>>
    /\ Head(toSwitch).kind = "SET"
    /\ Head(toSwitch).reg # ResetReg
    /\ Authentic(Head(toSwitch))
    /\ reg' = IF Head(toSwitch).reg \in Writable
              THEN [reg EXCEPT ![Head(toSwitch).reg] = Head(toSwitch).val]
              ELSE reg
    /\ TakeRequest
    /\ UNCHANGED <<clientVars, toClient>>

\* A hard reset reloads the registers, a soft one keeps them.
SwitchReset ==
    /\ toSwitch # <<>>
    /\ Head(toSwitch).kind = "SET"
    /\ Head(toSwitch).reg = ResetReg
    /\ Authentic(Head(toSwitch))
    /\ reg' \in {reg, BootRegs}
    /\ TakeRequest
    /\ UNCHANGED <<clientVars, toClient>>

(***************************************************************************)
(* The client: entering a call                                             *)
(***************************************************************************)
CallRead(r) ==
    /\ pc = "idle"
    /\ op' = [kind |-> "Read", reg |-> r, val |-> NoVal]
    /\ pc' = "sendGet"
    /\ ret' = "none"
    /\ status' = 0
    /\ UNCHANGED <<cnt, tries, cookie, authkey, prevAuth, setKey, message,
                   resetAsked, reg, toSwitch, toClient>>

\* The SET frame is built here, once: its retransmissions keep this key.
CallSet(r, v) ==
    /\ pc = "idle"
    /\ op' = [kind |-> "Set", reg |-> r, val |-> v]
    /\ pc' = "sendSet"
    /\ setKey' = authkey
    /\ ret' = "none"
    /\ status' = 0
    /\ UNCHANGED <<cnt, tries, cookie, authkey, prevAuth, message,
                   resetAsked, reg, toSwitch, toClient>>

\* The call returns, and its locals are gone.
Return(outcome) ==
    /\ pc' = "idle"
    /\ ret' = outcome
    /\ op' = NoCall
    /\ cnt' = 0
    /\ tries' = 0
    /\ prevAuth' = NoVal
    /\ setKey' = NoVal

Exit(said) ==
    /\ pc' = "ended"
    /\ message' = said

(***************************************************************************)
(* The client: rtl83xx_setreg32                                            *)
(***************************************************************************)
SetFrame == [kind |-> "SET", reg |-> op.reg, val |-> op.val,
             key |-> setKey, cookie |-> NoCookie]

\* Mutant: the call returns once the frame is sent, with no read-back.
SendSetUnverified ==
    /\ pc = "sendSet"
    /\ op.reg # ResetReg
    /\ toSwitch' = Put(toSwitch, SetFrame)
    /\ authkey' = IF op.reg = AuthReg THEN op.val ELSE authkey
    /\ Return("set")
    /\ UNCHANGED <<cookie, status, message, resetAsked, reg, toClient>>

\* sock_send, then the read-back; register 0 is not read back, and 0x209 is
\* read back under the key it has just been given.
SendSet ==
    /\ pc = "sendSet"
    /\ op.reg # ResetReg
    /\ toSwitch' = Put(toSwitch, SetFrame)
    /\ IF op.reg = AuthReg
       THEN prevAuth' = authkey /\ authkey' = op.val
       ELSE UNCHANGED <<prevAuth, authkey>>
    /\ pc' = "sendGet"
    /\ UNCHANGED <<op, cnt, tries, cookie, setKey, ret, status, message, resetAsked,
                   reg, toClient>>

SendReset ==
    /\ pc = "sendSet"
    /\ op.reg = ResetReg
    /\ toSwitch' = Put(toSwitch, SetFrame)
    /\ resetAsked' = TRUE
    /\ Return("sent")
    /\ UNCHANGED <<cookie, authkey, status, message, reg, toClient>>

SendSetFails ==
    /\ SendErrors
    /\ pc = "sendSet"
    /\ Exit("can't sendto!")
    /\ UNCHANGED <<op, cnt, tries, cookie, authkey, prevAuth, setKey, ret, status,
                   resetAsked, reg, toSwitch, toClient>>

\* The bits of a value that get_register_mask lets a caller set.
Masked(r, v) == IF r \in Writable THEN v ELSE NoVal

(***************************************************************************)
(* What rtl83xx_readreg32 does with the value v it is about to return: the *)
(* value goes to the tool, or to the comparison in rtl83xx_setreg32, or to *)
(* the final printf of rtl83xx_setreg32.                                   *)
(***************************************************************************)
Reporting == op.kind = "Set" /\ cnt = SetTries
Verifying == op.kind = "Set" /\ cnt < SetTries

ReadGives(v) ==
    \/ /\ op.kind = "Read"
       /\ Return(v)
       /\ UNCHANGED authkey
    \/ /\ Verifying
       /\ Masked(op.reg, v) = Masked(op.reg, op.val)
       /\ Return("set")
       /\ UNCHANGED authkey
    \/ /\ Verifying
       /\ Masked(op.reg, v) # Masked(op.reg, op.val)
       /\ authkey' = IF op.reg = AuthReg THEN prevAuth ELSE authkey
       /\ cnt' = cnt + 1
       /\ tries' = 0
       /\ pc' = IF cnt + 1 < SetTries THEN "sendSet" ELSE "sendGet"
       /\ UNCHANGED <<op, ret, prevAuth, setKey>>
    \/ /\ Reporting
       /\ Return("failed")
       /\ UNCHANGED authkey

(***************************************************************************)
(* The client: rtl83xx_readreg32_ inside the loop of rtl83xx_readreg32     *)
(***************************************************************************)
\* Every round makes a new frame, with cookies no frame in flight has.
SendGet ==
    /\ pc = "sendGet"
    /\ \E c \in Cookies :
          /\ ~InFlight(c)
          /\ cookie' = c
          /\ toSwitch' = Put(toSwitch, [kind |-> "GET", reg |-> op.reg, val |-> NoVal,
                                        key |-> authkey, cookie |-> c])
    /\ pc' = "wait"
    /\ UNCHANGED <<op, cnt, tries, authkey, prevAuth, setKey, ret, status, message,
                   resetAsked, reg, toClient>>

\* Status 1 leaves the loop with res = 0: the caller gets the local that
\* nothing has assigned, which is any value.
SendGetFails ==
    /\ SendErrors
    /\ pc = "sendGet"
    /\ status' = 1
    /\ \E garbage \in Vals : ReadGives(garbage)
    /\ UNCHANGED <<cookie, message, resetAsked, reg, toSwitch, toClient>>

\* Mutant: any answer about the register will do, the cookies are not compared.
ExpectedByRegister(m) ==
    /\ m.key = authkey
    /\ m.reg = op.reg

Expected(m) ==
    /\ m.key = authkey
    /\ m.reg = op.reg
    /\ m.cookie = cookie

ReceiveAnswer ==
    /\ pc = "wait"
    /\ toClient # <<>>
    /\ Expected(Head(toClient))
    /\ toClient' = Tail(toClient)
    /\ status' = 0
    /\ cookie' = NoCookie
    /\ ReadGives(Head(toClient).val)
    /\ UNCHANGED <<message, resetAsked, reg, toSwitch>>

ReceiveOther ==
    /\ pc = "wait"
    /\ toClient # <<>>
    /\ ~Expected(Head(toClient))
    /\ toClient' = Tail(toClient)
    /\ UNCHANGED <<clientVars, reg, toSwitch>>

\* Mutant: one round too many.
ReadTimesOutLate ==
    /\ pc = "wait"
    /\ status' = 2
    /\ tries' = tries + 1
    /\ cookie' = NoCookie
    /\ IF tries + 1 <= ReadTries
       THEN pc' = "sendGet" /\ UNCHANGED message
       ELSE Exit("Can't send")
    /\ UNCHANGED <<op, cnt, authkey, prevAuth, setKey, ret, resetAsked,
                   reg, toSwitch, toClient>>

\* Mutant: the rounds are not counted.
ReadTimesOutForever ==
    /\ pc = "wait"
    /\ status' = 2
    /\ cookie' = NoCookie
    /\ pc' = "sendGet"
    /\ UNCHANGED <<op, cnt, tries, authkey, prevAuth, setKey, ret, message, resetAsked,
                   reg, toSwitch, toClient>>

\* The deadline passes, or a signal interrupts the wait.  The last round
\* leaves res = 1, which is taken for a failed send.
ReadTimesOut ==
    /\ pc = "wait"
    /\ status' = 2
    /\ tries' = tries + 1
    /\ cookie' = NoCookie
    /\ IF tries + 1 < ReadTries
       THEN pc' = "sendGet" /\ UNCHANGED message
       ELSE Exit("Can't send")
    /\ UNCHANGED <<op, cnt, authkey, prevAuth, setKey, ret, resetAsked,
                   reg, toSwitch, toClient>>

-----------------------------------------------------------------------------
Init ==
    /\ pc = "idle"
    /\ op = NoCall
    /\ cnt = 0
    /\ tries = 0
    /\ cookie = NoCookie
    /\ reg \in [Readable -> Vals]
    /\ authkey = reg[AuthReg]
    /\ prevAuth = NoVal
    /\ setKey = NoVal
    /\ ret = "none"
    /\ status = 0
    /\ message = "none"
    /\ resetAsked = FALSE
    /\ toSwitch = <<>>
    /\ toClient = <<>>

Call ==
    \/ \E r \in Readable : CallRead(r)
    \/ \E r \in Regs, v \in Vals : CallSet(r, v)

InCall ==
    \/ SendSet \/ SendReset \/ SendSetFails
    \/ SendGet \/ SendGetFails
    \/ ReceiveAnswer \/ ReceiveOther \/ ReadTimesOut

Client == Call \/ InCall
Switch == SwitchIgnores \/ SwitchGet \/ SwitchSet \/ SwitchReset
Wire == LoseRequest \/ LoseReply

Next == Client \/ Switch \/ Wire

Spec == Init /\ [][Next]_vars

\* The process runs, and its clock passes every deadline; nothing is
\* assumed of the wire or of the switch.
FairSpec == Spec /\ WF_vars(SendSet \/ SendReset \/ SendGet) /\ WF_vars(ReadTimesOut)
-----------------------------------------------------------------------------
(***************************************************************************)
(* Properties                                                              *)
(***************************************************************************)
\* The variables hold values of their kinds.
TypeOK ==
    /\ pc \in {"idle", "sendSet", "sendGet", "wait", "ended"}
    /\ op \in Calls \cup {NoCall}
    /\ cnt \in 0 .. SetTries
    /\ tries \in 0 .. ReadTries
    /\ cookie \in Cookies \cup {NoCookie}
    /\ authkey \in Vals
    /\ prevAuth \in Vals \cup {NoVal}
    /\ setKey \in Vals \cup {NoVal}
    /\ ret \in Vals \cup {"none", "sent", "set", "failed"}
    /\ status \in {0, 1, 2}
    /\ message \in {"none", "Can't send", "can't sendto!"}
    /\ resetAsked \in BOOLEAN
    /\ reg \in [Readable -> Vals]
    /\ toSwitch \in Seq(Requests)
    /\ toClient \in Seq(Replies)

\* When rtl83xx_setreg32 or rtl83xx_readreg32 has returned, no SET that it
\* sent, first or repeated, is still on the wire: it cannot undo what a later
\* call writes.  Only a request to reset is not waited for.
NoLateWrite ==
    pc = "idle" =>
        \A i \in 1 .. Len(toSwitch) :
            toSwitch[i].kind = "SET" => toSwitch[i].reg = ResetReg

\* Between calls the global authkey is the key of the switch, whatever
\* frames of the key changes in rtl83xx_setreg32 were lost, late or repeated;
\* until a reset is asked for, which may bring back the EEPROM's key.
KeyAgreement ==
    pc = "idle" /\ ~resetAsked => authkey = reg[AuthReg]

\* The calls of rrcp_io.c implement the abstract register service: values
\* read are those the registers hold, writes reported done are done, writes
\* reported failed are not.
Phase == CASE pc = "idle"  -> "idle"
           [] pc = "ended" -> "ended"
           [] OTHER        -> "busy"

Service == INSTANCE RegisterService WITH phase <- Phase
ServiceSpec == Service!SSpec

\* A call returns or ends the process, however many frames are lost and
\* however long the switch keeps silent.
EveryCallEnds == (pc # "idle") ~> (pc \in {"idle", "ended"})

\* What rrcp_io.c says of the result of a read: status 1 is a send error,
\* and only it ends the process with "Can't send"; a value is given to the
\* caller only with status 0.
ReadOutcome ==
    /\ pc = "ended" /\ message = "Can't send" => status = 1
    /\ pc = "idle" /\ ret \in Vals => status = 0
=============================================================================
