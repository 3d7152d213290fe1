------------------------- MODULE RegisterService -------------------------
(***************************************************************************)
(* What the register calls of rrcp_io.c promise to the tools built on      *)
(* them: while one tool owns the switch, a read returns what the register  *)
(* holds when the read returns, a write that returns silently has reached  *)
(* the register, and a write that reports "can't set register" has not.    *)
(* The process may also end inside a call.  A write of the self-clearing   *)
(* register 0 promises nothing but that the reset may come at any later    *)
(* moment.                                                                 *)
(***************************************************************************)
CONSTANTS
    Readable,   \* the registers that hold a value
    Writable,   \* those whose write mask is not empty
    ResetReg,   \* register 0, self-clearing
    Vals,       \* the values of registers
    BootRegs,   \* what a reboot loads from the EEPROM
    NoVal       \* no value: the operand of a read

VARIABLES
    reg,        \* reg[r]: what register r of the switch holds
    phase,      \* "idle", "busy" in a call, or "ended"
    op,         \* the call being made
    ret,        \* what the last finished call gave its caller
    resetAsked  \* a reset has been requested, so one may still come

avars == <<reg, phase, op, ret, resetAsked>>

Calls == [kind : {"Read"}, reg : Readable, val : {NoVal}]
             \cup [kind : {"Set"}, reg : Readable \cup {ResetReg}, val : Vals]

NoCall == [kind |-> "none", reg |-> ResetReg, val |-> NoVal]

SInit ==
    /\ reg \in [Readable -> Vals]
    /\ phase = "idle"
    /\ op = NoCall
    /\ ret = "none"
    /\ resetAsked = FALSE

SCall ==
    /\ phase = "idle"
    /\ phase' = "busy"
    /\ op' \in Calls
    /\ ret' = "none"
    /\ UNCHANGED <<reg, resetAsked>>

\* A request to write a register takes effect while its call lasts, or
\* after a process that ended without waiting for it.
SWrite ==
    /\ phase # "idle"
    /\ op.kind = "Set"
    /\ op.reg \in Writable
    /\ reg' = [reg EXCEPT ![op.reg] = op.val]
    /\ UNCHANGED <<phase, op, ret, resetAsked>>

SAskReset ==
    /\ phase = "busy"
    /\ op.kind = "Set"
    /\ op.reg = ResetReg
    /\ phase' = "idle"
    /\ op' = NoCall
    /\ ret' = "sent"
    /\ resetAsked' = TRUE
    /\ UNCHANGED reg

SReset ==
    /\ resetAsked
    /\ reg' = BootRegs
    /\ UNCHANGED <<phase, op, ret, resetAsked>>

SReturn(outcome) ==
    /\ phase = "busy"
    /\ phase' = "idle"
    /\ op' = NoCall
    /\ ret' = outcome
    /\ UNCHANGED <<reg, resetAsked>>

SReturnRead ==
    /\ op.kind = "Read"
    /\ SReturn(reg[op.reg])

SReturnSet ==
    /\ op.kind = "Set"
    /\ op.reg \in Writable => reg[op.reg] = op.val
    /\ SReturn("set")

SReturnFailed ==
    /\ op.kind = "Set"
    /\ op.reg \in Writable
    /\ reg[op.reg] # op.val
    /\ SReturn("failed")

SEnd ==
    /\ phase = "busy"
    /\ phase' = "ended"
    /\ UNCHANGED <<reg, op, ret, resetAsked>>

SNext ==
    \/ SCall \/ SWrite \/ SAskReset \/ SReset
    \/ SReturnRead \/ SReturnSet \/ SReturnFailed \/ SEnd

SSpec == SInit /\ [][SNext]_avars
=============================================================================
