---------------------------- MODULE SharedSwitch ----------------------------
(***************************************************************************)
(* Several tools at work on one switch.  Each works on a copy of the       *)
(* registers it has read and writes whole registers back from its copy;    *)
(* nothing keeps two tools apart.  This module has the accesses: a read, a *)
(* write, a SET that is lost (rtl83xx_setreg16 then prints "can't set      *)
(* register" and the tool goes on), and the end of a process inside a      *)
(* call, when no answer comes or a signal kills it.  The switch answers    *)
(* only a tool that has its authkey.  RrcpIo shows what one call does.     *)
(***************************************************************************)
EXTENDS SwitchRegs

CONSTANT Actor    \* the processes

VARIABLES
    hw,       \* hw[f]: field f in the switch
    status,   \* "idle" before a process starts, "running", "done", "ended" inside a call
    todo,     \* the accesses it has yet to make
    copy,     \* its copy of the fields: swconfig, or the variables of a command
    edit,     \* the fields it has set in its copy, with their values
    key,      \* its authkey
    lost,     \* history: a SET of its was lost
    foreign   \* history: fields others changed since it last read or wrote them

sharedVars == <<hw, status, todo, copy, edit, key, lost, foreign>>

Running(a) == status[a] = "running"
Reaches(a) == Running(a) /\ key[a] = hw[Flag("authkey")]

AtOp(a, kind) == Running(a) /\ todo[a] # <<>> /\ Head(todo[a])[1] = kind
OpReg(a) == Head(todo[a])[2]
Advance(a) == todo' = [todo EXCEPT ![a] = Tail(@)]

\* What it would write to a field.
Value(a, f) == IF f \in DOMAIN edit[a] THEN edit[a][f] ELSE copy[a][f]

\* Mutant: what the command does not set goes back to the value of a reset.
WrittenFresh(a, r) ==
    LET reset == Booted(0)
    IN [f \in Field |-> IF f \notin FieldsIn[r] THEN hw[f]
                        ELSE IF f \in DOMAIN edit[a] THEN edit[a][f] ELSE reset[f]]

Written(a, r) == [f \in Field |-> IF f \in FieldsIn[r] THEN Value(a, f) ELSE hw[f]]

\* Everybody else who is at work now has an older value of what changes.
Overtake(a, new, seen) ==
    foreign' = [b \in Actor |->
        IF b = a THEN foreign[b] \ seen
        ELSE IF Running(b) THEN foreign[b] \cup {f \in Field : new[f] # hw[f]}
        ELSE foreign[b]]

\* The copy takes what a register holds.
Take(a, r) ==
    /\ copy' = [copy EXCEPT ![a] =
                  [f \in Field |-> IF f \in FieldsIn[r] THEN hw[f] ELSE @[f]]]
    /\ Overtake(a, hw, FieldsIn[r])

\* rtl83xx_readreg16.
ReadReg(a) ==
    /\ AtOp(a, "read")
    /\ Reaches(a)
    /\ Take(a, OpReg(a))
    /\ Advance(a)
    /\ UNCHANGED <<hw, status, key, lost>>

\* Some commands write only what they have changed.
Unchanged(a) == \A f \in FieldsIn[OpReg(a)] : Value(a, f) = copy[a][f]

AtWrite(a) ==
    \/ AtOp(a, "write")
    \/ AtOp(a, "writeIfChanged") /\ ~Unchanged(a)

\* rtl83xx_setreg16.  Setting the authkey goes on with the new one.
WriteReg(a) ==
    /\ AtWrite(a)
    /\ Reaches(a)
    /\ hw' = Written(a, OpReg(a))
    /\ Overtake(a, hw', FieldsIn[OpReg(a)])
    /\ key' = [key EXCEPT ![a] = hw'[Flag("authkey")]]
    /\ Advance(a)
    /\ UNCHANGED <<status, copy, edit, lost>>

\* The SET is lost three times and the old value read back.  One process
\* loses one SET: this bounds the runs.  A SET of the authkey that is lost
\* ends the process, for it is read back with the new one.
LoseWrite(a) ==
    /\ AtWrite(a)
    /\ OpReg(a)[1] # "authkey"
    /\ Reaches(a)
    /\ \A b \in Actor : ~lost[b]
    /\ lost' = [lost EXCEPT ![a] = TRUE]
    /\ Advance(a)
    /\ UNCHANGED <<hw, status, copy, edit, key, foreign>>

SkipWrite(a) ==
    /\ AtOp(a, "writeIfChanged")
    /\ Unchanged(a)
    /\ Advance(a)
    /\ UNCHANGED <<hw, status, copy, edit, key, lost, foreign>>

\* The process is gone, and what it knew with it.
Leave(a, how) ==
    /\ status' = [status EXCEPT ![a] = how]
    /\ todo' = [todo EXCEPT ![a] = <<>>]
    /\ copy' = [copy EXCEPT ![a] = [f \in Field |-> Unread]]
    /\ edit' = [edit EXCEPT ![a] = <<>>]
    /\ key' = [key EXCEPT ![a] = DefaultKey]
    /\ lost' = [lost EXCEPT ![a] = FALSE]
    /\ foreign' = [foreign EXCEPT ![a] = {}]
    /\ UNCHANGED hw

SharedInit(initial) ==
    /\ hw \in initial
    /\ status = [a \in Actor |-> "idle"]
    /\ todo = [a \in Actor |-> <<>>]
    /\ copy = [a \in Actor |-> [f \in Field |-> Unread]]
    /\ edit = [a \in Actor |-> <<>>]
    /\ key = [a \in Actor |-> DefaultKey]
    /\ lost = [a \in Actor |-> FALSE]
    /\ foreign = [a \in Actor |-> {}]
=============================================================================
