----------------------------- MODULE MacCapture -----------------------------
(***************************************************************************)
(* "rtl83xx capture interface <ports> mac-address": do_capture_mac_address *)
(* turns learning off on the ports, so that the switch hands out the       *)
(* addresses it sees, reads them for a while, and puts back the registers  *)
(* it changed as it had read them.  SIGHUP, SIGINT and SIGTERM only cut it *)
(* short while their handler is installed; before and after that, and on   *)
(* the alarm, the process dies where it is.                                *)
(***************************************************************************)
EXTENDS ToolSessions

Learning == Reads("alt_config") \o Reads("alt_mask")
Restoring == Writes("alt_config") \o Writes("alt_mask")

\* Fast aging, and learning off on the ports listed but the one that faces
\* this host, and on no other.  The second word is left out after a signal.
CaptureEdit(ports, facing) ==
    Flags({"mac_aging_disable"}, 0) ++ Flags({"mac_aging_fast"}, 1)
      ++ [f \in {Port("alt_mask", q) : q \in PhysPorts} |->
             IF f[3] \in ports \ {facing} THEN 1 ELSE 0]

CaptureSetup ==
    Writes("alt_config")
      \o [n \in 1 .. Parts("alt_mask") |->
             <<IF n = 1 THEN "write" ELSE "writeUnlessBreak", <<"alt_mask", 0, n - 1>>>>]

StartCapture(a) ==
    /\ Is(a, "capture")
    /\ \E c \in sitting[a].commands, facing \in PhysPorts :
        Begin(a, c, Job(Learning \o CaptureSetup,
                        CaptureEdit({Phys[l] : l \in c.ports}, facing)), "setup")
    /\ UNCHANGED key

Broken(a) == "break" \in notes[a]

\* The handlers are installed after the last read and taken away before the
\* first register is put back.
Handled(a) ==
    /\ Is(a, "capture")
    /\ Running(a)
    /\ \/ stage[a] = "setup" /\ ~AtOp(a, "read")
       \/ stage[a] \in {"reset", "loop"}

Signal(a) ==
    /\ Handled(a)
    /\ ~Broken(a)
    /\ notes' = [notes EXCEPT ![a] = @ \cup {"break"}]
    /\ UNCHANGED <<sharedVars, sitting, cmd, given, stage>>

SetSecondWord(a) ==
    /\ AtOp(a, "writeUnlessBreak")
    /\ todo' = [todo EXCEPT ![a] = (IF Broken(a) THEN <<>> ELSE <<<<"write", OpReg(a)>>>>)
                                       \o Tail(@)]
    /\ UNCHANGED <<hw, status, copy, edit, key, lost, foreign, toolVars>>

\* Four reads clear what the switch had captured before.
BeginReset(a) ==
    /\ stage[a] = "setup"
    /\ Is(a, "capture") /\ Running(a) /\ todo[a] = <<>>
    /\ stage' = [stage EXCEPT ![a] = "reset"]
    /\ todo' = [todo EXCEPT ![a] = [n \in 1 .. 4 |-> <<"clear", n>>]]
    /\ UNCHANGED <<hw, status, copy, edit, key, lost, foreign, sitting, cmd, given, notes>>

\* Mutant: the second word of the mask is left out after a signal, as it is
\* when learning is turned off.
RestoreFirstWord(a) ==
    /\ stage' = [stage EXCEPT ![a] = "restore"]
    /\ edit' = [edit EXCEPT ![a] = [f \in DOMAIN @ |-> copy[a][f]]]
    /\ todo' = [todo EXCEPT ![a] = IF Broken(a) THEN SubSeq(Restoring, 1, 2) ELSE Restoring]
    /\ UNCHANGED <<hw, status, copy, key, lost, foreign, sitting, cmd, given, notes>>

Restore(a) ==
    /\ stage' = [stage EXCEPT ![a] = "restore"]
    /\ edit' = [edit EXCEPT ![a] = [f \in DOMAIN @ |-> copy[a][f]]]
    /\ todo' = [todo EXCEPT ![a] = Restoring]
    /\ UNCHANGED <<hw, status, copy, key, lost, foreign, sitting, cmd, given, notes>>

ClearCaptured(a) ==
    /\ AtOp(a, "clear")
    /\ \/ Broken(a) /\ Restore(a)
       \/ /\ ~Broken(a)
          /\ Advance(a)
          /\ stage' = [stage EXCEPT ![a] = IF todo'[a] = <<>> THEN "loop" ELSE "reset"]
          /\ UNCHANGED <<hw, status, copy, edit, key, lost, foreign,
                         sitting, cmd, given, notes>>

\* The time is up, the table is full, or a signal came.
StopCapturing(a) == Running(a) /\ stage[a] = "loop" /\ Restore(a)

FinishCapture(a) ==
    /\ Running(a)
    /\ stage[a] = "restore"
    /\ todo[a] = <<>>
    /\ Exit(a, "done")

Capture(a) ==
    \/ StartCapture(a)
    \/ Signal(a)
    \/ SetSecondWord(a)
    \/ BeginReset(a)
    \/ ClearCaptured(a)
    \/ StopCapturing(a)
    \/ FinishCapture(a)

-----------------------------------------------------------------------------
\* A capture that comes to its end, interrupted or not, has left the
\* registers it changed as it found them: unless a SET was lost, and but for
\* what another process has changed since it put them back.
LearningRestored == \A a \in Actor :
    (Is(a, "capture") /\ Running(a) /\ stage[a] = "restore" /\ todo[a] = <<>> /\ ~lost[a]) =>
        \A n \in 1 .. Len(Learning) : \A f \in FieldsIn[Learning[n][2]] :
            hw[f] = copy[a][f] \/ f \in foreign[a]
=============================================================================
