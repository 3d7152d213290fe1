------------------------------ MODULE CheckRrcp ------------------------------
(***************************************************************************)
(* The check_rrcp plug-in.  It reads registers and gives a verdict: OK,    *)
(* WARNING, or CRITICAL when the switch does not answer or the alarm goes  *)
(* off; its handler jumps out of whatever call is being made.  A read that *)
(* fails does not end the process, unless it is inside rtl83xx_setreg16.   *)
(* With -A, a switch that answers only the default authkey is given the    *)
(* authkey of the command line.                                            *)
(***************************************************************************)
EXTENDS ToolSessions

CONSTANT Moving   \* the loop_found and link fields that change by themselves

\* What the options ask: the authkey, whether to restore it, what to look at.
Check(authkey, update, loop, vlan, dot1q, up) ==
    [word |-> "check_rrcp", authkey |-> authkey, update |-> update,
     loop |-> loop, vlan |-> vlan, dot1q |-> dot1q, up |-> up]

\* The fields a tool never writes.
StatusFields == {Flag("loop_found")} \cup {Port("link", q) : q \in PhysPorts}

ASSUME CheckAssumption ==
    /\ Moving \subseteq StatusFields
    /\ \A h \in InitialHw : \A f \in StatusFields : h[f] \in {0, 1}
    /\ \A s \in Sittings, a \in Actor :
          s[a].tool = "check_rrcp" =>
              \A c \in s[a].commands : c.up \subseteq 1 .. NumPorts /\ c.authkey \in Nat

Try(name) == All("try", name, 0)

CheckOps(c) == (IF c.loop THEN Try("rrcp_config") ELSE <<>>)
                 \o (IF c.vlan \/ c.dot1q THEN Try("vlan") ELSE <<>>)
                 \o (IF c.up # {} THEN Try("link") ELSE <<>>)

StartCheck(a) ==
    /\ Is(a, "check_rrcp")
    /\ \E c \in sitting[a].commands :
        /\ Begin(a, c, Job(Try("loop_status"), Keep), "hello")
        /\ key' = [key EXCEPT ![a] = c.authkey]

Saw(a, f) == copy'[a][f]
Note(a, what) == notes' = [notes EXCEPT ![a] = @ \cup {what}]
GoOn(a, s, ops) == /\ stage' = [stage EXCEPT ![a] = s]
                   /\ todo' = [todo EXCEPT ![a] = ops]

\* The switch answers: first of all, or to the default authkey, or to the
\* one it has been given.
HelloAnswered(a) ==
    /\ AtOp(a, "try")
    /\ Reaches(a)
    /\ Take(a, OpReg(a))
    /\ \/ /\ stage[a] = "hello"
          /\ GoOn(a, "checks", CheckOps(cmd[a]))
          /\ UNCHANGED <<edit, notes>>
       \/ /\ stage[a] = "default"
          /\ GoOn(a, "setkey", Writes("authkey"))
          /\ edit' = [edit EXCEPT ![a] = Flags({"authkey"}, cmd[a].authkey)]
          /\ UNCHANGED notes
       \/ /\ stage[a] = "again"
          /\ GoOn(a, "checks", CheckOps(cmd[a]))
          /\ Note(a, "changed")
          /\ UNCHANGED edit
    /\ UNCHANGED <<hw, status, key, lost, sitting, cmd, given>>

\* The SET came back; one that is lost ends the process inside the call.
UseNewKey(a) ==
    /\ Running(a)
    /\ stage[a] = "setkey"
    /\ todo[a] = <<>>
    /\ key' = [key EXCEPT ![a] = cmd[a].authkey]
    /\ GoOn(a, "again", Try("loop_status"))
    /\ UNCHANGED <<hw, status, copy, edit, lost, foreign, sitting, cmd, given, notes>>

Quit(a, verdict) == GoOn(a, verdict, <<>>)

HelloFails(a) ==
    /\ AtOp(a, "try")
    /\ stage[a] \in {"hello", "default", "again"}
    /\ IF stage[a] = "hello" /\ cmd[a].update /\ cmd[a].authkey # DefaultKey
       THEN /\ key' = [key EXCEPT ![a] = DefaultKey]
            /\ GoOn(a, "default", todo[a])
       ELSE Quit(a, "CRITICAL") /\ UNCHANGED key
    /\ UNCHANGED <<hw, status, copy, edit, lost, foreign, sitting, cmd, given, notes>>

\* The ports in the loop are asked for only when there is one.
CheckAnswered(a) ==
    /\ AtOp(a, "try")
    /\ stage[a] = "checks"
    /\ Reaches(a)
    /\ Take(a, OpReg(a))
    /\ todo' = [todo EXCEPT ![a] =
                  (IF /\ OpReg(a)[1] = "rrcp_config"
                      /\ Saw(a, Flag("loop_enable")) = 1
                      /\ Saw(a, Flag("loop_found")) = 1
                   THEN Try("loop_ports") ELSE <<>>) \o Tail(@)]
    /\ UNCHANGED <<hw, status, edit, key, lost, toolVars>>

\* Mutant: what cannot be read is passed over.
CheckFailsUnnoted(a) ==
    /\ AtOp(a, "try")
    /\ stage[a] = "checks"
    /\ todo' = [todo EXCEPT ![a] = IF OpReg(a)[1] = "link" THEN <<>> ELSE Tail(@)]
    /\ UNCHANGED <<hw, status, copy, edit, key, lost, foreign, sitting, cmd, given, stage, notes>>

\* A register that cannot be read is noted; the ports are given up there.
CheckFails(a) ==
    /\ AtOp(a, "try")
    /\ stage[a] = "checks"
    /\ Note(a, OpReg(a)[1])
    /\ todo' = [todo EXCEPT ![a] = IF OpReg(a)[1] = "link" THEN <<>> ELSE Tail(@)]
    /\ UNCHANGED <<hw, status, copy, edit, key, lost, foreign, sitting, cmd, given, stage>>

Has(a, name) == copy[a][Flag(name)] = 1

\* "loop on port(s)" and "can not get loop status" are both warnings.
LoopWarning(a) == cmd[a].loop /\ (\/ "rrcp_config" \in notes[a]
                                  \/ ~Has(a, "loop_enable")
                                  \/ Has(a, "loop_found"))
VlanWarning(a) == (cmd[a].vlan \/ cmd[a].dot1q)
                     /\ (\/ "vlan" \in notes[a]
                         \/ ~Has(a, "enable")
                         \/ cmd[a].dot1q /\ ~Has(a, "dot1q"))
PortsWarning(a) == cmd[a].up # {}
                     /\ (\/ "link" \in notes[a]
                         \/ \E l \in cmd[a].up : copy[a][Port("link", Phys[l])] = 0)

Conclude(a) ==
    /\ Running(a)
    /\ stage[a] = "checks"
    /\ todo[a] = <<>>
    /\ Quit(a, IF "changed" \in notes[a] \/ LoopWarning(a) \/ VlanWarning(a) \/ PortsWarning(a)
               THEN "WARNING" ELSE "OK")
    /\ UNCHANGED <<hw, status, copy, edit, key, lost, foreign, sitting, cmd, given, notes>>

Verdicts == {"OK", "WARNING", "CRITICAL"}

\* SIGALRM or SIGINT, at any point before the last register is read.
Alarm(a) ==
    /\ Is(a, "check_rrcp")
    /\ Running(a)
    /\ stage[a] \notin Verdicts
    /\ stage[a] = "checks" => todo[a] # <<>>
    /\ Quit(a, "CRITICAL")
    /\ UNCHANGED <<hw, status, copy, edit, key, lost, foreign, sitting, cmd, given, notes>>

ExitCheck(a) ==
    /\ Running(a)
    /\ stage[a] \in Verdicts
    /\ Exit(a, "done")

CheckRun(a) ==
    \/ StartCheck(a)
    \/ HelloAnswered(a)
    \/ HelloFails(a)
    \/ UseNewKey(a)
    \/ CheckAnswered(a)
    \/ CheckFails(a)
    \/ Conclude(a)
    \/ Alarm(a)
    \/ ExitCheck(a)

\* Cables are plugged and loops made and found while a check looks; once
\* each between two looks, for the same again changes nothing.
Wire(f) ==
    /\ f \in Moving
    /\ \E a \in Actor : Is(a, "check_rrcp") /\ Running(a) /\ f \notin foreign[a]
    /\ hw' = [hw EXCEPT ![f] = Not(@)]
    /\ foreign' = [b \in Actor |-> IF Running(b) THEN foreign[b] \cup {f} ELSE foreign[b]]
    /\ UNCHANGED <<status, todo, copy, edit, key, lost, toolVars>>

-----------------------------------------------------------------------------
Required(c) ==
    (IF c.loop THEN {<<Flag("loop_enable"), 1>>, <<Flag("loop_found"), 0>>} ELSE {})
      \cup (IF c.vlan \/ c.dot1q THEN {<<Flag("enable"), 1>>} ELSE {})
      \cup (IF c.dot1q THEN {<<Flag("dot1q"), 1>>} ELSE {})
      \cup {<<Port("link", Phys[l]), 1>> : l \in c.up}
      \cup {<<Flag("authkey"), c.authkey>>}

\* OK means that the switch is as the options ask, in everything they name,
\* but for what has changed since it was looked at; and that this run has
\* not changed the authkey.
VerdictTrue == \A a \in Actor :
    (Is(a, "check_rrcp") /\ Running(a) /\ stage[a] = "OK") =>
        /\ \A w \in Required(cmd[a]) : hw[w[1]] = w[2] \/ w[1] \in foreign[a]
        /\ DOMAIN edit[a] = {}
=============================================================================
