------------------------------ MODULE Detection ------------------------------
(***************************************************************************)
(* rrcp_autodetect_switch_chip_eeprom, which rrcpcli runs when it starts   *)
(* and rtl83xx for "detect" and "show version".  The number of ports comes *)
(* from a PHY that only some chips have, the size of the EEPROM from the   *)
(* place where its first bytes come again or can not be read, the chip     *)
(* from register 0x218, which rtl8326 has not.  Any of the reads may fail  *)
(* for no reason of the switch: that is a fault.                           *)
(***************************************************************************)
EXTENDS ToolSessions

CONSTANT IdBytes   \* bytes of MAC and IDs compared (12)

Places == 1 .. 4   \* offsets 0x80, 0x100, 0x200 and 0x400

\* The entries of switchtypes that detection can name: the ports and the vendor
\* IDs of each, those of 7 and 8 by the comments of their cases, and the sizes
\* of EEPROM those cases ask of such a switch.  The other entries have nothing
\* that tells them apart.
SwitchTypes == [t \in {0, 1, 4, 7, 8, 9, 10} |->
    CASE t = 0 -> [ports |-> 26, vendors |-> {"other"}, sizes |-> 0 .. 5]
      [] t = 1 -> [ports |-> 16, vendors |-> {"other"}, sizes |-> 0 .. 5]
      [] t = 4 -> [ports |-> 24, vendors |-> {"other"}, sizes |-> 0 .. 5]
      [] t = 7 -> [ports |-> 24, vendors |-> {"7002"}, sizes |-> {3}]
      [] t = 8 -> [ports |-> 16, vendors |-> {"7001"}, sizes |-> {3, 4}]
      [] t = 9 -> [ports |-> 16, vendors |-> {"7003", "7004"}, sizes |-> {3, 4}]
      [] t = 10 -> [ports |-> 16, vendors |-> {"7005"}, sizes |-> {4}]]

\* A switch to detect.  type is its entry in switchtypes; size counts the types
\* from EEPROM_NONE, leaving out EEPROM_WRITEPROTECTED; same[i] says how many of
\* the bytes at place i begin like the MAC and IDs although the EEPROM reaches
\* there; beyond, whether a read past its end wraps around or fails; echoes, how
\* many of the four test values 0x218 gives back.
Chip(type, size, same, beyond, echoes, vendor, chip) ==
    [word |-> "detect", type |-> type, ports |-> SwitchTypes[type].ports, size |-> size,
     same |-> same, beyond |-> beyond, echoes |-> echoes, vendor |-> vendor, chip |-> chip]

NoEeprom == 0
Eeprom2404 == 3
Eeprom2408 == 4
Eeprom2416 == 5

\* The switches there are: those of 26 ports, and no others, lack 0x218.
IsChip(c) ==
    /\ c.type \in DOMAIN SwitchTypes
    /\ c.ports = SwitchTypes[c.type].ports
    /\ c.size \in SwitchTypes[c.type].sizes
    /\ c.vendor \in SwitchTypes[c.type].vendors
    /\ c.vendor = "7005" => c.chip = "000c"
    /\ \A i \in Places : c.same[i] \in 0 .. IdBytes
    /\ c.echoes \in 0 .. 4
    /\ c.echoes = 4 <=> c.ports # 26

ASSUME DetectionAssumption ==
    /\ IdBytes \in Nat \ {0}
    /\ \A s \in Sittings, a \in Actor :
          s[a].tool = "detect" => \A c \in s[a].commands : IsChip(c)

StartDetection(a) ==
    /\ Is(a, "detect")
    /\ \E c \in sitting[a].commands : Begin(a, c, Job(<<<<"phy", 3>>>>, Keep), "detect")
    /\ UNCHANGED key

AtStep(a, kind) == AtOp(a, kind) /\ Reaches(a)
Learnt(a, what) == CHOOSE v \in 0 .. 26 : <<what, v>> \in notes[a]
Errors(a) == <<"errcnt", 1>> \in notes[a]
Faulty(a) == <<"fault", 1>> \in notes[a]

\* What comes next, and what has been learnt.
NextSteps(a, ops, learnt) ==
    /\ todo' = [todo EXCEPT ![a] = ops]
    /\ notes' = [notes EXCEPT ![a] = @ \cup learnt]
    /\ UNCHANGED <<hw, status, copy, edit, key, lost, foreign, sitting, cmd, given, stage>>

Fault == <<"fault", 1>>
Echoes == [n \in 1 .. 4 |-> <<"echo", n>>]
Ids == [j \in 1 .. IdBytes |-> <<"id", j>>]
Compare(i) == [j \in 1 .. IdBytes |-> <<"compare", i, j>>]
Sized(s) == <<"size", s>>

\* rrcp_autodetectswitch_port_count.  A PHY that does not answer is taken
\* for one of the 26 ports of rtl8326, where no EEPROM is looked for.
CountPorts(a) ==
    /\ AtStep(a, "phy")
    /\ \/ /\ cmd[a].ports # 26
          /\ NextSteps(a, Ids, {<<"ports", cmd[a].ports>>})
       \/ NextSteps(a, Echoes, {<<"ports", 26>>, Sized(NoEeprom)}
                                   \cup IF cmd[a].ports = 26 THEN {} ELSE {Fault})

\* A byte of the MAC and the IDs; when one fails there is no EEPROM.
ReadId(a) ==
    /\ AtStep(a, "id")
    /\ \/ /\ cmd[a].size # NoEeprom
          /\ NextSteps(a, IF Tail(todo[a]) = <<>> THEN Compare(1) ELSE Tail(todo[a]), {})
       \/ NextSteps(a, Echoes, {Sized(NoEeprom), <<"errcnt", 1>>}
                                   \cup IF cmd[a].size = NoEeprom THEN {} ELSE {Fault})

Reached(c, i) == i < c.size
ReadFails(c, i) == ~Reached(c, i) /\ c.beyond = "fails"
IsSame(c, i, j) == ~Reached(c, i) \/ j <= c.same[i]

PastEnd(a, i, learnt) == NextSteps(a, Echoes, {Sized(i)} \cup learnt)
NextPlace(a, i, learnt) ==
    IF i + 1 \in Places THEN NextSteps(a, Compare(i + 1), learnt)
    ELSE NextSteps(a, Echoes, {Sized(Eeprom2416)} \cup learnt)

\* Mutant: only bytes that come again show the end.
Unreadable(a, i, learnt) == NextPlace(a, i, learnt)
EndsUnread(a, i, learnt) == PastEnd(a, i, learnt)

\* A byte at a place that may be past the end.  One that differs shows that
\* the EEPROM reaches there; if all are the same, or one can not be read,
\* it ends before.
CompareByte(a) ==
    LET c == cmd[a]
        i == Head(todo[a])[2]
        j == Head(todo[a])[3]
    IN  /\ AtStep(a, "compare")
        /\ \/ /\ ~ReadFails(c, i) /\ IsSame(c, i, j)
              /\ IF j < IdBytes THEN NextSteps(a, Tail(todo[a]), {}) ELSE PastEnd(a, i, {})
           \/ /\ ~ReadFails(c, i) /\ ~IsSame(c, i, j)
              /\ NextPlace(a, i, {})
           \/ EndsUnread(a, i, IF ReadFails(c, i) THEN {} ELSE {Fault})

\* A test value is written to 0x218 and read back; 0x218 is put back after
\* the last value, or the first that is not found again.
TestEcho(a) ==
    LET n == Head(todo[a])[2]
    IN  /\ AtStep(a, "echo")
        /\ \/ n <= cmd[a].echoes /\ NextSteps(a, Tail(todo[a]), {})
           \/ NextSteps(a, <<>>, {<<"errcnt", 1>>}
                                     \cup IF n > cmd[a].echoes THEN {} ELSE {Fault})

\* The number of the switch in switchtypes, by its chip and then its vendor.
\* errcnt is that of 0x218, or still that of the MAC and the IDs.
Generic(err, ports) == IF err THEN 0 ELSE IF ports = 16 THEN 1 ELSE 4

Product(c, size, generic) ==
    CASE c.vendor = "7002" /\ size = Eeprom2404 -> 7
      [] c.vendor = "7001" /\ size \in {Eeprom2404, Eeprom2408} -> 8
      [] c.vendor = "7004" /\ size \in {Eeprom2404, Eeprom2408} -> 9
      [] c.vendor = "7005" /\ c.chip = "000c" /\ size = Eeprom2408 -> 10
      [] OTHER -> generic

Decide(a) ==
    /\ Is(a, "detect")
    /\ Reaches(a)
    /\ stage[a] = "detect"
    /\ todo[a] = <<>>
    /\ stage' = [stage EXCEPT ![a] = "detected"]
    /\ notes' = [notes EXCEPT ![a] = @ \cup
            {<<"type", Product(cmd[a], Learnt(a, "size"), Generic(Errors(a), Learnt(a, "ports")))>>}]
    /\ UNCHANGED <<sharedVars, sitting, cmd, given>>

FinishDetection(a) ==
    /\ Running(a)
    /\ stage[a] = "detected"
    /\ Exit(a, "done")

DetectRun(a) ==
    \/ StartDetection(a)
    \/ CountPorts(a)
    \/ ReadId(a)
    \/ CompareByte(a)
    \/ TestEcho(a)
    \/ Decide(a)
    \/ FinishDetection(a)

-----------------------------------------------------------------------------
\* Bytes that are the same at a place inside the EEPROM, as in one never
\* written, make it look smaller.
Blank(c) == \E i \in Places : Reached(c, i) /\ c.same[i] = IdBytes

\* No EEPROM is looked for behind the chip of 26 ports.
TrueSize(c) == IF c.ports = 26 THEN NoEeprom ELSE c.size

\* The switches that the code does not name as the comments and the table say:
\* without EEPROM, where errcnt of step 2 still counts though step 3 finds 0x218,
\* and with the first vendor ID of entry 9, which has no case.
Misnamed(c) == (c.ports # 26 /\ c.size = NoEeprom) \/ c.vendor = "7003"

\* Detection never takes the EEPROM for a larger one, whatever fails; when
\* nothing fails and the EEPROM is not blank it is right about the size, and
\* gives the switch its own entry of switchtypes unless it is misnamed.
DetectionTrue == \A a \in Actor :
    (Is(a, "detect") /\ stage[a] = "detected") =>
        /\ Learnt(a, "size") <= cmd[a].size
        /\ (~Faulty(a) /\ ~Blank(cmd[a])) =>
               /\ Learnt(a, "size") = TrueSize(cmd[a])
               /\ ~Misnamed(cmd[a]) => Learnt(a, "type") = cmd[a].type
=============================================================================
