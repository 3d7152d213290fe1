----------------------------- MODULE LoopDetect -----------------------------
(***************************************************************************)
(* The CPU firmware of contrib/fsd1600firmware: its boot, its polling      *)
(* loop, which turns off the ports the chip sees a loop on                 *)
(* (loopback_detection) and turns them on again, one a poll, after         *)
(* LOOPBACK_RECOVER_TIME_S without a loop, the RRCP jumper looked at in    *)
(* every pass, and its two ways to boot again: a write of the MAC          *)
(* registers (check_mac), and SCK or SDA low where the firmware has let    *)
(* them go, in any access to a register or in the wait between two polls   *)
(* (wait_half_period0, wait_ms_timer).                                     *)
(*                                                                         *)
(* The firmware reaches the registers over that two-wire bus, while hosts  *)
(* write the same registers over RRCP: a host may write between any read   *)
(* and the write that follows it.  An access that is not broken off is     *)
(* acknowledged by the chip.                                               *)
(***************************************************************************)
EXTENDS Naturals

CONSTANTS
    NumPorts,   \* 16
    Wait,       \* LOOPBACK_RECOVER_TIME_S*1000/POLLING_INTERVAL_MS - 1, 119
    Modulus,    \* 2^32, values of the countdown
    Excluded,   \* ports the EEPROM keeps from loop detection
    EepromOff,  \* ports the EEPROM's copy of 0x608 disables
    EepromDown, \* ports whose PHY the EEPROM powers down
    EepromCtl   \* the EEPROM's copy of 0x200

Ports == 0 .. NumPorts - 1

\* Bits 0 and 2 of 0x200: RRCP is off; the chip looks for loops.
CtlBits == {"noRrcp", "loopFn"}

ASSUME LoopAssumption ==
    /\ NumPorts \in Nat \ {0}
    /\ Wait \in Nat \ {0}
    /\ Modulus \in Nat
    /\ Modulus > Wait
    /\ Excluded \subseteq Ports
    /\ EepromOff \subseteq Ports
    /\ EepromDown \subseteq Ports
    /\ EepromCtl \subseteq CtlBits

VARIABLES
    pc,        \* where the firmware is in main
    todo,      \* ports still to turn off
    port,      \* the port at hand
    val,       \* local val of port_disable and port_enable
    tmp,       \* local tmp of the two functions that rewrite 0x200
    enabled,   \* loopback_detection_enabled
    disabled,  \* loopback_disabled_ports
    left,      \* loopback_left_to_recover
    off,       \* 0x608: the ports disabled
    down,      \* the ports whose PHY is powered down
    ctl,       \* 0x200
    seen,      \* 0x101: the ports the chip sees a loop on
    mac,       \* 0x203-0x205 are not all zero
    rrcpOn,    \* jumper 6 is set
    quiet,     \* history: polls without a loop since a port of the record
               \* was turned off
    touched    \* history: ports whose bit of 0x608 a host has changed since
               \* the firmware last wrote it

locals == <<todo, port, val, tmp>>
statics == <<enabled, disabled, left>>
chip == <<off, down, ctl, seen, mac>>
history == <<quiet, touched>>
vars == <<pc, locals, statics, chip, rrcpOn, history>>

Forget == todo' = {} /\ port' = 0 /\ val' = {} /\ tmp' = {}
Restarted == [p \in Ports |-> 0]

(***************************************************************************)
(* The chip, the hosts and the jumper                                      *)
(***************************************************************************)
\* A loop is seen on a port that is on, and is forgotten some time after the
\* loop is gone or the port is off.
ChipSeesLoop(p) ==
    /\ "loopFn" \in ctl
    /\ p \notin off \cup down \cup seen
    /\ seen' = seen \cup {p}
    /\ UNCHANGED <<pc, locals, statics, off, down, ctl, mac, rrcpOn, history>>

ChipForgetsLoop(p) ==
    /\ p \in seen
    /\ seen' = seen \ {p}
    /\ UNCHANGED <<pc, locals, statics, off, down, ctl, mac, rrcpOn, history>>

HostsHeard == "noRrcp" \notin ctl

\* A host writes the whole of 0x608, as "shutdown" and "no shutdown" do.
HostWrites(ports) ==
    /\ HostsHeard
    /\ off' = ports
    /\ touched' = touched \cup (off \ ports) \cup (ports \ off)
    /\ UNCHANGED <<pc, locals, statics, down, ctl, seen, mac, rrcpOn, quiet>>

HostWritesCtl(bits) ==
    /\ HostsHeard
    /\ ctl' = bits
    /\ UNCHANGED <<pc, locals, statics, off, down, seen, mac, rrcpOn, history>>

HostWritesMac ==
    /\ HostsHeard
    /\ ~mac
    /\ mac' = TRUE
    /\ UNCHANGED <<pc, locals, statics, off, down, ctl, seen, rrcpOn, history>>

MoveJumper ==
    /\ rrcpOn' = ~rrcpOn
    /\ UNCHANGED <<pc, locals, statics, chip, history>>

(***************************************************************************)
(* Boot                                                                    *)
(***************************************************************************)
Start == "start"

\* 800 ms without a look at the bus.
StartBus ==
    /\ pc = Start
    /\ pc' = "load"
    /\ UNCHANGED <<locals, statics, chip, rrcpOn, history>>

\* load_eeprom_config, up to 0x608.
LoadPorts ==
    /\ pc = "load"
    /\ off' = EepromOff
    /\ touched' = {}
    /\ pc' = "loadCtl"
    /\ UNCHANGED <<locals, statics, down, ctl, seen, mac, rrcpOn, quiet>>

\* 0x200 is the last of its table.
LoadCtl ==
    /\ pc = "loadCtl"
    /\ ctl' = EepromCtl
    /\ pc' = "loadPhys"
    /\ UNCHANGED <<locals, statics, off, down, seen, mac, rrcpOn, history>>

\* load_port_powerdown_register, whose failures nobody looks at.  Then
\* init_standart_jumpers and init_counter_types, of other registers.
LoadPhys ==
    /\ pc = "loadPhys"
    /\ \E obeying \in SUBSET EepromDown : down' = down \cup obeying
    /\ pc' = "loopInit"
    /\ UNCHANGED <<locals, statics, off, ctl, seen, mac, rrcpOn, history>>

\* init_loopback_detection looks at jumper 7 and reads 0x200.
LoopInit ==
    /\ pc = "loopInit"
    /\ enabled' \in BOOLEAN
    /\ IF enabled' /\ "loopFn" \notin ctl
       THEN tmp' = ctl /\ pc' = "loopFn"
       ELSE UNCHANGED tmp /\ pc' = "clear"
    /\ UNCHANGED <<todo, port, val, disabled, left, chip, rrcpOn, history>>

WriteLoopFn ==
    /\ pc = "loopFn"
    /\ ctl' = tmp \cup {"loopFn"}
    /\ pc' = "clear"
    /\ UNCHANGED <<locals, statics, off, down, seen, mac, rrcpOn, history>>

\* Mutant: the record of before the boot is kept.
ClearKeepsRecord ==
    /\ pc = "clear"
    /\ Forget
    /\ pc' = "findBroken"
    /\ UNCHANGED <<statics, chip, rrcpOn, history>>

\* The record is cleared, but not the countdown.
Clear ==
    /\ pc = "clear"
    /\ disabled' = {}
    /\ quiet' = Restarted
    /\ Forget
    /\ pc' = "findBroken"
    /\ UNCHANGED <<enabled, left, chip, rrcpOn, touched>>

\* port_tester takes ports that do not answer for broken, none of them when
\* jumper 8 is not set.
FindBroken ==
    /\ pc = "findBroken"
    /\ todo' \in SUBSET Ports
    /\ pc' = "test"
    /\ UNCHANGED <<port, val, tmp, statics, chip, rrcpOn, history>>

(***************************************************************************)
(* port_disable and phy_port_power_down, called by port_tester ("test",    *)
(* "testWrite", "testDown") and by loopback_detection                      *)
(***************************************************************************)
Lowest(p, ports) == \A q \in ports : p <= q

DisableRead(at, next) ==
    /\ pc = at
    /\ \E p \in todo : Lowest(p, todo) /\ port' = p /\ todo' = todo \ {p}
    /\ val' = off
    /\ pc' = next
    /\ UNCHANGED <<tmp, statics, chip, rrcpOn, history>>

\* Mutant: the other ports' bits are not kept.
DisableWriteOnly(at, next) ==
    /\ pc = at
    /\ off' = {port}
    /\ touched' = touched \ {port}
    /\ pc' = next
    /\ UNCHANGED <<locals, statics, down, ctl, seen, mac, rrcpOn, quiet>>

DisableWrite(at, next) ==
    /\ pc = at
    /\ off' = val \cup {port}
    /\ touched' = touched \ {port}
    /\ pc' = next
    /\ UNCHANGED <<locals, statics, down, ctl, seen, mac, rrcpOn, quiet>>

\* Its failure nobody looks at.
PowerDown(at, next) ==
    /\ pc = at
    /\ down' \in {down, down \cup {port}}
    /\ pc' = next
    /\ UNCHANGED <<locals, statics, off, ctl, seen, mac, rrcpOn, history>>

DisableEnd(at, next) ==
    /\ pc = at
    /\ todo = {}
    /\ Forget
    /\ pc' = next
    /\ UNCHANGED <<statics, chip, rrcpOn, history>>

(***************************************************************************)
(* loopback_detection: a loop                                              *)
(***************************************************************************)
PollOff ==
    /\ pc = "poll"
    /\ ~enabled
    /\ pc' = "jumper"
    /\ UNCHANGED <<locals, statics, chip, rrcpOn, history>>

PollLoop ==
    /\ pc = "poll"
    /\ enabled
    /\ seen # {}
    /\ pc' = "status"
    /\ UNCHANGED <<locals, statics, chip, rrcpOn, history>>

\* 0x101 is read after 0x102, and the chip may have changed its mind.
ReadStatus ==
    /\ pc = "status"
    /\ todo' = seen \ Excluded
    /\ pc' = "disable"
    /\ UNCHANGED <<port, val, tmp, statics, chip, rrcpOn, history>>

\* Mutant: only the first port starts the countdown.
RecordFirst ==
    /\ pc = "record"
    /\ disabled' = disabled \cup {port}
    /\ left' = IF disabled = {} THEN Wait ELSE left
    /\ quiet' = [quiet EXCEPT ![port] = 0]
    /\ pc' = "disable"
    /\ UNCHANGED <<locals, enabled, chip, rrcpOn, touched>>

Record ==
    /\ pc = "record"
    /\ disabled' = disabled \cup {port}
    /\ left' = Wait
    /\ quiet' = [quiet EXCEPT ![port] = 0]
    /\ pc' = "disable"
    /\ UNCHANGED <<locals, enabled, chip, rrcpOn, touched>>

(***************************************************************************)
(* loopback_detection: no loop                                             *)
(***************************************************************************)
\* Mutant: the countdown stops at 1.
DecrementStops(n) == IF n > 1 THEN n - 1 ELSE n

\* --n of an unsigned long.
Decrement(n) == IF n = 0 THEN Modulus - 1 ELSE n - 1

\* --loopback_left_to_recover == 0 picks the lowest port of the record.
PollQuiet ==
    /\ pc = "poll"
    /\ enabled
    /\ seen = {}
    /\ quiet' = [p \in Ports |-> IF p \in disabled /\ quiet[p] < Wait
                                 THEN quiet[p] + 1 ELSE quiet[p]]
    /\ left' = IF disabled = {} THEN left ELSE Decrement(left)
    /\ IF disabled # {} /\ left' = 0
       THEN /\ \E p \in disabled : Lowest(p, disabled) /\ port' = p
            /\ pc' = "powerUp"
       ELSE UNCHANGED port /\ pc' = "jumper"
    /\ UNCHANGED <<todo, val, tmp, enabled, disabled, chip, rrcpOn, touched>>

\* phy_port_power_up, whose failure nobody looks at.
PowerUp ==
    /\ pc = "powerUp"
    /\ down' \in {down, down \ {port}}
    /\ pc' = "enableRead"
    /\ UNCHANGED <<locals, statics, off, ctl, seen, mac, rrcpOn, history>>

EnableRead ==
    /\ pc = "enableRead"
    /\ val' = off
    /\ pc' = "enableWrite"
    /\ UNCHANGED <<todo, port, tmp, statics, chip, rrcpOn, history>>

EnableWrite ==
    /\ pc = "enableWrite"
    /\ off' = val \ {port}
    /\ pc' = "enabled"
    /\ UNCHANGED <<locals, statics, down, ctl, seen, mac, rrcpOn, history>>

\* The next port, if any, is due at the next poll.
EnableEnd ==
    /\ pc = "enabled"
    /\ disabled' = disabled \ {port}
    /\ left' = 1
    /\ quiet' = [quiet EXCEPT ![port] = 0]
    /\ Forget
    /\ pc' = "jumper"
    /\ UNCHANGED <<enabled, chip, rrcpOn, touched>>

(***************************************************************************)
(* The rest of the main loop                                               *)
(***************************************************************************)
\* Mutant: RRCP is only ever turned on.
JumperReadOn ==
    /\ pc = "jumper"
    /\ IF rrcpOn /\ ~HostsHeard
       THEN tmp' = ctl /\ pc' = "jumperWrite"
       ELSE UNCHANGED tmp /\ pc' = "mac"
    /\ UNCHANGED <<todo, port, val, statics, chip, rrcpOn, history>>

\* init_rrcp_enable_jumper: 0x200 is read, and rewritten when bit 0 is not
\* what the jumper says.
JumperRead ==
    /\ pc = "jumper"
    /\ IF rrcpOn # HostsHeard
       THEN tmp' = ctl /\ pc' = "jumperWrite"
       ELSE UNCHANGED tmp /\ pc' = "mac"
    /\ UNCHANGED <<todo, port, val, statics, chip, rrcpOn, history>>

JumperWrite ==
    /\ pc = "jumperWrite"
    /\ ctl' = IF "noRrcp" \in tmp THEN tmp \ {"noRrcp"} ELSE tmp \cup {"noRrcp"}
    /\ Forget
    /\ pc' = "mac"
    /\ UNCHANGED <<statics, off, down, seen, mac, rrcpOn, history>>

CheckMac ==
    /\ pc = "mac"
    /\ ~mac
    /\ pc' = "wait"
    /\ UNCHANGED <<locals, statics, chip, rrcpOn, history>>

\* wait_ms_timer to the end of POLLING_INTERVAL_MS.
Rest ==
    /\ pc = "wait"
    /\ pc' = "poll"
    /\ UNCHANGED <<locals, statics, chip, rrcpOn, history>>

\* check_mac resets the chip, with its PHYs or without them, and boots again.
\* What a reset leaves in the registers is overwritten, so anything will do.
Reboot ==
    /\ pc = "mac"
    /\ mac
    /\ mac' = FALSE
    /\ off' \in SUBSET Ports
    /\ ctl' \in SUBSET CtlBits
    /\ down' \in {down, {}}
    /\ seen' = {}
    /\ Forget
    /\ pc' = Start
    /\ UNCHANGED <<statics, rrcpOn, history>>

\* SCK or SDA is low where it should be high: longjmp(reboot, 0), with the
\* chip and the statics as they are.
Glitch ==
    /\ pc # Start
    /\ Forget
    /\ pc' = Start
    /\ UNCHANGED <<statics, chip, rrcpOn, history>>
-----------------------------------------------------------------------------
Init ==
    /\ pc = Start
    /\ todo = {} /\ port = 0 /\ val = {} /\ tmp = {}
    /\ enabled = FALSE
    /\ disabled = {}
    /\ left = 0
    /\ off = {}
    /\ down = {}
    /\ ctl = {}
    /\ seen = {}
    /\ mac = FALSE
    /\ rrcpOn \in BOOLEAN
    /\ quiet = Restarted
    /\ touched = {}

Boot ==
    \/ StartBus \/ LoadPorts \/ LoadCtl \/ LoadPhys
    \/ LoopInit \/ WriteLoopFn \/ Clear
    \/ FindBroken
    \/ DisableRead("test", "testWrite")
    \/ DisableWrite("testWrite", "testDown")
    \/ PowerDown("testDown", "test")
    \/ DisableEnd("test", "poll")

DetectLoops ==
    \/ PollOff \/ PollLoop \/ ReadStatus
    \/ DisableRead("disable", "disableWrite")
    \/ DisableWrite("disableWrite", "powerDown")
    \/ PowerDown("powerDown", "record")
    \/ Record
    \/ DisableEnd("disable", "jumper")
    \/ PollQuiet \/ PowerUp \/ EnableRead \/ EnableWrite \/ EnableEnd

Firmware ==
    \/ Boot
    \/ DetectLoops
    \/ JumperRead \/ JumperWrite \/ CheckMac \/ Reboot \/ Rest

Environment ==
    \/ \E p \in Ports : ChipSeesLoop(p) \/ ChipForgetsLoop(p)
    \/ \E ports \in SUBSET Ports : HostWrites(ports)
    \/ \E bits \in SUBSET CtlBits : HostWritesCtl(bits)
    \/ HostWritesMac
    \/ MoveJumper
    \/ Glitch

Next == Firmware \/ Environment

Spec == Init /\ [][Next]_vars

\* The firmware runs; nothing is assumed of the rest.
FairSpec == Spec /\ WF_vars(Firmware)
-----------------------------------------------------------------------------
(***************************************************************************)
(* Properties                                                              *)
(***************************************************************************)
Booting == pc \in {Start, "load", "loadCtl", "loadPhys", "loopInit", "loopFn", "clear"}

Testing == pc \in {"findBroken", "test", "testWrite", "testDown"}

\* The variables hold values of their kinds; the countdown never wraps below 0,
\* although a reboot in the middle of a recovery leaves it at 0.
TypeOK ==
    /\ \/ Booting \/ Testing
       \/ pc \in {"poll", "status", "disable", "disableWrite", "powerDown", "record",
                  "powerUp", "enableRead", "enableWrite", "enabled",
                  "jumper", "jumperWrite", "mac", "wait"}
    /\ todo \subseteq Ports
    /\ port \in Ports
    /\ val \subseteq Ports
    /\ tmp \subseteq CtlBits
    /\ enabled \in BOOLEAN
    /\ disabled \subseteq Ports
    /\ left \in 0 .. Wait
    /\ off \subseteq Ports
    /\ down \subseteq Ports
    /\ ctl \subseteq CtlBits
    /\ seen \subseteq Ports
    /\ mac \in BOOLEAN
    /\ rrcpOn \in BOOLEAN
    /\ quiet \in [Ports -> 0 .. Wait]
    /\ touched \subseteq Ports

Recovering == pc \in {"powerUp", "enableRead", "enableWrite", "enabled"}

\* But for a boot, which loads 0x608 from the EEPROM, a port is turned on again
\* only after the whole recovery time without a loop since it was turned off,
\* although one countdown serves all ports, is restarted by each, cut to 1
\* after each recovery and left as it is by a reboot at any point.
NoEarlyRecovery == Recovering => quiet[port] = Wait

\* Outside a boot, a port in the record is disabled in the chip, however many
\* ports are turned off and on around it, and wherever the firmware was when it
\* booted again, unless a host has changed its bit: no read-modify-write of
\* 0x608 loses it, and no record outlives the boot that turns its ports on.
RecordedIsOff ==
    ~Booting => disabled \ (touched \cup (IF pc = "enabled" THEN {port} ELSE {})) \subseteq off

\* Once the chip sees no loop any more and the bus is no longer disturbed,
\* every port turned off for a loop is taken out of the record again.
RecordEmpties ==
    <>[](seen = {}) /\ <>[][~Glitch]_vars => <>[](disabled = {})

\* What may turn RRCP on or off besides the polling of the jumper.
Disturbance ==
    \/ Glitch \/ MoveJumper \/ HostWritesMac
    \/ \E bits \in SUBSET CtlBits : HostWritesCtl(bits)

\* Once the jumper stays where it is, nobody writes 0x200 and nothing boots
\* the firmware, RRCP is as the jumper says, whatever the EEPROM and hosts
\* have said before.
RrcpFollowsJumper ==
    <>[][~Disturbance]_vars => <>[](rrcpOn = HostsHeard)
=============================================================================
