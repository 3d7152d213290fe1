# Verification of OpenRRCP

OpenRRCP configures cheap Ethernet switches with Realtek RTL83xx chips. There is no IP
stack in such a switch: a tool on a host sends raw Ethernet frames (RRCP) that read or
write one of the chip's 16-bit registers, and everything else, from VLANs to a saved
configuration, is built from reads and writes of registers. This directory holds TLA+
models of that system, TLC runs over small instances and TLAPS proofs for all instances.

## The system

| part | source | state it keeps | operations | modelled in |
|---|---|---|---|---|
| register access | `src/rrcp_io.c`, `src/rrcp_packet.c` | global `authkey`, locals of the calls, frames in flight | `rtl83xx_readreg32_`, `rtl83xx_readreg32`, `rtl83xx_setreg32`, `sock_send_`, `sock_send` | `RrcpIo`, `RegisterService`, `RrcpIoProof` |
| VLANs of rrcpcli | `src/rrcp_config.c`, `src/rrcp_cli_cmd_config*.c` | the VLAN fields of `swconfig`, read once at start | `vlan dot1q`, `vlan portbased`, `no vlan [list]`, the `switchport` commands, the commit | `VlanConfig`, `VlanConfigProof` |
| EEPROM | `src/rrcp_io.c`, `src/rrcp_cli_cmd_other.c`, `src/rrcp_cli_cmd_show.c`, `src/rtl83xx.c` | registers 0x217 and 0x218, the EEPROM | `eeprom_write`, `eeprom_read`, `write memory`, `write eeprom-defaults`, `config mac-address`, `config vendor-id`, `copy file: eeprom`, `copy eeprom file:`, `set`/`show eeprom-register` | `Eeprom`, `EepromProof` |
| firmware | `contrib/fsd1600firmware` | record of ports turned off, one countdown | the boot, `port_tester`, `loopback_detection`, `init_rrcp_enable_jumper`, `check_mac`, the reboots by `longjmp` | `LoopDetect`, `LoopDetectProof` |
| scan, probe | `src/rrcp_io.c` | lists of replies, ageing counter | `rtl83xx_scan`, `rrcp_io_probe_switch_for_facing_switch_port` | `Scan`, `ScanProof` |
| ping | `src/rrcp_io.c`, `src/rtlping.c` | the packet of the last ping, counters, deadlines | `rtl83xx_ping_ex`, `main` of rtlping | `Rtlping`, `RtlpingProof` |
| rtl83xx commands | `src/rtl83xx.c` | the registers read, in locals | the `do_*` functions behind `config` | `Rtl83xxCommands`, `CommandEffects`, `ToolsProof`, `OutcomesProof` |
| other commands of rrcpcli | `src/rrcp_cli_cmd_config*.c`, `src/rrcp_cli.c` | `swconfig` | set a field, write its register | `RrcpCliCommands`, `CommandEffects`, `ToolsProof`, `OutcomesProof` |
| capture of MACs | `src/rtl83xx.c` | registers 0x300-0x302 in locals, signal flag | `do_capture_mac_address` | `MacCapture`, `OutcomesProof` |
| check_rrcp | `src/check_rrcp.c` | alarm, key, findings | reads under one alarm, key update, verdict | `CheckRrcp`, `OutcomesProof` |
| detection of the switch | `src/rrcp_switches.c` | `switchtype`, size of the EEPROM | `rrcp_autodetect_switch_chip_eeprom` | `Detection`, `OutcomesProof` |
| all of them on one switch | the above | the registers | their processes, interleaved | `SwitchRegs`, `SharedSwitch`, `ToolSessions`, `Tools`, `ToolsProof`, `OutcomesProof` |
| PHY registers, cable test | `src/rrcp_io.c` | registers 0x500-0x502 | `phy_read`, `phy_write` | as calls that may fail, in `LoopDetect` and `Detection` |
| command tree, decoder, scripts | `lib/libcli.c`, `src/rrcp_decode.c`, `contrib/munin`, `contrib/Smokeping`, `tcpdump-patch` | none of interest | parsing and printing | not modelled |

**How they interact.** Every tool is a sequential process; it talks to the switch only
through `rtl83xx_readreg32` and `rtl83xx_setreg32`. A tool shares the switch with other
tools and with the firmware of the switch's own CPU, which reaches the same registers over
a two-wire bus. Nothing locks: the registers are the shared memory. `rrcpcli` copies the
registers into `swconfig` at start and afterwards writes whole registers from that copy.

**What is hard in it.** Frames are lost, delayed and repeated, and a SET has no answer, so
the tools read the register back; the key that frames are stamped with is itself a
register; an operation of many registers has no transaction, and `exit` or `_exit` is the
code's answer to a dead switch, in the middle of whatever is being done; the EEPROM is
reached through a command register whose read-back cannot tell a repeated command from the
old one; the firmware does read-modify-write on registers that hosts write too.
`PROJECT.json` lists these hazards at the lines where they bite.

## RrcpIo: register access

`pc` is the place in the client: `idle`, `sendSet` (before `sock_send` in
`rtl83xx_setreg32`), `sendGet` and `wait` (inside `rtl83xx_readreg32_`), `ended`. `cnt` and
`tries` are the two nested loop counters, `prevAuth` and `setKey` the locals that matter
when register 0x209, the key, is written, `ret`, `status` and `message` what callers and the
user get to see. `SendSet` to `ReadTimesOut` are the steps of the two functions; `ReadGives`
is what happens with the value a read returns: it goes to the tool, to the comparison of the
read-back, or to the message of failure. The wire is one FIFO per direction of at most
`WireCap` frames; frames may be lost, dropped by a full buffer and delivered twice, and they
may outlive the client's deadline. The switch answers a frame only under its own key.
Registers are model values in four kinds (ordinary, read-only, the key, the reset
register), which is as much as `get_register_mask` lets the code tell apart; values are
opaque, so a partial write mask is not modelled.

`RegisterService` is the abstract specification: a read returns what the register holds, a
write reported done is done and one reported failed is not, a write may reach the register
only while its call lasts or after the process has ended. `ServiceSpec` states that `RrcpIo`
implements it, with `pc` mapped to three phases.

| run | properties | bounds |
|---|---|---|
| `rrcp_io` | `TypeOK`, `NoLateWrite`, `KeyAgreement`, `ServiceSpec` | 4 registers, one of each kind, 2 values, 2 rounds of SET and of GET, 2 frames each way, 4 cookies |
| `rrcp_io_err` | `EveryCallEnds` | as above without the read-only register, 1 frame each way, 3 cookies, sends may fail |
| `rrcp_io_outcome` | `ReadOutcome`, violated | sends may fail |

Two rounds are the least that has a first, a last and a repeated one; two frames each way
put an old frame before and behind the awaited one; one cookie more than the frames that can
carry one is always free. `EveryCallEnds` assumes weak fairness of the client's own sends
and of its deadline: the process runs and the clock goes on. Nothing is assumed of the wire
or the switch.

`ReadOutcome` is a disagreement of code and comment: line 748 of `rrcp_io.c` stores a
comparison where the status is meant, so a switch that never answers is reported as
"Can't send", and after a send error an unassigned local is returned. For the same reason
`rrcp_io` and the safety theorems are stated for `SendErrors = FALSE`: with a send error the
value returned is anything.

**Proved** (`RrcpIoProof`, for all registers, values, cookies, numbers of rounds and sizes of
the wire): `TypeCorrect`, and with `~SendErrors` also `NoLateWriteHolds`, `KeyAgreementHolds`
and `Refinement`. The invariant is not inductive by itself. What carries it is the order of
the wire: the GET waited for is the last request in flight (`CurrentGetIsLast`), so when its
answer exists no SET is behind it (`AnswerIsCurrent`), hence an accepted answer tells the
present value and proves that every SET of the call has arrived or is lost (`OnlyOwnSets`,
`FailureIsFinal`). `KeyChange` says that the read-back of a new key under the new key is
answered only by a switch that has it. A corollary, the lemma `RekeyingNeverReverts`: the
line that reverts `authkey` (809) is never reached, and a lost SET of 0x209 ends the process
after ten rounds instead of being sent again.

## VlanConfig: VLANs in rrcpcli

`cache` is the VLAN part of `swconfig`, `hw` the registers. An action is a whole command, its
edit of the cache and the commit after it, since nothing else runs in the process; a commit
either writes everything, or fails at one register and goes on (`rtl83xx_setreg32` only
prints), or ends after any prefix of `CommitOrder`, and `rrcpcli` is then started again and
reads the mixture. `FindOrCreate` is `find_or_create_vlan_index_by_vid` with its one pass
that takes a free slot before it has seen the whole table. When VLAN 1 has lost its slot,
`find_vlan_index_by_vid` gives -1: ports get index 255 and `bitmap[-1]` is the second half of
the tag field, which the model writes too. `switchport trunk allowed vlan` commits nothing.
Output tags are one bit a port in these commands and two in the registers, which
`CommitOrder` counts as the code does; of the insert field only full 16-port words are
written. VLAN numbers are those the help names; 0, which the parsers let through, is left out, and
the flags of register 0x30b that do not concern the table are in `RrcpCliCommands`.

| run | properties | bounds |
|---|---|---|
| `vlan` | `TypeOK`, `TableConsistent`, `HwFollowsCache`, `NewVlanIsEmpty` | 2 ports, 2 slots; four scenarios: commands for 3 VLANs; 2 VLANs and an edit that waits for a commit; lists of two VLANs, with such an edit; one VLAN beside VLAN 1 and a broken commit |
| `vlan_remove` | `NoVlanRemoves`, violated | 2 ports, 3 slots, 3 VLANs |

`scenario`, chosen at first, divides the bounds, for all of them at once make too many states.
More VLANs than slots make the table overflow and be reused, which is where the table's
invariants are at risk; one broken commit, at any register and in any table, is followed by
complete ones and restarts, and a second adds no mixture a first cannot leave. What a process that ends inside the
commit leaves is in the model, but nothing is claimed of it: the next session takes it for its configuration, and
`HwFollowsCache` says only that the next complete commit brings registers and cache together.
`sound` marks the tables the properties speak of: made by `vlan dot1q`, not a mixture read back,
and with VLAN 1 still in them. `NoVlanRemoves` is violated: `no vlan` clears the first slot of a
VLAN that has two.

**Proved** (`VlanConfigProof`, for any number of ports and slots, size of a word and lists of VLANs):
`TypeCorrect`, `TableConsistentHolds`, `HwFollowsCacheHolds` and `NewVlanIsEmptyHolds`. The invariant, `IInv`,
says of a sound table that every port's index is that of a used slot and free slots have no members (`Tidy`), and that
VLAN 1 has a slot (`HasHome`): that is where the ports of a VLAN that is removed go, so without it the next `no vlan`
would leave an index behind that is none. The registers satisfy the same unless an edit waits for a commit. The loops
over the table and over the lists of the commands are recursive functions, and what they preserve for a list of any
length is proved by its least counterexample (`FindOrCreate`, `RemoveVlans`, `AllowVlans`).
`NewVlanIsEmptyHolds` is an action property and follows from `Tidy` of the state before. `VlanAssumption` asks for no
fewer slots than ports and no more ports than two words hold; the code has 26 or fewer, 32 and 16.

## Eeprom: the EEPROM behind two registers

`cmd` is register 0x217 (address, direction, busy, fail), `dat` 0x218. A job is one command: it
goes through bytes `first` to `last`, each by `SendData`, `SendCommand`, polls and, for a read,
`TakeData`. There are seven kinds: "memory" (`write memory` and `write eeprom-defaults`, both tools),
"mac" and "vendor" (`config mac-address` and `config vendor-id` of rtl83xx, the second from the last
address down, as `Place` says), "file", "set", "dump" and "show" of rrcpcli. Each `rtl83xx_setreg16`
behaves as `RegisterService` allows: it arrives, or it does not and the call returns with a message
exactly when the read-back differs, or the process ends. The controller takes any time, may fail, and a
new command while it is busy replaces the old one, which may have been done. `ByteFailed` holds the ways
of the code to deal with a byte that cannot be written or read, with their attempts: "memory", "mac"
and "vendor" end the process and leave the bytes already written. The reboot after a MAC or a vendor ID
does nothing to the EEPROM and is left out.

| run | properties | bounds |
|---|---|---|
| `eeprom` | `TypeOK`, `ReportedBytesStored`, `OnlyReachedBytesChange`, `ReadBytesTrue` | 4 bytes (2 registers), 2 values, 2 attempts (1 for a vendor ID or a single byte), 2 polls |
| `eeprom_set` | `SetByteStored`, violated | the same |

Two registers of two bytes let the second byte of one fail when the first was written and
the first of the next when a register is complete; one attempt and one poll more than none
give the retry over a command still running. `ReportedBytesStored` has two exceptions, each a
way the read-back cannot help: a message was printed, or the job begins with the very
command 0x217 held before. The second is the violation of `eeprom_set`: setting the same
byte twice, with the second SET of 0x217 lost, prints that the byte is set.

The controller is not in the repository. Assumed of it: it latches the byte of 0x218 when a
command starts, clears busy only when it is done or has failed, and leaves other bytes alone.

**Proved** (`EepromProof`, for any size, values, attempts and polls): `TypeCorrect`,
`OnlyReachedBytesChangeHolds`, `ReportedBytesStoredHolds` and `ReadBytesTrueHolds`, of this controller. The parts
of the inductive invariant are `Confined` (bytes the job has not reached are as before), `Writing` (the
bytes behind the job are stored, and 0x217 and 0x218 hold what is being written, unless the SET of 0x217 was
lost and not noticed), `Fetched` (when 0x217 speaks of a read that is done, 0x218 has the byte it names), `Taken` (how many
bytes are in the buffer) and `Reading`. The last is what the reads rest on: a write that an earlier job, ended
in the middle, has left running has been ended by the job's own command before it takes its first byte.

## Tools: several processes on one switch

`SwitchRegs` has the configuration registers as fields in registers: a field is a name, a slot of
the VLAN table and a port, a register the fields that one access moves. The fields are those of
`struct t_swconfig`. Per-port bits are kept in physical order and users name logical ports, so `Phys`
is `port_order`. `SharedSwitch` has the processes and their accesses: `ReadReg` copies a register,
`WriteReg` writes a whole one from the copy and the fields set in it (`edit`), `LoseWrite` is a SET of
which all three attempts are lost, so that `rtl83xx_setreg16` prints and the tool goes on, and the switch
answers only a process with its key. `RrcpIo` is the detail below these accesses. `foreign` is history: the
fields others changed since the process last read or wrote them.

`Rtl83xxCommands` gives each command below `config` as `main` reads it, by the position of its words in
lists, and each `do_*` function as its accesses in order and its edit; a process of rtl83xx does one.
`RrcpCliCommands` has the commands of rrcpcli that set a field of `swconfig` and write its register; a
session (`ToolSessions`) reads the switch once and then takes commands. A process may end inside at any
access: a read without answer, a signal, the alarm.

`MacCapture` is `do_capture_mac_address`, which turns learning off, empties the register of captured
addresses by four reads, waits, and writes back what it had read. The handlers of HUP, INT and TERM are in
place from the last read until just before the first register is put back (`Handled`); then a signal only sets
`break_capture_mac`, which skips the second word of the mask and what is left of the waiting. `CheckRrcp` is the
plug-in: a greeting under the given key, with `-A` one under the default key, a change of the switch's key
and another greeting, then up to three checks and the verdict; `Alarm` jumps out wherever it is. `Wire` changes
links and loops while it looks. `Detection` is `rrcp_autodetect_switch_chip_eeprom` on a switch given by
its entry in the table `switchtypes`, its EEPROM, what a read past the end gives, which bytes come again by chance, and
what 0x218 echoes; any read may fail for no reason of the switch (`Fault`). What the switch is comes from the table
(`SwitchTypes`: ports and vendor IDs) and from the comments on 0x218, not from the decision of the code. The entries of the
table that no detection can give (rtl8316bp, rtl8318, rtl8324p and the products that have no vendor ID, which differ in
nothing the function reads, and the one at 1190 whose vendor ID has no case) are left out; the sizes of EEPROM of the Compex products, which the table has not, are those the
cases of the decision name, so that such a switch with another EEPROM, which detection gives a generic entry, is outside the model.

`CommandEffects` is the other side of the check: what the words of each command say, translated neither
from the lists of `main` nor from the `do_*` functions.

| run | properties | bounds |
|---|---|---|
| `tools` | `TypeOK`, `CommandExact`, `LearningRestored`, `VerdictTrue`, `DetectionTrue`, `OthersKept` | 2 processes; 4 ports whose physical order is not the logical one, 1 of them gigabit; 2 ports to a register of bits, output tags of 3 ports to an int, 4 VLAN slots; 2 first contents of the registers; 2 commands in a session; 1 lost SET; 2 bytes of IDs to compare |

- `TypeOK`: besides types, nothing a tool has neither read nor set reaches the switch.
- `CommandExact`: a command that ends with no SET lost has done what it says and set nothing else.
- `OthersKept`: a step changes a field its process was not asked about only where another process
  changed that field since it was read. Lost updates happen, since nothing locks, but only
  between processes that meet.
- `LearningRestored`: a capture that ends, cut short or not, leaves registers 0x300 to 0x302 as it found them.
- `VerdictTrue`: OK means that everything the options ask for holds, or has changed since it was read, and
  that the run did not change the key.
- `DetectionTrue`: the EEPROM is never taken for a larger one; when no read fails by chance and no bytes come again by
  chance its size is right, and the switch is given its own entry of `switchtypes`, but for the two kinds that `Misnamed`
  lists.

The sittings pair processes that meet in a register: each family of rtl83xx commands with itself, sessions of
rrcpcli with commands of rtl83xx, the capture and the check with commands that change what they rely on. Two
processes are enough for a lost update; four ports in words of two give a first and a second
register, which is where the port order, the split into words and the restored second word matter. Processes are
symmetric and end, so deadlock is not checked.

The properties except, each with a comment in its definition, what the code does otherwise than it says:

- rtl83xx `interface speed 1000 duplex full`: the code of the speed, 0x10, is shifted to 0x20 (1930-1941), the
  code of a flow control: all media of the port are cleared and its pause bit is set.
- rtl83xx `vlan drop untagged_frames` also sets `invalid_vid`: the case at 734 has no `break`.
- rtl83xx `interface tag` controls the ports listed, says the usage text (1615); `do_tag_command` shifts an `int`
  (861-862): from physical port 15 on, tags of other ports change or the shift is undefined. The model has the sign
  extension of port 15 and both outcomes of the shift.
- rtl83xx `vlan clear` puts all ports in VLAN 1, says the usage text (1624); on a switch that does no 802.1Q the code gives
  the slot VID 0, the value of the flag (650, 709). The exception is that one field on such a switch (`Unnumbered`).
- rrcpcli `vlan leaky arp` sets nothing and writes the register as it was.
- rrcpcli `speed auto` keeps the 1000 bit on a port that cannot do it.
- The comment at rtl83xx.c:766 says that `val` 1 sets the bits of the ports; the code clears them, and its
  callers rely on that.
- Detection (`Misnamed`): the comments at rrcp_switches.c:1313 and 1439 say that 0x218 tells an rtl8326 from the others,
  with EEPROM or without. `errcnt` of the EEPROM's IDs (1410) is still set when the chip is decided, so a switch of 16
  or 24 ports without EEPROM is called rtl8326; a failed read of a PHY or of the IDs does the same to one with EEPROM.
- Detection (`Misnamed`): the table (1130) and the comment at 807 give the Compex PS2216B 6D two vendor IDs, 0x11f67003 and
  0x11f67004; the decision (1477) has a case for the second only, and the first is named a generic rtl8316b.

Left out: the preset of the counters and the detection with which a session of rrcpcli starts, the table of addresses
a capture fills and prints, and the reset of the switch, which is in `RrcpIo`.

The inputs are those that get past the code's own checks (`IsRtl83xx`, `IsRrcpCli`): ports of the switch and indexes of its
table, words that `main` or the command tree knows, and `no` only where the usage list or the tree offers it. The port that
`monitor` sends to is the one thing `main` does not look at, and the model gives it a port the switch has.

**Proved**, for any set of processes, sittings, commands, ports and order of ports, sizes of registers and first contents: all
six properties. Each needs an invariant of its own.

In `ToolsProof`:

- `OthersKeptHolds`, by `IInv`. The property is not inductive: that a write leaves a field alone rests on the copy being what the
  switch has. `Faithful` says so, of every copy and not only of the one being written, with the exceptions the property
  makes; it needs `Ignorant`, because `foreign` is kept only for processes at work and one that starts must not bring an
  old copy with it, and `NothingSet`, because `check_rrcp` replaces what it has set when it changes the key, which would
  take fields out of the exceptions had it set any before. `Shape` says what the variables are functions of, and no more: the
  commands are opaque to this proof, so it holds for those that `Surprising` lists, too.
- `TypeOKHolds`, by `ToolsInv`. That a register keeps values it may hold is a statement about lists of accesses: a tool that
  writes a register it has not read would put `Unread` there. `Sound` has three parts: `Staged` (where a process is fits its tool,
  and it has in hand only accesses of the kinds that stage knows), `Typed` (what it holds and sets are values
  their fields may hold) and `Prepared` (each field of each register still to be written is set, or held, or is read by an
  access before that write). A session of rrcpcli is prepared because its first list reads every register any of its
  commands writes, the capture because it has read its registers before it is in a position to restore them, and `vlan clear`
  of rtl83xx because it looks at one flag before it decides what to do (`ClearOrder`). `GoodJob` says what is needed of a
  list and its edit, and there is a lemma for each family of commands of both tools that its lists are good (`GoodRtl83xxJob`
  and those before it); `Calm` and `Noticed` are what that leaves to say of the variables, and of the status registers, which no
  command writes.

In `OutcomesProof`, how a tool ends whatever the others do meanwhile. `Apart` is what lets a process be looked at by itself: a step
of another one changes nothing of it but the registers, and puts every field it changed into `foreign`. Each proof then is an
invariant with one part for each stage of the process.

- `LearningRestoredHolds` (`CaptureInv`): what is left of the capture's writes is an end of `Restoring`, and what was written is
  what it had copied from the switch before it changed anything, or another process has changed it since (`Restores`).
- `DetectionTrueHolds` (`DetectInv`): `AtPhy`, `AtIds`, `AtPlace`, `AtEcho` and `Decided` say what the notes taken so far tell of the
  switch: the ports found, the IDs read or their error, the sizes excluded, with the two chances that `DetectionTrue`
  excepts. That the entry decided for is the switch's own then needs the table (`EntryFound`).
- `VerdictTrueHolds` (`VerdictInv`): `Greeting`, `KeySetting`, `Looking` and `Concluded`. While it looks, every register that the
  options ask for is still to be read, noted as failed, or seen, and links come last; a register seen has, unless
  changed since, the value that was looked at. `Calm` is needed for that: the status registers hold 0 or 1.
- `CommandExactHolds` (`CommandsInv`), in two halves. `Committed` is about the lists: while a command runs, a field it sets
  is still to be written, or the switch has it, or others have changed it since, or a SET was lost; a register that is
  to be read again is read before it is written, and what a `writeIfChanged` compares with has just been read. `Meant` is about
  the words: what the process has set is what its command says. It compares each command as `Rtl83xxCommands` and
  `RrcpCliCommands` have it, accesses and bits, with what `CommandEffects` says its words mean; the two are written
  independently, so this is where a wrong bit, register or port order would show. At the end nothing is left
  to be written (`AllSettled`), and the two halves give the property. What a command sets is
  known when it is given (`MeantGive`); only `vlan clear` of rtl83xx takes the number of its VLAN from what it then reads
  (`MeantRead`).

The loops over registers, slots and words are in the model as `FlattenSeq` of a list of lists, of which a lemma says what
stands at each place (`FlattenRuns`, `FlattenIn`, `FlattenOrder`), and what they set as functions with their values in closed
form (`do_tag_command` too, whose shifts reach other ports than it was given).
`IInv`, `ToolsInv` and `CommandsInv` were run as invariants of `tools` before they were proved.

What these need of the constants: `SwitchRegsAssumption` (an even number of ports, an order of ports that names each once, a table
with a slot for each port at least), `UnreadAssumption` (no register can hold the mark of a field that was not read),
`InitialHwAssumption` (the first contents are values the fields may hold), `CommandsAssumption` (a command is one of those that
`IsRtl83xx` or `IsRrcpCli` describe), `CheckAssumption` (what `Wire` moves are status fields, which start as 0 or 1, ports to be
up are ports, keys are numbers) and `DetectionAssumption` (a chip is one that `IsChip` describes).

## LoopDetect: the firmware

`pc` is the place in `main`. The boot (`StartBus` to `FindBroken`, and the port tester) loads 0x608 and then 0x200 from
the EEPROM, powers PHYs down, sets the loop bit of 0x200, and only then clears the record; in a pass of the main loop the
firmware polls, looks at jumper 6, looks at the MAC registers and waits. A poll is `PollLoop` (a loop is seen: each port
that has one is disabled, powered down and recorded, and the countdown set) or `PollQuiet` (the countdown runs, and at 0 the
lowest recorded port is powered up and enabled). `port_disable`, `port_enable`, `init_loopback_detection` and
`init_rrcp_enable_jumper` are two steps each, the read and the write of the register over the bus, and a host may write the
register in between, as long as RRCP is on. PHY calls may fail, and nobody looks.

It boots again in two ways. `Reboot` is `check_mac`, which resets the chip. `Glitch` is SCK or SDA low where the firmware
has let it go (`wait_half_period0`, `wait_ms_timer`): `longjmp` to the boot from any access to a register and from the wait,
in every place of `main` but the 800 ms after `setjmp`, with the registers and the statics as they are. So the boot, too, can be broken off anywhere.

`quiet` and `touched` are history: how many quiet polls since a port was turned off, and the
ports whose bit a host has changed.

| run | properties | bounds |
|---|---|---|
| `loopdetect` | `TypeOK`, `NoEarlyRecovery`, `RecordedIsOff`, `RecordEmpties`, `RrcpFollowsJumper` | 2 ports, one disabled by the EEPROM and the other powered down; recovery after 2 quiet polls (119 in the code), countdown modulo 8 |

Two ports are enough for one countdown to serve several; a wait of 2 has a first and a last poll; 8 leaves room for a wrap
to show. Any set of ports may be seen in a loop at any time, found broken by the port tester, or written by a host. No port
is excluded by the EEPROM in this run, which only takes steps away; the theorems are for any set of excluded ports.

- `NoEarlyRecovery`: the firmware turns a port of its record on only after the whole recovery time without a loop. The countdown survives a
  boot, cut to 1 or at 0 in the middle of a recovery, and must not shorten the next.
- `RecordedIsOff` speaks of the time outside a boot: from the load of 0x608 (fsd1600.c:142) until the record is cleared
  (loopdetect.c:54) ports of the record may be on, and that window, too, may end in another boot.
- `RecordEmpties` assumes weak fairness of the firmware. Its antecedent says that the loops end for good, because a loop on
  a port that the EEPROM excludes keeps all other ports off for as long as it lasts, and that the bus is not disturbed for ever, because
  otherwise the firmware may do nothing but boot. Writes of the MAC registers need no such condition.
- `RrcpFollowsJumper`: 0x200 is loaded by the boot, rewritten by `init_loopback_detection`, by hosts and by the jumper's function,
  from copies that may be stale; once the jumper stays, nobody writes 0x200 and nothing boots the firmware, RRCP is as the
  jumper says.

Assumed: an access that is not broken off is acknowledged by the chip, and a reset of the chip leaves in its registers anything at all.

**Proved** (`LoopDetectProof`, for any number of ports, recovery time and EEPROM):
`TypeCorrect`, `NoEarlyRecoveryHolds`, `RecordedIsOffHolds`. The inductive invariant adds
`Countdown` (it is at least 1 outside a boot while ports wait and none is being turned on, so it never
wraps; the record is empty while ports are tested), `QuietEnough` (for every port of the record, what it has waited and
what is left make the whole time, though other ports set and cut the countdown) and `RecordHeld` (outside a boot the bit
is in 0x608 and in the copy about to be written back).

## Scan: finding switches

One process runs a scan or a probe. `air` counts the copies of each answer on their way;
`Ask` is one frame to all switches that can answer it, any of which may not; an answer
arrives whenever it likes, so hello answers can come among the REP answers. The answers a
network can give are a constant, a set of replies with source, uplink and ports, and so are the
switches that answer REP. `HearNewHello` to `HearSilenceRep` are the two receive loops, one
action for each way a pass can go, `age` is `f_cnt`. `Report` is the whole printing: lines for
hello answers, newest first, each taking the REP answer of its switch off the list, then the
REP answers left, then the uplinks nobody heard. `SendProbe` to `TakeOther` are the probe.
`heard` and `early` are history: what was received by the loop that looks for it, and what was
on its way, to some other tool of the host, before the process began.

| run | properties | bounds |
|---|---|---|
| `scan` | `TypeOK`, `ReportTrue`, `ReportComplete`, `ProbeAnswersTarget`, `ScanEnds` | 3 switches, one of them heard on two paths; 2 frames of each kind; age limits 3 and 2, silence ages by 2; 3 receives of the probe |

Two frames give repeated answers; the three switches are one heard by both kinds and twice by
hello, one heard by REP only that is an uplink, and one never heard, and lost answers turn each
into the others. The limits keep what matters of 200, 50 and 20: silence ends a loop in a few
passes, other frames in more, and the age at the end of the first loop is past the limit of
the second. `ScanEnds` assumes weak fairness of the process, whose receives time out. Answers to
a fixed number of frames are finite, and that is needed, since a repeated answer does not age
the scan.

Two weaknesses are in the model and allowed for by the properties: a switch with two hello
answers is shown as answering REP on the first of its lines only, since its REP answer is gone
from the list; and an uplink whose MAC ends in a zero byte is taken for none (`ZeroMacs`). The table is the set of its
lines, for their order is of no interest here.

**Proved** (`ScanProof`, for any network, limits and numbers of frames): `TypeCorrect`,
`ProbeAnswersTargetHolds`, `ReportTrueHolds` and `ReportCompleteHolds`. The inductive invariant says that the lists hold
what was heard and each answer once (`Listed`), that the lines are those of the lists (`Printed`), which phase
has filled what (`Phases`, `Counter`, `Young`), and, for the probe, that whatever is on its way was there before or
comes from the switch asked (`Answering`). `ReportTrue` and `ReportComplete` then follow from the table alone: its lines are
the hello answers, the REP answers with no hello answer and the uplinks with neither, and nothing is in two of these.

## Rtlping: the ping and its statistics

A round of the main loop is a call of `rtl83xx_ping_ex` (two in mode `rrcprep`), then calls for
answers that come twice until WAIT is over. `held` is `*transmitted_packet`; a call sends a frame
only when it is `None`, and `GiveUp` frees it. `now`, `start`, `curtime` and `maxtime` are the
times since the start of the round, in ticks, several to a millisecond because the rest of WAIT
is rounded to milliseconds; a process may be woken `Late`. Of the cookies of REP frames the model
keeps whether they are those of the last REP frame; hello answers have none. Answers are a set, and
one taken may come again. `ReceiveFails` is a failing `select` or `recvfrom` without SIGINT, which
the code cannot tell from SIGINT. A broadcast ping, answered by several switches, is like one
answered several times.

| run | properties | bounds |
|---|---|---|
| `rtlping` | `TypeOK`, `SentOncePerRound`, `RepCountTrue`, `LossNotNegative`, `PingingEnds` | all 3 modes, 2 rounds, WAIT 3 ms of 2 ticks, a default of 2 ms, woken late by 1 tick, 1 failing receive |
| `rtlping_rtt` | `RttTrue`, violated | the same |

Two rounds let the answer to one come in the next; two ticks in a millisecond make the rounding
visible; the default wait of `rtl83xx_ping_ex` is shorter than WAIT, as in the tool (500 and 1000 ms), which the theorems do not need.
`PingingEnds` assumes that the clock goes on and the process runs. Without `-c` only SIGINT ends
rtlping, so `MaxCount` is at least 1. `MaxSent` caps the count of frames above what the code can
reach, as `TypeOK` confirms.

`RttTrue` disagrees with the comment of `rtl83xx_ping`: the time returned is read before the
receive that brings the answer. Also in the model, but promised nowhere: a hello answer to an
earlier ping counts for the present one (what `LossNotNegative` says is that no round counts two, so that the loss printed is
never negative, also when SIGINT ends a round in its window), the window waits for hello answers in mode rep too, and a
failed receive makes the window send a hello of its own, the exception in `SentOncePerRound`.

**Proved** (`RtlpingProof`, for any number of rounds, WAIT, tick and number of failed receives): `TypeCorrect`, with its
bound on the frames, `SentOncePerRoundHolds`, `RepCountTrueHolds` and `LossNotNegativeHolds`. The inductive invariant has `Clock` (no call and
no window runs out before WAIT is over, whatever the rounding, so a new frame there can only follow a failed receive),
`RoundOpen` (a round under way is one of those asked for), `Counted` (frames against rounds and failed receives, by
mode and place), `Received` (a round counts one answer at most) and `Unanswered` (in mode rep, an answer with the
cookies of the last frame is to one that no counted answer was to).

## What is proved, and what only checked

| module | proved for all constants | only model-checked |
|---|---|---|
| `RrcpIo` | `TypeOK`, `NoLateWrite`, `KeyAgreement`, `ServiceSpec` | `EveryCallEnds` |
| `LoopDetect` | `TypeOK`, `NoEarlyRecovery`, `RecordedIsOff` | `RecordEmpties`, `RrcpFollowsJumper` |
| `VlanConfig` | `TypeOK`, `TableConsistent`, `HwFollowsCache`, `NewVlanIsEmpty` | |
| `Eeprom` | `TypeOK`, `ReportedBytesStored`, `OnlyReachedBytesChange`, `ReadBytesTrue` | |
| `Scan` | `TypeOK`, `ReportTrue`, `ReportComplete`, `ProbeAnswersTarget` | `ScanEnds` |
| `Rtlping` | `TypeOK`, `SentOncePerRound`, `RepCountTrue`, `LossNotNegative` | `PingingEnds` |
| `Tools` | `TypeOK`, `CommandExact`, `OthersKept`, `LearningRestored`, `VerdictTrue`, `DetectionTrue` | |

The liveness properties, `EveryCallEnds`, `RecordEmpties`, `RrcpFollowsJumper`, `ScanEnds` and `PingingEnds`, stay with TLC: fairness is out
of the prover's reach. Every safety property that a passing run checks is proved. The properties of the runs that expect a
violation are false, and TLC shows how.

The library's theorems of induction cannot be used, since they take an operator as a parameter. Where a definition recurs
over a list (`VlanConfig`, and `FlattenSeq` for the accesses of the commands), the proof takes the least length or position at
which the statement fails, from `WFMin` and `NatLessThanWellFounded`, and refutes it.

The assumptions of the proofs are named ASSUMEs, which TLC evaluates in the runs: `RegsAssumption`, `ValsAssumption`
and `BoundsAssumption` of `RrcpIo`, `LoopAssumption`, `VlanAssumption`, `EepromAssumption`, `AnswersAssumption` and
`LimitsAssumption` of `Scan`, `PingAssumption`, and for the tools `SwitchRegsAssumption`, `UnreadAssumption`, `InitialHwAssumption`,
`CommandsAssumption`, `CheckAssumption` and `DetectionAssumption`; and `~SendErrors` where a theorem says so.

## Not modelled

- `lib/libcli.c`: a vendored library for line editing, history and the command tree; it has no state that a
  command of this program depends on.
- `rrcp_decode.c`, the `show` commands, `rrcp_config_bin2text`, the tcpdump patch, the munin and Smokeping scripts:
  pure functions from register values or frames to text.
- `rrcp_lib.c`: lists of numbers and logging; the models take the lists it returns.
- `phy_read`, `phy_write`, `cable_diagnostic` and `phy-shutdown` of rtl83xx: the shape of the EEPROM calls without
  retries, on registers that only one command at a time has reason to use.
- `set switch-register`, `set phy-register`, `reload` of rrcpcli and the reboots of rtl83xx: one write each, of which
  `RrcpIo` says all there is.
- The firmware's VLAN and trunk jumpers, which write registers that nothing else in the firmware reads, its timers, and the
  bits on the two-wire bus, of which `LoopDetect` has that any access may end in a boot.
- Another tool of the same host that starts while a probe waits; those that were there before are in `Scan`.
- VLAN 0 and the force variant for rtl8326 in the VLAN commands.
- The dead code of `rrcp_switches.c`, lines 1293 to 1361.

## What is left

1. A refinement of `SharedSwitch` by `RrcpIo` would need two clients on one wire; `RegisterService` has one.
2. What a SET that is lost leaves of a command: `CommandExact` says nothing then, and each command would need a statement of its
   own about the registers it has come to.
3. The parts under "Not modelled".
