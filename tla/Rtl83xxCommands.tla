-------------------------- MODULE Rtl83xxCommands --------------------------
(***************************************************************************)
(* The configuration commands of rtl83xx: main() turns the words of the    *)
(* command line into numbers by their position in a list, and calls a      *)
(* do_* function that reads the registers concerned, edits its copy and    *)
(* writes them back.  Each do_* function is given here as its accesses in  *)
(* order and the edit it makes.  Port lists arrive as sets of physical     *)
(* ports, lists of VLAN indexes as sequences without repetition.           *)
(***************************************************************************)
EXTENDS SwitchRegs

\* What a user types: "no" or not, the words, the ports, the list of VLAN
\* indexes, the number and the two arguments.
Cmd(no, word, ports, slots, num, arg, arg2) ==
    [no |-> no, word |-> word, ports |-> ports, slots |-> slots, num |-> num,
     arg |-> arg, arg2 |-> arg2]

NoCmd == Cmd(FALSE, "", {}, <<>>, 0, "", "")
On(c) == IF c.no THEN 0 ELSE 1

\* get_cmd_num: a word stands for its position, from 0.
Pos(list, w) == (CHOOSE i \in 1 .. Len(list) : list[i] = w) - 1

Job(ops, edit) == [ops |-> ops, edit |-> edit]
Not(n) == IF n = 0 THEN 1 ELSE 0
ReadWrite(name) == Reads(name) \o Writes(name)
EditFlags(name, edit) == Job(ReadWrite(name), edit)
Flags(names, v) == [f \in {Flag(n) : n \in names} |-> v]

(***************************************************************************)
(* Ports                                                                   *)
(***************************************************************************)
\* Mutant: the bits are set for 1 and cleared for 0, as the comment at
\* rtl83xx.c:766 says.
do_32bit_reg_actionAsCommented(name, ports, val) ==
    Job(ReadWrite(name), PortsTo(name, ports, IF val # 0 THEN 1 ELSE 0))

do_32bit_reg_action(name, ports, val) ==
    Job(ReadWrite(name), PortsTo(name, ports, IF val # 0 THEN 0 ELSE 1))

do_restrict_rrcp(ports, val) == do_32bit_reg_action("rrcp_byport_disable", ports, val)
do_port_qos(ports, val) == do_32bit_reg_action("qos_port_priority", ports, val)
do_port_disable(ports, val) == do_32bit_reg_action("port_disable", ports, val)
do_port_learning(mode, ports) == do_32bit_reg_action("alt_mask", ports, mode)

\* The VLAN mode is read for a warning only.
do_insert_vid(ports, val) ==
    LET job == do_32bit_reg_action("insert_vid", ports, val)
    IN Job(Reads("vlan") \o job.ops, job.edit)

\* The 64 bits of the tags are masked with an int: at its last port the sign
\* is carried into the tags of all ports above, and a shift by the width of
\* an int or more does what the processor does with it, which is nothing, or
\* a shift by that much less (wraps).
do_tag_command(ports, val, wraps) ==
    LET shifted == {q % IntTags : q \in {q \in ports : wraps \/ q < IntTags}}
        signed == IF IntTags - 1 \in shifted THEN {q \in PhysPorts : q >= IntTags} ELSE {}
    IN Job(Reads("vlan") \o ReadWrite("output_tag"),
           PortsTo("output_tag", shifted, val)
               ++ PortsTo("output_tag", signed, IF val >= 2 THEN 3 ELSE 0))

do_vlan_index_ctrl(ports, val) ==
    Job(Reads("vlan") \o ReadWrite("port_vlan"), PortsTo("port_vlan", ports, val))

MediaFor(val, q) ==
    CASE val = 1  -> {"10half"}
      [] val = 2  -> {"10full"}
      [] val = 4  -> {"100half"}
      [] val = 8  -> {"100full"}
      [] val = 16 -> {"1000full"}
      [] val = 0  -> AutoMedia(q)
      [] OTHER    -> {}

PauseFor(val) == (IF val \in {32, 96} THEN {"pause"} ELSE {})
                     \cup (IF val \in {64, 96} THEN {"pause_asy"} ELSE {})

\* mode 0 sets the speed, mode 1 the flow control; but what is set is
\* chosen by val.  Only the registers of the listed ports are written.
do_port_config(mode, ports, val) ==
    LET taken == {q \in ports : mode = 0 /\ val = 16 => q \in Gigabit}
        media == IF mode = 0 THEN taken ELSE {}
        pause == IF mode = 1 \/ val \in {32, 64, 96} THEN taken ELSE {}
    IN Job(Reads("port_config") \o WritesFor("port_config", ports),
           [f \in {Port("media", q) : q \in media} |-> MediaFor(val, f[3])]
               ++ PortsTo("pause", pause, PauseFor(val)))

do_port_config_bandwidth(dir, ports, val) ==
    Job(Reads("bandwidth") \o WritesFor("bandwidth", ports),
        PortsTo("rx", IF dir \in {0, 1} THEN ports ELSE {}, val)
            ++ PortsTo("tx", IF dir \in {0, 2} THEN ports ELSE {}, val))

\* Nothing is read: the three maps are built from nothing and written.
do_port_config_mirror(dir, ports, dest) ==
    LET Map(name, set) == [f \in {Port(name, q) : q \in PhysPorts} |->
                              IF f[3] \in set THEN 1 ELSE 0]
    IN Job(Writes("sniffer") \o Writes("sniffed_rx") \o Writes("sniffed_tx"),
           Map("sniffer", IF dir < 3 THEN {dest} ELSE {})
               ++ Map("sniffed_rx", IF dir \in {0, 1} THEN ports ELSE {})
               ++ Map("sniffed_tx", IF dir \in {0, 2} THEN ports ELSE {}))

(***************************************************************************)
(* VLANs                                                                   *)
(***************************************************************************)
\* Mutant: the entries are written as they are in memory.
do_vlan_table_configUnread(ports, slots, val) ==
    Job(Reads("vlan") \o FlattenSeq([k \in 1 .. Len(slots) |->
            All("write", "vlan_entry", slots[k])]),
        [f \in {Member(i, q) : i \in ToSet(slots), q \in ports} |->
            IF val # 0 THEN 0 ELSE 1])

\* Several indexes: each entry is read and written before the next.
do_vlan_table_config(ports, slots, val) ==
    Job(Reads("vlan") \o FlattenSeq([k \in 1 .. Len(slots) |->
            All("read", "vlan_entry", slots[k]) \o All("write", "vlan_entry", slots[k])]),
        [f \in {Member(i, q) : i \in ToSet(slots), q \in ports} |->
            IF val # 0 THEN 0 ELSE 1])

do_vlan_index_config(slots, vid) ==
    Job(Reads("vlan") \o FlattenSeq([k \in 1 .. Len(slots) |->
                                        All("write", "vlan_vid", slots[k])]),
        [f \in {Vid(i) : i \in ToSet(slots)} |-> vid])

\* The ports in an entry of the table.  Template: one VLAN for each port,
\* with the last two ports as uplinks; clear: one VLAN of all ports.
TableMembers(i, do_clear) ==
    LET uplinks == {NumPorts - 2, NumPorts - 1}
    IN IF do_clear THEN (IF i = 0 THEN PhysPorts ELSE {})
       ELSE CASE i \in uplinks -> PhysPorts
              [] i >= NumPorts -> {}
              [] OTHER         -> {i} \cup uplinks

\* The whole table is written, from nothing.
do_vlan_enable_vlan(is_8021q, do_clear) ==
    Job(Writes("port_vlan") \o Writes("output_tag")
            \o FlattenSeq([k \in 1 .. NumSlots |->
                   All("write", "vlan_entry", k - 1) \o All("write", "vlan_vid", k - 1)])
            \o Writes("insert_vid"),
        [f \in {Port("port_vlan", q) : q \in PhysPorts} |->
             IF do_clear THEN 0 ELSE f[3]]
          ++ PortsTo("output_tag", PhysPorts, 3)
          ++ [f \in {Member(i, q) : i \in Slots, q \in PhysPorts} |->
                 IF f[3] \in TableMembers(f[2], do_clear) THEN 1 ELSE 0]
          ++ [f \in {Vid(i) : i \in Slots} |->
                 IF do_clear /\ f[2] = 0 THEN is_8021q ELSE 0]
          ++ PortsTo("insert_vid", PhysPorts, 0))

do_vlan(mode) ==
    EditFlags("vlan", Flags({"enable"}, IF mode \in {1, 2} THEN 1 ELSE 0)
                          ++ Flags({"dot1q"}, IF mode = 2 THEN 1 ELSE 0))

\* Clearing keeps the mode, and reads it for the VLAN number to give.
do_vlan_tmpl(mode, dot1q) ==
    LET first == IF mode # 0 THEN do_vlan(mode) ELSE Job(Reads("vlan"), <<>>)
        table == do_vlan_enable_vlan(IF mode # 0 THEN mode - 1 ELSE dot1q, mode = 0)
    IN Job(first.ops \o table.ops, first.edit ++ table.edit)

do_vlan_leaky(mode, state) ==
    EditFlags("vlan", Flags({<<"arp_leaky", "multicast_leaky", "unicast_leaky">>[mode]}, state))

\* The first case has no break: it falls through into the second.
do_vlan_drop(mode, state) ==
    EditFlags("vlan", Flags({"ingress_filtering"}
                            \cup (IF mode = 1 THEN {"drop_untagged_frames"} ELSE {}), state))

(***************************************************************************)
(* The switch as a whole                                                   *)
(***************************************************************************)
do_rrcp_ctrl(state) == EditFlags("rrcp_config", Flags({"rrcp_disable"}, state))
do_rrcp_echo(state) == EditFlags("rrcp_config", Flags({"echo_disable"}, state))
do_loopdetect(state) == EditFlags("rrcp_config", Flags({"loop_enable"}, state))

do_storm_control(mode, state) ==
    EditFlags("port_config_global",
        IF mode = 0 THEN Flags({"multicast_strict"}, IF state # 0 THEN 1 ELSE 0)
        ELSE Flags({"broadcast_disable"}, IF state \in {1, 2} THEN 0 ELSE 1)
               ++ Flags({"broadcast_strict"}, IF state = 2 THEN 1 ELSE 0))

do_alt_config(mode) ==
    EditFlags("alt_config",
        IF mode > 3 THEN Flags({"mac_drop_unknown"}, IF mode = 4 THEN 1 ELSE 0)
        ELSE Flags({"mac_aging_disable"}, IF mode = 1 THEN 1 ELSE 0)
               ++ Flags({"mac_aging_fast"}, IF mode = 2 THEN 1 ELSE 0))

do_glob_flowctrl(mode, state) ==
    CASE mode = 0 -> EditFlags("port_config_global", Flags({"flow_dot3x_disable"}, Not(state)))
      [] mode = 1 -> EditFlags("port_config_global",
                               Flags({"flow_backpressure_disable"}, Not(state)))
      [] mode = 2 -> EditFlags("qos_config", Flags({"flow_ondemand_disable"}, state))

\* These two write the register only when their edit changes it.
IfChanged(name, edit) ==
    Job(Reads(name) \o All("writeIfChanged", name, 0), edit)

do_mls_qos_trust(state, mask) ==
    IfChanged("qos_config", Flags((IF mask % 2 = 1 THEN {"dscp_enable"} ELSE {})
                                \cup (IF mask > 1 THEN {"cos_enable"} ELSE {}), state))

do_wrr_queue(ratio) ==
    IfChanged("qos_config", Flags({"wrr_ratio"}, Pos(<<"4:1", "8:1", "16:1", "1:0">>, ratio)))

do_igmp_snooping(state) ==
    EditFlags("alt_igmp_snooping", Flags({"en_igmp_snooping"}, state))

set_authkey(k) == Job(Writes("authkey"), Flags({"authkey"}, k))

(***************************************************************************)
(* main(): from the words to a call                                        *)
(***************************************************************************)
ena_disa == <<"disable", "enable">>

speed_encode(arg) == CASE arg = "auto" -> 0
                       [] arg = "10"   -> 1
                       [] arg = "100"  -> 4
                       [] arg = "1000" -> 16

\* "duplex full" shifts the code of the speed to the next one.
MediaSpeed(arg, duplex) ==
    speed_encode(arg) * (IF duplex = "full" THEN 2 ELSE 1)

InterfaceJob(c, wraps) ==
    LET ports == {Phys[l] : l \in c.ports}
    IN CASE c.word = "interface shutdown" -> do_port_disable(ports, Not(On(c)))
         [] c.word = "interface speed"       ->
                do_port_config(0, ports, MediaSpeed(c.arg, c.arg2))
         [] c.word = "interface rate-limit"  ->
                do_port_config_bandwidth(
                    IF c.arg = "" THEN 0 ELSE 1 + Pos(<<"input", "output">>, c.arg),
                    ports, c.num)
         [] c.word = "interface mac-address learning" ->
                do_port_learning(Pos(<<"learning", "disable", "enable">>, c.arg) - 1, ports)
         [] c.word = "interface rrcp"        ->
                do_restrict_rrcp(ports, Pos(ena_disa, c.arg))
         [] c.word = "interface mls qos cos" -> do_port_qos(ports, Pos(<<"7", "0">>, c.arg))
         [] c.word = "interface flow-control" ->
                do_port_config(1, ports, 32 * Pos(<<"none", "asym2remote", "symmetric",
                                                    "asym2local">>, c.arg))
         [] c.word = "interface trunk"       ->
                do_insert_vid(ports, Not(Pos(ena_disa, c.arg)))
         [] c.word = "interface tag"         ->
                do_tag_command(ports, Pos(<<"remove", "insert-high", "insert-all",
                                            "none">>, c.arg), wraps)
         [] c.word = "interface index"       -> do_vlan_index_ctrl(ports, c.slots[1])

VlanJob(c, dot1q) ==
    LET ports == {Phys[l] : l \in c.ports}
        leaky == <<"arp", "multicast", "unicast">>
        drop == <<"untagged_frames", "invalid_vid">>
    IN CASE c.word = "vlan transparent" -> do_vlan(0)
         [] c.word = "vlan clear"     -> do_vlan_tmpl(0, dot1q)
         [] c.word = "vlan mode"      -> do_vlan(Pos(<<"portbased", "dot1q">>, c.arg) + 1)
         [] c.word = "vlan template-load" ->
                do_vlan_tmpl(Pos(<<"portbased", "dot1qtree">>, c.arg) + 1, dot1q)
         [] c.word = "vlan add"       -> do_vlan_table_config(ports, c.slots, 0)
         [] c.word = "vlan delete"    -> do_vlan_table_config(ports, c.slots, 1)
         [] c.word = "vlan index"     -> do_vlan_index_config(c.slots, c.num)
         [] c.word = "vlan leaky"     -> do_vlan_leaky(Pos(leaky, c.arg) + 1, On(c))
         [] c.word = "vlan drop"      -> do_vlan_drop(Pos(drop, c.arg) + 1, On(c))

SwitchJob(c) ==
    CASE c.word = "rrcp disable" -> do_rrcp_ctrl(1)
      [] c.word = "rrcp enable"  -> do_rrcp_ctrl(0)
      [] c.word = "rrcp echo"    -> do_rrcp_echo(Not(Pos(ena_disa, c.arg)))
      [] c.word = "rrcp loop-detect" -> do_loopdetect(Pos(ena_disa, c.arg))
      [] c.word = "rrcp authkey" -> set_authkey(c.num)
      [] c.word = "mac-address-table aging-time" ->
             do_alt_config(Pos(<<"0", "12", "300">>, c.arg) + 1)
      [] c.word = "mac-address-table unknown-destination" ->
             do_alt_config(Pos(<<"drop", "pass">>, c.arg) + 4)
      [] c.word = "flowcontrol"  ->
             do_glob_flowctrl(Pos(<<"dot3x", "backpressure", "ondemand-disable">>, c.arg),
                              Pos(ena_disa, c.arg2))
      [] c.word = "storm-control broadcast" ->
             do_storm_control(1, IF c.no THEN 0 ELSE Pos(<<"relaxed", "strict">>, c.arg) + 1)
      [] c.word = "storm-control multicast" -> do_storm_control(0, On(c))
      [] c.word = "monitor"      ->
             IF c.no THEN do_port_config_mirror(3, {}, Phys[1])
             ELSE do_port_config_mirror(
                      IF c.arg = "" THEN 0 ELSE 1 + Pos(<<"input", "output">>, c.arg),
                      {Phys[l] : l \in c.ports}, Phys[c.num])
      [] c.word = "igmp-snooping" -> do_igmp_snooping(On(c))
      [] c.word = "mls qos trust" -> do_mls_qos_trust(On(c), c.num)
      [] c.word = "wrr-queue"     -> do_wrr_queue(IF c.no THEN "1:0" ELSE c.arg)

InterfaceWords ==
    {"interface shutdown", "interface speed", "interface rate-limit",
     "interface mac-address learning", "interface rrcp", "interface mls qos cos",
     "interface flow-control", "interface trunk", "interface tag", "interface index"}
VlanWords ==
    {"vlan transparent", "vlan clear", "vlan mode", "vlan template-load", "vlan add",
     "vlan delete", "vlan index", "vlan leaky", "vlan drop"}
SwitchWords ==
    {"rrcp disable", "rrcp enable", "rrcp echo", "rrcp loop-detect", "rrcp authkey",
     "mac-address-table aging-time", "mac-address-table unknown-destination",
     "flowcontrol", "storm-control broadcast", "storm-control multicast", "monitor",
     "igmp-snooping", "mls qos trust", "wrr-queue"}

\* The words get_cmd_num finds in the list of each command.
RatioWords == {"4:1", "8:1", "16:1", "1:0"}
ArgsOf(no, word) ==
    CASE no /\ word \in {"storm-control broadcast", "wrr-queue"} -> {""}
      [] word = "interface speed"        -> {"auto", "10", "100", "1000"}
      [] word \in {"interface rate-limit", "monitor"} -> {"", "input", "output"}
      [] word \in {"interface mac-address learning", "interface rrcp", "interface trunk",
                   "rrcp echo", "rrcp loop-detect"}   -> {"disable", "enable"}
      [] word = "interface mls qos cos"  -> {"7", "0"}
      [] word = "interface flow-control" ->
             {"none", "asym2remote", "symmetric", "asym2local"}
      [] word = "interface tag"     -> {"remove", "insert-high", "insert-all", "none"}
      [] word = "vlan mode"         -> {"portbased", "dot1q"}
      [] word = "vlan template-load" -> {"portbased", "dot1qtree"}
      [] word = "vlan leaky"        -> {"arp", "multicast", "unicast"}
      [] word = "vlan drop"         -> {"untagged_frames", "invalid_vid"}
      [] word = "mac-address-table aging-time" -> {"0", "12", "300"}
      [] word = "mac-address-table unknown-destination" -> {"drop", "pass"}
      [] word = "flowcontrol"       -> {"dot3x", "backpressure", "ondemand-disable"}
      [] ~no /\ word = "storm-control broadcast" -> {"relaxed", "strict"}
      [] ~no /\ word = "wrr-queue"  -> RatioWords
      [] OTHER -> {""}

\* Where the list of commands offers "no"; main() takes no notice of it at
\* other commands.
Negatable ==
    {"interface shutdown", "vlan leaky", "vlan drop", "storm-control broadcast",
     "storm-control multicast", "monitor", "igmp-snooping", "mls qos trust", "wrr-queue"}

\* What main() lets through: ports of the switch, indexes of its VLAN table,
\* words it knows.  Only the port a monitor sends to is not looked at: what
\* is said here is for one the switch has.
IsRtl83xx(c) ==
    /\ c.word \in InterfaceWords \cup VlanWords \cup SwitchWords
    /\ c.no \in IF c.word \in Negatable THEN BOOLEAN ELSE {FALSE}
    /\ c.ports \subseteq 1 .. NumPorts
    /\ c.word \in InterfaceWords => c.ports # {}
    /\ c.word \in SwitchWords \ {"monitor"} => c.ports = {}
    /\ c.slots \in Seq(Slots)
    /\ c.word = "interface index" => c.slots # <<>>
    /\ c.num \in Nat
    /\ c.word = "monitor" /\ ~c.no => c.num \in 1 .. NumPorts
    /\ c.word = "mls qos trust" => c.num \in 1 .. 3
    /\ c.arg \in ArgsOf(c.no, c.word)
    /\ c.arg2 \in CASE c.word = "interface speed" -> {"", "half", "full"}
                     [] c.word = "flowcontrol"     -> {"enable", "disable"}
                     [] OTHER                      -> {""}

Rtl83xxJob(c, wraps) ==
    CASE c.word \in InterfaceWords -> InterfaceJob(c, wraps)
      [] c.word \in VlanWords      -> VlanJob(c, 0)
      [] c.word \in SwitchWords    -> SwitchJob(c)
=============================================================================
