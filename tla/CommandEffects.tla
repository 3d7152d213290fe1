---------------------------- MODULE CommandEffects ----------------------------
(***************************************************************************)
(* What the configuration commands are for, from the list of commands that *)
(* rtl83xx prints (rtl83xx.c:1595) and the help of rrcpcli: the fields a   *)
(* command is about and the values they shall have.  Nothing here knows    *)
(* registers, the order of accesses or the numbers of words; the ports are *)
(* the logical ones of the user.                                           *)
(***************************************************************************)
EXTENDS Rtl83xxCommands

Bit(b) == IF b THEN 1 ELSE 0
OnPorts(name, c, v) == [f \in {Port(name, Phys[l]) : l \in c.ports} |-> v]
OnMembers(c, v) ==
    [f \in {Member(i, Phys[l]) : i \in ToSet(c.slots), l \in c.ports} |-> v]
OnSwitch(name, v) == [f \in {Flag(name)} |-> v]
OnMap(name, logical) ==
    [f \in {Port(name, Phys[l]) : l \in 1 .. NumPorts} |->
        Bit(\E l \in logical : f[3] = Phys[l])]

\* "speed 10" and "speed 100" without a duplex ask for half duplex in
\* rtl83xx and for full duplex in rrcpcli.
MediaNamed(speed, duplex) ==
    CASE speed = "10"   -> {IF duplex = "full" THEN "10full" ELSE "10half"}
      [] speed = "100"  -> {IF duplex = "full" THEN "100full" ELSE "100half"}
      [] speed = "1000" -> {"1000full"}

PortCommand(c) ==
    CASE c.word \in {"interface shutdown", "shutdown"} ->
             OnPorts("port_disable", c, Bit(~c.no))
      [] c.word = "interface speed" /\ c.arg = "auto" ->
             [f \in {Port("media", Phys[l]) : l \in c.ports} |-> AutoMedia(f[3])]
      [] c.word = "interface speed" /\ c.arg # "auto" ->
             [f \in {Port("media", Phys[l]) : l \in
                        {l \in c.ports : c.arg = "1000" => Phys[l] \in Gigabit}} |->
                 MediaNamed(c.arg, c.arg2)]
      [] c.word = "speed" ->
             [f \in {Port("media", Phys[l]) : l \in c.ports} |->
                 IF c.arg = "auto" THEN AutoMedia(f[3]) ELSE MediaNamed(c.arg, "full")]
      [] c.word = "interface flow-control" ->
             OnPorts("pause", c, CASE c.arg = "none"        -> {}
                                   [] c.arg = "asym2remote" -> {"pause"}
                                   [] c.arg = "symmetric"   -> {"pause_asy"}
                                   [] c.arg = "asym2local"  -> {"pause", "pause_asy"})
      [] c.word \in {"interface rate-limit", "rate-limit"} ->
             LET rate == IF c.no THEN 0 ELSE c.num
             IN (IF c.arg = "output" THEN <<>> ELSE OnPorts("rx", c, rate))
                    ++ (IF c.arg = "input" THEN <<>> ELSE OnPorts("tx", c, rate))
      [] c.word = "interface mac-address learning" ->
             OnPorts("alt_mask", c, Bit(c.arg = "disable"))
      [] c.word = "mac-learn disable" -> OnPorts("alt_mask", c, Bit(~c.no))
      [] c.word = "mac-learn enable"  -> OnPorts("alt_mask", c, 0)
      [] c.word = "interface rrcp" ->
             OnPorts("rrcp_byport_disable", c, Bit(c.arg = "disable"))
      [] c.word = "rrcp enable" /\ c.ports # {} ->
             OnPorts("rrcp_byport_disable", c, Bit(c.no))
      [] c.word \in {"interface mls qos cos", "mls qos cos"} ->
             OnPorts("qos_port_priority", c, Bit(c.arg = "7"))
      [] c.word = "interface trunk" -> OnPorts("insert_vid", c, Bit(c.arg = "enable"))
      [] c.word = "interface tag" ->
             OnPorts("output_tag", c, CASE c.arg = "remove"      -> 0
                                        [] c.arg = "insert-high" -> 1
                                        [] c.arg = "insert-all"  -> 2
                                        [] c.arg = "none"        -> 3)
      [] c.word = "interface index" -> OnPorts("port_vlan", c, c.slots[1])

\* The tree of the template: every port in a VLAN of its own with the two
\* uplinks, which are in all of them.
Tree(i, q) == Bit(\/ i < NumPorts /\ q \in {i, NumPorts - 2, NumPorts - 1}
                  \/ i \in {NumPorts - 2, NumPorts - 1})
WholeTable(joins, index, vids) ==
    [f \in {Member(i, q) : i \in Slots, q \in PhysPorts} |-> joins[f[2]][f[3]]]
      ++ [f \in {Port("port_vlan", q) : q \in PhysPorts} |-> index[f[3]]]
      ++ [f \in {Vid(i) : i \in Slots} |-> vids[f[2]]]
      ++ PortsTo("output_tag", PhysPorts, 3)
      ++ PortsTo("insert_vid", PhysPorts, 0)

\* All ports in the VLAN at index 0.
OneVlan(vid) ==
    WholeTable([i \in Slots |-> [q \in PhysPorts |-> Bit(i = 0)]],
               [q \in PhysPorts |-> 0],
               [i \in Slots |-> IF i = 0 THEN vid ELSE 0])

\* "clear vlan table (all ports in vlan 1)".
VlanCommand(c) ==
    CASE c.word = "vlan transparent" -> OnSwitch("enable", 0) ++ OnSwitch("dot1q", 0)
      [] c.word = "vlan mode" ->
             OnSwitch("enable", 1) ++ OnSwitch("dot1q", Bit(c.arg = "dot1q"))
      [] c.word = "vlan clear" -> OneVlan(1)
      [] c.word = "vlan template-load" ->
             WholeTable([i \in Slots |-> [q \in PhysPorts |-> Tree(i, q)]],
                        [q \in PhysPorts |-> q], [i \in Slots |-> 0])
               ++ OnSwitch("enable", 1) ++ OnSwitch("dot1q", Bit(c.arg = "dot1qtree"))
      [] c.word \in {"vlan add", "vlan delete"} ->
             OnMembers(c, Bit(c.word = "vlan add"))
      [] c.word = "vlan index" -> [f \in {Vid(i) : i \in ToSet(c.slots)} |-> c.num]
      [] c.word = "vlan leaky" ->
             OnSwitch(CASE c.arg = "arp"       -> "arp_leaky"
                        [] c.arg = "multicast" -> "multicast_leaky"
                        [] c.arg = "unicast"   -> "unicast_leaky", Bit(~c.no))
      [] c.word = "vlan drop" ->
             OnSwitch(CASE c.arg = "untagged_frames" -> "drop_untagged_frames"
                        [] c.arg = "invalid_vid"     -> "ingress_filtering", Bit(~c.no))

\* rtl83xx says enable or disable where rrcpcli says "no" or not.
Enables(c) == c.arg = "enable" \/ c.arg2 = "enable" \/ (c.arg2 = "" /\ ~c.no)

Ratios == <<"4:1", "8:1", "16:1", "1:0">>

SwitchCommand(c) ==
    CASE c.word = "rrcp disable" -> OnSwitch("rrcp_disable", 1)
      [] c.word = "rrcp enable"  -> OnSwitch("rrcp_disable", Bit(c.no))
      [] c.word = "rrcp echo"    -> OnSwitch("echo_disable", Bit(c.arg = "disable"))
      [] c.word = "rrcp echo enable" -> OnSwitch("echo_disable", Bit(c.no))
      [] c.word = "rrcp loop-detect" -> OnSwitch("loop_enable", Bit(c.arg = "enable"))
      [] c.word = "rrcp loop-detect enable" -> OnSwitch("loop_enable", Bit(~c.no))
      [] c.word = "rrcp authkey" -> OnSwitch("authkey", c.num)
      [] c.word = "mac-address-table aging-time" ->
             OnSwitch("mac_aging_disable", Bit(c.arg = "0"))
               ++ OnSwitch("mac_aging_fast", Bit(c.arg = "12"))
      [] c.word = "mac-address-table unknown-destination" ->
             OnSwitch("mac_drop_unknown", Bit(c.arg = "drop"))
      [] c.word = "flowcontrol" ->
             OnSwitch(CASE c.arg = "dot3x"            -> "flow_dot3x_disable"
                        [] c.arg = "backpressure"     -> "flow_backpressure_disable"
                        [] c.arg = "ondemand-disable" -> "flow_ondemand_disable",
                      Bit(Enables(c) = (c.arg = "ondemand-disable")))
      [] c.word = "storm-control broadcast" ->
             OnSwitch("broadcast_disable", Bit(c.no))
               ++ OnSwitch("broadcast_strict", Bit(~c.no /\ c.arg = "strict"))
      [] c.word = "storm-control multicast" -> OnSwitch("multicast_strict", Bit(~c.no))
      [] c.word = "monitor" ->
             OnMap("sniffer", IF c.no THEN {} ELSE {c.num})
               ++ OnMap("sniffed_rx", IF c.no \/ c.arg = "output" THEN {} ELSE c.ports)
               ++ OnMap("sniffed_tx", IF c.no \/ c.arg = "input" THEN {} ELSE c.ports)
      [] c.word \in {"igmp-snooping", "ip igmp snooping"} ->
             OnSwitch("en_igmp_snooping", Bit(~c.no))
      [] c.word = "mls qos trust" ->
             (IF c.arg = "dscp" \/ c.num \in {1, 3} THEN OnSwitch("dscp_enable", Bit(~c.no))
              ELSE <<>>)
               ++ (IF c.arg = "cos" \/ c.num \in {2, 3} THEN OnSwitch("cos_enable", Bit(~c.no))
                   ELSE <<>>)
      [] c.word \in {"wrr-queue", "wrr-queue ratio"} ->
             OnSwitch("wrr_ratio", Pos(Ratios, IF c.no THEN "1:0" ELSE c.arg))
      [] c.word = "spanning-tree bpdufilter" -> OnSwitch("stp_filter", Bit(~c.no))

Asked(c) ==
    IF c.word \in {"vlan transparent", "vlan clear", "vlan mode", "vlan template-load",
                   "vlan add", "vlan delete", "vlan index", "vlan leaky", "vlan drop"}
    THEN VlanCommand(c)
    ELSE IF c.ports # {} /\ c.word # "monitor" THEN PortCommand(c)
    ELSE SwitchCommand(c)

\* Commands that do something else than their words say.  rtl83xx: "speed
\* 1000 duplex full" shifts 0x10 to 0x20, which main() means to leave alone
\* but tests for 8; "vlan drop untagged_frames" falls through into the case
\* of invalid_vid; the tags of the ports from the last one that fits in an
\* int on are not set, or those of other ports are.  rrcpcli: "vlan leaky arp" edits nothing.
Surprising(c, tool) ==
    \/ c.word = "interface speed" /\ c.arg = "1000" /\ c.arg2 = "full"
    \/ tool = "rtl83xx" /\ c.word = "vlan drop" /\ c.arg = "untagged_frames"
    \/ c.word = "interface tag" /\ \E l \in c.ports : Phys[l] >= IntTags - 1
    \/ tool = "rrcpcli" /\ c.word = "vlan leaky" /\ c.arg = "arp" /\ ~c.no

\* And one field: on a switch that does no 802.1Q, "vlan clear" of rtl83xx gives
\* the VLAN of all ports no VID 1 but 0.
Unnumbered(c, f, dot1q) == c.word = "vlan clear" /\ f = Vid(0) /\ dot1q # 1
=============================================================================
