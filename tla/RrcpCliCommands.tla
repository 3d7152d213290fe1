-------------------------- MODULE RrcpCliCommands --------------------------
(***************************************************************************)
(* The commands of rrcpcli that set fields other than the VLAN table (that *)
(* one is module VlanConfig).  rrcpcli reads every register once, when it  *)
(* starts, into swconfig; a command edits swconfig and writes the          *)
(* registers concerned from it, without reading them again.                *)
(***************************************************************************)
EXTENDS Rtl83xxCommands

\* rrcp_config_read_from_switch, in its order.
ReadConfig ==
    Reads("rrcp_config") \o Reads("rrcp_byport_disable") \o Reads("alt_igmp_snooping")
      \o Reads("vlan") \o Reads("port_vlan") \o Reads("output_tag")
      \o FlattenSeq([k \in 1 .. NumSlots |->
             All("read", "vlan_entry", k - 1) \o All("read", "vlan_vid", k - 1)])
      \o Reads("insert_vid") \o Reads("bandwidth")
      \o Reads("sniffer") \o Reads("sniffed_rx") \o Reads("sniffed_tx")
      \o Reads("alt_config") \o Reads("alt_mask")
      \o Reads("qos_config") \o Reads("qos_port_priority")
      \o Reads("port_config_global") \o Reads("port_disable") \o Reads("port_config")

\* The registers a command writes, with the edit it makes in swconfig.
Set(name, edit) == Job(Writes(name), edit)
Keep == <<>>

\* The one register of that name that holds the port.
SetPort(name, edit, q) == Job(WritesFor(name, {q}), edit)

cmd_config_int_shutdown(q, v) ==
    Set("port_disable", PortsTo("port_disable", {q}, v))

cmd_rate_limit(q, dir, rate) ==
    SetPort("bandwidth", PortsTo(IF dir = "input" THEN "rx" ELSE "tx", {q}, rate), q)

cmd_config_int_mac_learning(q, v) == SetPort("alt_mask", PortsTo("alt_mask", {q}, v), q)

cmd_config_int_rrcp(q, v) ==
    SetPort("rrcp_byport_disable", PortsTo("rrcp_byport_disable", {q}, v), q)

cmd_config_int_mls(q, cos) ==
    Set("qos_port_priority", PortsTo("qos_port_priority", {q}, IF cos = "7" THEN 1 ELSE 0))

\* "speed 1000" on a port that cannot do it only warns, and "speed auto"
\* does not take it away again.
cmd_config_int_speed(q, speed, media) ==
    SetPort("port_config",
            PortsTo("media", {q}, CASE speed = "10"   -> {"10full"}
                                    [] speed = "100"  -> {"100full"}
                                    [] speed = "1000" -> {"1000full"}
                                    [] speed = "auto" ->
                                           AutoMedia(q) \cup (media \cap {"1000full"})), q)

\* The duplex replaces what the cache holds at the same speed; it is refused
\* while the speed is automatic, and at 1000 there is only full.
Duplexed(media, duplex) ==
    CASE duplex = "half" ->
           (media \ {"10full", "100full"})
              \cup (IF "10full" \in media THEN {"10half"} ELSE {})
              \cup (IF "100full" \in media THEN {"100half"} ELSE {})
      [] duplex = "full" ->
           (media \ {"10half", "100half"})
              \cup (IF "10half" \in media THEN {"10full"} ELSE {})
              \cup (IF "100half" \in media THEN {"100full"} ELSE {})

DuplexRefused(q, media, duplex) ==
    \/ "autoneg" \in media
    \/ duplex = "half" /\ "1000full" \in media /\ q \in Gigabit

cmd_config_int_duplex(q, duplex, media) ==
    IF DuplexRefused(q, media, duplex) THEN Job(<<>>, Keep)
    ELSE SetPort("port_config", PortsTo("media", {q}, Duplexed(media, duplex)), q)

cmd_config_mac_aging(time) ==
    Set("alt_config", Flags({"mac_aging_disable"}, IF time = "0" THEN 1 ELSE 0)
                          ++ Flags({"mac_aging_fast"}, IF time = "12" THEN 1 ELSE 0))

cmd_config_ip_igmp_snooping(v) == Set("alt_igmp_snooping", Flags({"en_igmp_snooping"}, v))

cmd_config_rrcp(name, v) == Set("rrcp_config", Flags({name}, v))

\* "vlan leaky arp" is accepted and edits nothing.
cmd_config_vlan_leaky(kind, v) ==
    Set("vlan", IF kind = "arp" /\ v = 1 THEN Keep
                ELSE Flags({CASE kind = "arp"       -> "arp_leaky"
                              [] kind = "multicast" -> "multicast_leaky"
                              [] kind = "unicast"   -> "unicast_leaky"}, v))

cmd_config_vlan_drop(kind, v) ==
    Set("vlan", Flags({IF kind = "untagged_frames" THEN "drop_untagged_frames"
                       ELSE "ingress_filtering"}, v))

cmd_config_qos(name, v) == Set("qos_config", Flags({name}, v))

cmd_config_qos_wrr_queue_ratio(ratio) ==
    Set("qos_config", Flags({"wrr_ratio"}, Pos(<<"4:1", "8:1", "16:1", "1:0">>, ratio)))

\* Both registers are written, whatever the command.
cmd_config_flowcontrol(edit) ==
    Job(Writes("port_config_global") \o Writes("qos_config"), edit)

\* The two bits of broadcast storm control.
cmd_config_stormcontrol(disable, strict) ==
    Set("port_config_global", Flags({"broadcast_disable"}, disable)
                                  ++ Flags({"broadcast_strict"}, strict))

cmd_config_stormcontrol_multicast(v) ==
    Set("port_config_global", Flags({"multicast_strict"}, v))

cmd_config_spanning_tree(v) == Set("alt_config", Flags({"stp_filter"}, v))

(***************************************************************************)
(* The commands as registered in the tree: a handler, and the words it     *)
(* tells apart.  Those of an interface are given on the selected one.      *)
(***************************************************************************)
InterfaceCommandJob(c, media) ==
    LET q == Phys[CHOOSE l \in c.ports : TRUE]
    IN CASE c.word = "shutdown"    -> cmd_config_int_shutdown(q, On(c))
         [] c.word = "rate-limit"  -> cmd_rate_limit(q, c.arg, IF c.no THEN 0 ELSE c.num)
         [] c.word = "mac-learn disable" -> cmd_config_int_mac_learning(q, On(c))
         [] c.word = "mac-learn enable"  -> cmd_config_int_mac_learning(q, 0)
         [] c.word = "rrcp enable" -> cmd_config_int_rrcp(q, Not(On(c)))
         [] c.word = "mls qos cos" -> cmd_config_int_mls(q, c.arg)
         [] c.word = "speed"       -> cmd_config_int_speed(q, c.arg, media[q])
         [] c.word = "duplex"      -> cmd_config_int_duplex(q, c.arg, media[q])

GlobalCommandJob(c) ==
    CASE c.word = "mac-address-table aging-time" -> cmd_config_mac_aging(c.arg)
      [] c.word = "ip igmp snooping" -> cmd_config_ip_igmp_snooping(On(c))
      [] c.word = "rrcp enable"      -> cmd_config_rrcp("rrcp_disable", Not(On(c)))
      [] c.word = "rrcp echo enable" -> cmd_config_rrcp("echo_disable", Not(On(c)))
      [] c.word = "rrcp loop-detect enable" -> cmd_config_rrcp("loop_enable", On(c))
      [] c.word = "rrcp authkey"     -> set_authkey(c.num)
      [] c.word = "vlan leaky"       -> cmd_config_vlan_leaky(c.arg, On(c))
      [] c.word = "vlan drop"        -> cmd_config_vlan_drop(c.arg, On(c))
      [] c.word = "mls qos trust"    ->
             cmd_config_qos(IF c.arg = "dscp" THEN "dscp_enable" ELSE "cos_enable", On(c))
      [] c.word = "wrr-queue ratio"  ->
             IF c.no THEN cmd_config_qos("wrr_ratio", 3)
             ELSE cmd_config_qos_wrr_queue_ratio(c.arg)
      [] c.word = "flowcontrol"      -> cmd_config_flowcontrol(
             CASE c.arg = "dot3x"        -> Flags({"flow_dot3x_disable"}, Not(On(c)))
               [] c.arg = "backpressure" -> Flags({"flow_backpressure_disable"}, Not(On(c)))
               [] c.arg = "ondemand-disable" -> Flags({"flow_ondemand_disable"}, On(c)))
      [] c.word = "storm-control broadcast" ->
             IF c.no THEN cmd_config_stormcontrol(1, 0)
             ELSE cmd_config_stormcontrol(0, IF c.arg = "strict" THEN 1 ELSE 0)
      [] c.word = "storm-control multicast"  -> cmd_config_stormcontrol_multicast(On(c))
      [] c.word = "spanning-tree bpdufilter" -> cmd_config_spanning_tree(On(c))

\* The words the tree has under each command; it completes them, and asks
\* for numbers.
CliArgsOf(no, word) ==
    CASE no /\ word = "wrr-queue ratio" -> {""}
      [] word = "rate-limit"   -> {"input", "output"}
      [] word = "mls qos cos"  -> {"0", "7"}
      [] word = "speed"        -> {"10", "100", "1000", "auto"}
      [] word = "duplex"       -> {"half", "full"}
      [] word = "mls qos trust"   -> {"dscp", "cos"}
      [] ~no /\ word = "wrr-queue ratio" -> RatioWords
      [] word \in {"vlan leaky", "vlan drop", "flowcontrol", "storm-control broadcast",
                   "mac-address-table aging-time"} -> ArgsOf(no, word)
      [] OTHER -> {""}

\* The commands registered below "no", too.
CliNegatable ==
    {"shutdown", "rate-limit", "mac-learn disable", "rrcp enable", "ip igmp snooping",
     "rrcp echo enable", "rrcp loop-detect enable", "vlan leaky", "vlan drop",
     "mls qos trust", "wrr-queue ratio", "flowcontrol", "storm-control broadcast",
     "storm-control multicast", "spanning-tree bpdufilter"}

\* What the tree finds: at a port, or at none.
IsRrcpCli(c) ==
    /\ c.no \in IF c.word \in CliNegatable THEN BOOLEAN ELSE {FALSE}
    /\ c.ports = {} \/ \E l \in 1 .. NumPorts : c.ports = {l}
    /\ c.word \in IF c.ports # {}
                 THEN {"shutdown", "rate-limit", "mac-learn disable", "mac-learn enable",
                       "rrcp enable", "mls qos cos", "speed", "duplex"}
                 ELSE {"mac-address-table aging-time", "ip igmp snooping", "rrcp enable",
                       "rrcp echo enable", "rrcp loop-detect enable", "rrcp authkey",
                       "vlan leaky", "vlan drop", "mls qos trust", "wrr-queue ratio",
                       "flowcontrol", "storm-control broadcast",
                       "storm-control multicast", "spanning-tree bpdufilter"}
    /\ c.num \in Nat
    /\ c.word = "mls qos trust" => c.num = 0
    /\ c.arg \in CliArgsOf(c.no, c.word)
    /\ c.arg2 = ""
=============================================================================
