----------------------------- MODULE SwitchRegs -----------------------------
(***************************************************************************)
(* The configuration registers of the switch, as fields grouped into       *)
(* registers: a tool reads and writes whole registers, a user names        *)
(* fields.  struct t_swconfig of rrcp_config.h gives the fields, the       *)
(* addresses used by rtl83xx.c and rrcp_config.c the registers.            *)
(*                                                                         *)
(* A field is <<name, slot, port>>: the slot of the VLAN table it belongs  *)
(* to, or 0, and the physical port it is about, or 0.  A register is       *)
(* <<name, slot, n>>: the n-th of the consecutive registers of that name.  *)
(***************************************************************************)
EXTENDS Naturals, SequencesExt

CONSTANTS
    NumPorts,   \* ports of the switch
    Phys,       \* port_order: the physical port of each logical port
    Gigabit,    \* the physical ports that can do 1000 Mbit/s (24 and 25)
    WordPorts,  \* ports in a register that has a bit for each port (16)
    TagPorts,   \* ports in a register of output tags, two bits each (8)
    IntTags,    \* ports whose output tags fit in an int (16)
    NumSlots,   \* entries of the VLAN table (32)
    Unread      \* what the copy of a tool holds of a field it has not read

PhysPorts == 0 .. NumPorts - 1
Slots == 0 .. NumSlots - 1

ASSUME SwitchRegsAssumption ==
    /\ NumPorts \in Nat \ {0}
    /\ NumPorts % 2 = 0
    /\ Phys \in [1 .. NumPorts -> PhysPorts]
    /\ \A l, m \in 1 .. NumPorts : Phys[l] = Phys[m] => l = m
    /\ \A q \in PhysPorts : \E l \in 1 .. NumPorts : Phys[l] = q
    /\ Gigabit \subseteq PhysPorts
    /\ {WordPorts, TagPorts, IntTags, NumSlots} \subseteq Nat \ {0}
    /\ NumPorts <= NumSlots

\* Registers with fields for each port: the fields, and the ports of one.
PortRegs ==
    LET Bits(name) == [fields |-> {name}, per |-> WordPorts]
    IN [rrcp_byport_disable |-> Bits("rrcp_byport_disable"),
        qos_port_priority   |-> Bits("qos_port_priority"),
        port_disable        |-> Bits("port_disable"),
        alt_mask            |-> Bits("alt_mask"),
        insert_vid          |-> Bits("insert_vid"),
        sniffer             |-> Bits("sniffer"),
        sniffed_rx          |-> Bits("sniffed_rx"),
        sniffed_tx          |-> Bits("sniffed_tx"),
        vlan_entry          |-> Bits("vlan_entry"),
        output_tag          |-> [fields |-> {"output_tag"}, per |-> TagPorts],
        port_vlan           |-> [fields |-> {"port_vlan"}, per |-> 2],
        bandwidth           |-> [fields |-> {"rx", "tx"}, per |-> 2],
        port_config         |-> [fields |-> {"media", "pause"}, per |-> 2],
        link                |-> [fields |-> {"link"}, per |-> 2]]

\* Registers that are about the whole switch.
FlagRegs ==
    [rrcp_config        |-> {"rrcp_disable", "echo_disable", "loop_enable"},
     authkey            |-> {"authkey"},
     alt_config         |-> {"mac_aging_disable", "mac_aging_fast", "stp_filter",
                             "mac_drop_unknown"},
     alt_igmp_snooping  |-> {"en_igmp_snooping"},
     vlan               |-> {"enable", "unicast_leaky", "arp_leaky", "multicast_leaky",
                             "dot1q", "drop_untagged_frames", "ingress_filtering"},
     qos_config         |-> {"dscp_enable", "cos_enable", "flow_ondemand_disable",
                             "wrr_ratio"},
     port_config_global |-> {"flow_dot3x_disable", "flow_backpressure_disable",
                             "broadcast_strict", "multicast_strict", "broadcast_disable"},
     loop_status        |-> {"loop_found"},
     loop_ports         |-> {"loop_ports"}]

\* Only the VLAN table has a register of the name for each slot.
SlotsOf(name) == IF name \in {"vlan_entry", "vlan_vid"} THEN Slots ELSE {0}

Parts(name) == IF name \in DOMAIN PortRegs
               THEN (NumPorts + PortRegs[name].per - 1) \div PortRegs[name].per
               ELSE 1

Reg == UNION {{name} \X SlotsOf(name) \X (0 .. Parts(name) - 1) :
                 name \in DOMAIN PortRegs \cup DOMAIN FlagRegs \cup {"vlan_vid"}}

\* The fields one register holds.  Bits of absent ports are not fields.
FieldsIn == [r \in Reg |->
    IF r[1] \in DOMAIN PortRegs
    THEN PortRegs[r[1]].fields \X {r[2]}
            \X {q \in PhysPorts : q \div PortRegs[r[1]].per = r[3]}
    ELSE (IF r[1] = "vlan_vid" THEN {"vlan_vid"} ELSE FlagRegs[r[1]]) \X {r[2]} \X {0}]

Field == UNION {FieldsIn[r] : r \in Reg}

Flag(name) == <<name, 0, 0>>
Port(name, q) == <<name, 0, q>>
Member(i, q) == <<"vlan_entry", i, q>>
Vid(i) == <<"vlan_vid", i, 0>>

\* A field of each port of a set, all given one value.
PortsTo(name, ports, v) == [f \in {Port(name, q) : q \in ports} |-> v]

\* What is set comes over what was there before.
new ++ old == [f \in DOMAIN new \cup DOMAIN old |-> IF f \in DOMAIN new THEN new[f] ELSE old[f]]

\* The accesses of a tool: what it reads and what it writes, in order.
All(kind, name, slot) ==
    [n \in 1 .. Parts(name) |-> <<kind, <<name, slot, n - 1>>>>]
Reads(name) == All("read", name, 0)
Writes(name) == All("write", name, 0)
\* Only those that hold one of the ports.
WritesFor(name, ports) ==
    FlattenSeq([n \in 1 .. Parts(name) |->
        IF \E q \in ports : q \div PortRegs[name].per = n - 1
        THEN <<<<"write", <<name, 0, n - 1>>>>>> ELSE <<>>])

Media == {"autoneg", "10half", "10full", "100half", "100full", "1000full"}
AutoMedia(q) == IF q \in Gigabit THEN Media ELSE Media \ {"1000full"}

\* What a field may hold: the media and the pauses a port announces, or a
\* number.
Legal(f) == CASE f[1] = "media" -> SUBSET Media
              [] f[1] = "pause" -> SUBSET {"pause", "pause_asy"}
              [] OTHER          -> Nat

ASSUME UnreadAssumption ==
    /\ \A set \in (SUBSET Media) \cup SUBSET {"pause", "pause_asy"} : Unread # set
    /\ Unread \notin Nat

DefaultKey == 0   \* 0x2379

\* The registers as a reset leaves them (b = 0), or otherwise set (b = 1).
Booted(b) == [f \in Field |->
    CASE f[1] = "media"   -> IF b = 0 THEN AutoMedia(f[3]) ELSE {"100full"}
      [] f[1] = "pause"   -> IF b = 0 THEN {} ELSE {"pause"}
      [] f[1] = "authkey" -> DefaultKey
      [] OTHER            -> b]
=============================================================================
