------------------------------- MODULE MCTools -------------------------------
(***************************************************************************)
(* Two processes on a switch of four ports whose physical order is not the *)
(* logical one, two ports to a register of port bits, a VLAN table of four *)
(* entries.  The commands that meet in a register are tried against each   *)
(* other, in all interleavings of their accesses.                          *)
(***************************************************************************)
EXTENDS Tools

MCPhys == <<1, 0, 3, 2>>
Lists == {{1}, {2, 3}}
None == <<>>

Port1(word, arg) == {Cmd(FALSE, word, ps, None, 0, arg, "") : ps \in Lists}
PortWords(word, args) == UNION {Port1(word, x) : x \in args}
Word(no, word, arg) == Cmd(no, word, {}, None, 0, arg, "")
Words(word, args) == {Word(FALSE, word, x) : x \in args}
YesNo(word, args) == {Word(n, word, x) : n \in BOOLEAN, x \in args}
NoOr(word, args) == Words(word, args) \cup {Word(TRUE, word, "")}

Rtl(commands) == [tool |-> "rtl83xx", commands |-> commands]
Cli(commands) == [tool |-> "rrcpcli", commands |-> commands]

\* The commands of rtl83xx that share registers.
Families == {
    {Cmd(n, "interface shutdown", ps, None, 0, "", "") : n \in BOOLEAN, ps \in Lists},
    {Cmd(FALSE, "interface speed", ps, None, 0, x, y) :
        ps \in Lists, x \in {"10", "1000"}, y \in {"full"}}
      \cup PortWords("interface speed", {"auto", "1000"})
      \cup PortWords("interface flow-control", {"none", "asym2local"}),
    {Cmd(FALSE, "interface rate-limit", ps, None, n, x, "") :
        ps \in Lists, n \in {1, 2}, x \in {"", "input", "output"}},
    PortWords("interface rrcp", {"enable", "disable"}),
    PortWords("interface mls qos cos", {"0", "7"}),
    PortWords("interface trunk", {"enable", "disable"}),
    PortWords("interface tag", {"remove", "insert-high", "none"}),
    {Cmd(FALSE, "interface index", ps, <<i>>, 0, "", "") : ps \in Lists, i \in {0, 3}},
    Words("rrcp disable", {""}) \cup Words("rrcp enable", {""})
      \cup Words("rrcp echo", {"enable", "disable"})
      \cup Words("rrcp loop-detect", {"enable", "disable"}),
    Words("vlan transparent", {""}) \cup Words("vlan mode", {"portbased", "dot1q"})
      \cup YesNo("vlan leaky", {"arp", "multicast"})
      \cup YesNo("vlan drop", {"untagged_frames", "invalid_vid"}),
    {Cmd(FALSE, w, {1, 3}, s, 0, "", "") :
        w \in {"vlan add", "vlan delete"}, s \in {<<0>>, <<2, 1>>}}
      \cup {Cmd(FALSE, "vlan index", {}, <<1, 2>>, 3, "", "")},
    Words("mac-address-table aging-time", {"0", "12", "300"})
      \cup Words("mac-address-table unknown-destination", {"drop", "pass"}),
    {Cmd(FALSE, "flowcontrol", {}, None, 0, x, y) :
        x \in {"dot3x", "backpressure"}, y \in {"enable", "disable"}}
      \cup NoOr("storm-control broadcast", {"relaxed", "strict"})
      \cup YesNo("storm-control multicast", {""}),
    {Cmd(n, "mls qos trust", {}, None, m, "", "") : n \in BOOLEAN, m \in {1, 3}}
      \cup {Cmd(FALSE, "flowcontrol", {}, None, 0, "ondemand-disable", y) :
              y \in {"enable", "disable"}}
      \cup NoOr("wrr-queue", {"8:1"}),
    {Cmd(FALSE, "monitor", {1, 3}, None, 2, x, "") : x \in {"", "output"}}
      \cup {Cmd(TRUE, "monitor", {}, None, 0, "", "")},
    YesNo("igmp-snooping", {""}) \cup {Cmd(FALSE, "rrcp authkey", {}, None, 1, "", "")}}

\* Sessions of rrcpcli, each with commands of rtl83xx that meet it.
One(no, word, arg, num) == {Cmd(no, word, {l}, None, num, arg, "") : l \in {1, 2}}
Sessions == {
    <<One(FALSE, "speed", "100", 0) \cup One(FALSE, "speed", "1000", 0)
        \cup One(FALSE, "speed", "auto", 0) \cup One(FALSE, "duplex", "half", 0)
        \cup One(FALSE, "duplex", "full", 0),
      PortWords("interface speed", {"10"})>>,
    <<One(FALSE, "shutdown", "", 0) \cup One(TRUE, "shutdown", "", 0)
        \cup One(FALSE, "rate-limit", "input", 1) \cup One(TRUE, "rate-limit", "output", 0),
      Port1("interface shutdown", "")>>,
    <<One(FALSE, "mac-learn disable", "", 0) \cup One(TRUE, "mac-learn disable", "", 0)
        \cup One(FALSE, "mac-learn enable", "", 0) \cup Words("mac-address-table aging-time", {"0", "12"}),
      Words("mac-address-table aging-time", {"300"})>>,
    <<One(FALSE, "rrcp enable", "", 0) \cup One(TRUE, "rrcp enable", "", 0)
        \cup YesNo("rrcp enable", {""}) \cup YesNo("rrcp echo enable", {""})
        \cup YesNo("rrcp loop-detect enable", {""}),
      Words("rrcp loop-detect", {"disable"})>>,
    <<One(FALSE, "mls qos cos", "0", 0) \cup One(FALSE, "mls qos cos", "7", 0)
        \cup YesNo("mls qos trust", {"dscp", "cos"}) \cup NoOr("wrr-queue ratio", {"16:1"}),
      {Cmd(FALSE, "flowcontrol", {}, None, 0, "ondemand-disable", "disable")}>>,
    <<YesNo("vlan leaky", {"arp", "multicast", "unicast"})
        \cup YesNo("vlan drop", {"untagged_frames", "invalid_vid"}),
      Words("vlan mode", {"dot1q"})>>,
    <<YesNo("flowcontrol", {"dot3x", "backpressure", "ondemand-disable"})
        \cup NoOr("storm-control broadcast", {"relaxed", "strict"})
        \cup YesNo("storm-control multicast", {""}),
      {Cmd(FALSE, "mls qos trust", {}, None, 3, "", "")}>>,
    <<YesNo("ip igmp snooping", {""}) \cup YesNo("spanning-tree bpdufilter", {""})
        \cup {Cmd(FALSE, "rrcp authkey", {}, None, 1, "", "")},
      Words("mac-address-table unknown-destination", {"pass"})>>}

\* The two commands that write the whole VLAN table do it in the same order:
\* one of them meets somebody.
Template == Words("vlan template-load", {"dot1qtree"})
Clear == Words("vlan clear", {""})
Entries == {Cmd(FALSE, "vlan add", {1, 3}, <<2>>, 0, "", "")}

Capturing == [tool |-> "capture", commands |-> {Cmd(FALSE, "capture", {1, 2, 3}, None, 0, "", "")}]
Learners == {Cmd(FALSE, "interface mac-address learning", {2, 3}, None, 0, "disable", ""),
             Word(FALSE, "mac-address-table aging-time", "0")}

Checking == [tool |-> "check_rrcp", commands |->
    {Check(DefaultKey, FALSE, TRUE, FALSE, TRUE, {2, 3}), Check(1, TRUE, TRUE, TRUE, FALSE, {})}]
Disturbers == Words("rrcp loop-detect", {"disable"}) \cup Words("vlan mode", {"dot1q"})
                \cup {Cmd(FALSE, "rrcp authkey", {}, None, 1, "", "")}

\* Switches as they are: of 26 ports without EEPROM and without 0x218, of 16
\* and 24 with an EEPROM of any size, blank at one place or not.
Same(k) == {[i \in Places |-> IF i = at THEN k ELSE 0] : at \in Places}
Detecting == [tool |-> "detect", commands |->
    {Chip(0, size, [i \in Places |-> 1], "fails", echoes, "other", "other") :
        size \in {NoEeprom, Eeprom2404}, echoes \in {0, 1}}
      \cup {Chip(type, size, same, beyond, 4, "other", "other") :
               type \in {1, 4}, size \in NoEeprom .. Eeprom2416,
               same \in Same(1) \cup Same(2), beyond \in {"wraps", "fails"}}
      \cup {Chip(7, Eeprom2404, [i \in Places |-> 0], "wraps", 4, "7002", "other"),
            Chip(8, Eeprom2408, [i \in Places |-> 1], "fails", 4, "7001", "other"),
            Chip(9, Eeprom2404, [i \in Places |-> 1], "wraps", 4, "7003", "other"),
            Chip(9, Eeprom2404, [i \in Places |-> 1], "wraps", 4, "7004", "other"),
            Chip(10, Eeprom2408, [i \in Places |-> 0], "wraps", 4, "7005", "000c")}]
Nobody == [tool |-> "none", commands |-> {}]

\* Whoever comes first, so that the processes stay symmetric.
Both(x, y) == {[a \in Actor |-> IF a = b THEN x ELSE y] : b \in Actor}

MCSittings ==
    UNION ({Both(Rtl(f), Rtl(f)) : f \in Families}
            \cup {Both(Cli(s[1]), Rtl(s[2])) : s \in Sessions}
            \cup {Both(Rtl(Clear), Rtl(Entries)), Both(Rtl(Template), Nobody),
                  Both(Capturing, Rtl(Learners)),
                  Both(Checking, Rtl(Disturbers)), Both(Detecting, Nobody)})

MCMoving == {Flag("loop_found"), Port("link", Phys[3])}
MCInitialHw ==
    {Booted(0), [Booted(1) EXCEPT ![Flag("loop_found")] = 0, ![Port("link", Phys[3])] = 0]}
MCSymmetry == Permutations(Actor)
=============================================================================
