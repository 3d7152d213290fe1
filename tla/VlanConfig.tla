---------------------------- MODULE VlanConfig ----------------------------
(***************************************************************************)
(* VLANs in rrcpcli: the VLAN part of the global swconfig, the commands    *)
(* that edit it (cmd_config_vlan and the switchport commands), and         *)
(* rrcp_config_commit_vlan_to_switch, which copies it to the switch        *)
(* register by register.                                                   *)
(*                                                                         *)
(* A register write may go wrong in the two ways RrcpIo shows: it is       *)
(* reported as failed and the commit goes on, or the process ends inside   *)
(* the commit.  rrcpcli reads the switch once, when it starts.             *)
(***************************************************************************)
EXTENDS Naturals, SequencesExt

CONSTANTS
    NumPorts,   \* switchtypes[switchtype].num_ports
    NumSlots,   \* entries of the VLAN table (32 in the code)
    WordBits,   \* bits of a register (16 in the code)
    Vids,       \* the VLAN numbers the commands name
    Scenarios   \* the bounds of each scenario: vids, the VLAN numbers its
                \* commands name, and list, how many in the list of one;
                \* edits, the commands that edit the cache between two
                \* commits; torn, the commits that do not write every register

DefaultVid == 1
NoVid == 0                    \* vlan_vid of a free slot
NoIndex == NumSlots + WordBits \* what -1 becomes in a port_vlan_index: no slot

ASSUME VlanAssumption ==
    /\ NumPorts \in Nat \ {0}
    /\ NumSlots \in Nat \ {0}
    /\ WordBits \in Nat \ {0}
    /\ Vids \subseteq Nat \ {NoVid}
    /\ DefaultVid \in Vids
    /\ NumPorts <= NumSlots
    /\ NumPorts <= 2 * WordBits
    /\ Scenarios \subseteq [vids : SUBSET Vids, list : Nat, edits : Nat, torn : Nat]

Ports == 0 .. NumPorts - 1
Slots == 0 .. NumSlots - 1
TagBits == 0 .. 4 * WordBits - 1   \* raw[4] of vlan_port_output_tag
Lists(s) == UNION {[1 .. n -> s.vids] : n \in 1 .. s.list}

VARIABLES
    scenario, \* the bounds of this behaviour
    cache,    \* the VLAN fields of swconfig
    hw,       \* the switch's registers, as the same fields
    edits,    \* commands since the last commit that edited the cache
    torn,     \* commits so far that did not write every register
    skipped,  \* history: a register the last commit was to write was not
    sound     \* history: the table was made by "vlan dot1q", and since then no
              \* broken commit was read back and VLAN 1 never lost its slot

vars == <<scenario, cache, hw, edits, torn, skipped, sound>>

Configs == [enable : BOOLEAN, dot1q : BOOLEAN,
            pvid : [Ports -> Slots \cup {NoIndex}], tag : SUBSET TagBits,
            member : [Slots -> SUBSET Ports],
            vid : [Slots -> Vids \cup {NoVid} \cup 2 .. NumSlots], insert : SUBSET Ports]

(***************************************************************************)
(* The table                                                               *)
(***************************************************************************)
SlotsOf(c, v) == {i \in Slots : c.vid[i] = v}

\* find_vlan_index_by_vid
FindVid(c, v) == IF SlotsOf(c, v) = {} THEN NoIndex ELSE Min(SlotsOf(c, v))

IsPvid(c, i) == \E p \in Ports : c.pvid[p] = i

\* A VLAN, given the slot in the table.
InSlot(c, slot, v) ==
    [slot |-> slot,
     config |-> [c EXCEPT !.vid = [i \in Slots |-> IF i = slot THEN v ELSE @[i]]]]

\* Mutant: the second loop runs one slot too far.
FindOrCreatePastEnd(c, v) ==
    LET matching == SlotsOf(c, v) \cup SlotsOf(c, NoVid)
        unused == {i \in Slots : c.member[i] = {} /\ ~IsPvid(c, i)} \cup {NumSlots}
    IN  InSlot(c, IF matching # {} THEN Min(matching) ELSE Min(unused), v)

\* Mutant: a slot some port owns is taken for unused.
FindOrCreateOwned(c, v) ==
    LET matching == SlotsOf(c, v) \cup SlotsOf(c, NoVid)
        unused == {i \in Slots : c.member[i] = {}}
    IN  InSlot(c, IF matching # {} THEN Min(matching)
                  ELSE IF unused # {} THEN Min(unused) ELSE NoIndex, v)

\* find_or_create_vlan_index_by_vid: the slot, and the table that has it.
FindOrCreate(c, v) ==
    LET matching == SlotsOf(c, v) \cup SlotsOf(c, NoVid)
        unused == {i \in Slots : c.member[i] = {} /\ ~IsPvid(c, i)}
    IN  InSlot(c, IF matching # {} THEN Min(matching)
                  ELSE IF unused # {} THEN Min(unused) ELSE NoIndex, v)

\* A port out of every VLAN.
Leave(c, p) == [c EXCEPT !.member = [i \in Slots |-> @[i] \ {p}]]
Join(c, p, i) == [c EXCEPT !.member[i] = @ \cup {p}]

\* Mutant: the ports that own the VLAN are left with its slot.
RemoveVlanKeepsPorts(c, v) ==
    LET vi == FindVid(c, v)
    IN  [c EXCEPT !.member = [i \in Slots |-> IF i = vi THEN {} ELSE @[i]],
                  !.vid = [i \in Slots |-> IF i = vi /\ v # DefaultVid THEN NoVid ELSE @[i]]]

\* One VLAN of the list of "no vlan": its slot is emptied and, but for VLAN 1,
\* freed; the ports that had it as their own go to VLAN 1.  When VLAN 1 has no
\* slot they get index -1, and bitmap[-1] is the second half of the tag field.
RemoveVlan(c, v) ==
    LET vi == FindVid(c, v)
        freed == [c EXCEPT !.member[vi] = {},
                           !.vid[vi] = IF v = DefaultVid THEN @ ELSE NoVid]
        home == FindVid(freed, DefaultVid)
        moved == {p \in Ports : c.pvid[p] = vi}
        rehomed == [freed EXCEPT !.pvid = [p \in Ports |-> IF p \in moved THEN home ELSE @[p]]]
    IN  IF vi = NoIndex THEN c
        ELSE IF home = NoIndex THEN [rehomed EXCEPT !.tag = @ \cup {2 * WordBits + p : p \in moved}]
        ELSE [rehomed EXCEPT !.member[home] = @ \cup moved]

RemoveVlans(c, list) ==
    LET after[n \in 0 .. Len(list)] ==
            IF n = 0 THEN c ELSE RemoveVlan(after[n - 1], list[n])
    IN  after[Len(list)]

\* One VLAN of the list of "switchport trunk allowed vlan"; the command stops
\* at the first that does not fit, and keeps those before it.
AllowVlan(p, r, v) ==
    LET found == FindOrCreate(r.config, v)
    IN  IF ~r.fits THEN r
        ELSE IF found.slot = NoIndex THEN [r EXCEPT !.fits = FALSE]
        ELSE [r EXCEPT !.config = Join(found.config, p, found.slot)]

AllowVlans(c, p, list) ==
    LET after[n \in 0 .. Len(list)] ==
            IF n = 0 THEN [config |-> c, fits |-> TRUE]
            ELSE AllowVlan(p, after[n - 1], list[n])
    IN  after[Len(list)].config

(***************************************************************************)
(* rrcp_config_commit_vlan_to_switch                                       *)
(***************************************************************************)
CeilDiv(a, b) == (a + b - 1) \div b
Words(field, count) == [i \in 1 .. count |-> <<field, i - 1>>]

\* Slot after slot, its member words and then its VLAN number.
SlotWords ==
    LET words == CeilDiv(NumPorts, WordBits)
        each == words + 1
    IN  [k \in 1 .. NumSlots * each |->
            LET i == (k - 1) \div each
                w == (k - 1) % each
            IN  IF w < words THEN <<"member", i, w>> ELSE <<"vid", i>>]

\* Mutant: the commit leaves out the output tags.
CommitOrderNoTags ==
    <<<<"mode", 0>>>>
    \o Words("pvid", CeilDiv(NumPorts, 2))
    \o SlotWords
    \o Words("insert", NumPorts \div WordBits)

\* The registers a commit writes, in order: tags have two bits a port, and of
\* the last field only full words are written.
CommitOrder ==
    <<<<"mode", 0>>>>
    \o Words("pvid", CeilDiv(NumPorts, 2))
    \o Words("tag", CeilDiv(2 * NumPorts, WordBits))
    \o SlotWords
    \o Words("insert", NumPorts \div WordBits)

\* The registers h after those in W are written from c.
Written(h, c, W) ==
    LET Mix(S, T, field) == {b \in S \cup T : IF <<field, b \div WordBits>> \in W
                                               THEN b \in S ELSE b \in T}
    IN  [enable |-> IF <<"mode", 0>> \in W THEN c.enable ELSE h.enable,
         dot1q  |-> IF <<"mode", 0>> \in W THEN c.dot1q ELSE h.dot1q,
         pvid   |-> [p \in Ports |-> IF <<"pvid", p \div 2>> \in W THEN c.pvid[p] ELSE h.pvid[p]],
         tag    |-> Mix(c.tag, h.tag, "tag"),
         member |-> [i \in Slots |->
                        {p \in Ports : IF <<"member", i, p \div WordBits>> \in W
                                       THEN p \in c.member[i] ELSE p \in h.member[i]}],
         vid    |-> [i \in Slots |-> IF <<"vid", i>> \in W THEN c.vid[i] ELSE h.vid[i]],
         insert |-> Mix(c.insert, h.insert, "insert")]

CommitRegs == ToSet(CommitOrder)

\* The command makes c of the cache and commits it: every register is
\* written; or all but one, reported as failed; or the process ends on the
\* way, and the next one reads what it left.
Commit(c, stillSound) ==
    /\ edits' = 0
    /\ \/ /\ cache' = c
          /\ hw' = Written(hw, c, CommitRegs)
          /\ skipped' = FALSE
          /\ sound' = stillSound
          /\ UNCHANGED torn
       \/ \E failed \in CommitRegs :
             /\ torn < scenario.torn
             /\ torn' = torn + 1
             /\ cache' = c
             /\ hw' = Written(hw, c, CommitRegs \ {failed})
             /\ skipped' = TRUE
             /\ sound' = stillSound
       \/ \E k \in 0 .. Len(CommitOrder) - 1 :
             /\ torn < scenario.torn
             /\ torn' = torn + 1
             /\ hw' = Written(hw, c, {CommitOrder[i] : i \in 1 .. k})
             /\ cache' = hw'
             /\ skipped' = FALSE
             /\ sound' = FALSE

StillSound(c) == sound /\ SlotsOf(c, DefaultVid) # {}

(***************************************************************************)
(* The commands                                                            *)
(***************************************************************************)
NoVlanMode == Commit([cache EXCEPT !.enable = FALSE, !.dot1q = FALSE], sound)

VlanPortbased ==
    Commit([cache EXCEPT !.vid = [i \in Slots |-> IF i = 0 THEN @[0] ELSE i + 1],
                         !.pvid = [p \in Ports |-> 0],
                         !.insert = {}, !.enable = TRUE, !.dot1q = FALSE],
           FALSE)

VlanDot1q ==
    /\ ~(cache.dot1q /\ cache.enable)
    /\ Commit([cache EXCEPT !.vid = [i \in Slots |-> IF i = 0 THEN DefaultVid ELSE NoVid],
                            !.member = [i \in Slots |-> IF i = 0 THEN Ports ELSE {}],
                            !.pvid = [p \in Ports |-> 0],
                            !.insert = {}, !.enable = TRUE, !.dot1q = TRUE],
              TRUE)

NoVlan(list) ==
    LET c == RemoveVlans(cache, list)
    IN  Commit(c, StillSound(c))

\* The port leaves every VLAN, and joins none.  The tag field is handled as
\* one bit a port.
SwitchportMode(p, mode) ==
    LET c == Leave(cache, p)
    IN  Commit(IF mode = "trunk"
               THEN [c EXCEPT !.insert = @ \cup {p}, !.tag = @ \cup {p}]
               ELSE [c EXCEPT !.insert = @ \ {p}, !.tag = @ \ {p}],
               sound)

AccessVlan(p, v) ==
    LET found == FindOrCreate(cache, v)
        c == [Join(Leave(found.config, p), p, found.slot) EXCEPT !.pvid[p] = found.slot]
    IN  found.slot # NoIndex /\ Commit(c, StillSound(c))

NativeVlan(p, v) ==
    LET found == FindOrCreate(cache, v)
        c == [found.config EXCEPT !.pvid[p] = found.slot]
    IN  found.slot # NoIndex /\ Commit(c, StillSound(c))

\* Nothing is committed.
AllowedVlan(p, list) ==
    LET c == AllowVlans(cache, p, list)
    IN  /\ edits < scenario.edits
        /\ c # cache
        /\ cache' = c
        /\ edits' = edits + 1
        /\ sound' = StillSound(c)
        /\ UNCHANGED <<hw, torn, skipped>>

\* rrcpcli ends between two commands and is started again:
\* rrcp_config_read_from_switch.
Restart ==
    /\ cache' = hw
    /\ edits' = 0
    /\ skipped' = FALSE
    /\ sound' = (sound /\ ~skipped)
    /\ UNCHANGED <<hw, torn>>
-----------------------------------------------------------------------------
\* A switch with its default registers: VLANs off, each port the owner of its
\* slot and a member there beside the last two, no VLAN numbers.
DefaultConfig ==
    LET uplinks == {p \in Ports : p + 2 >= NumPorts}
    IN  [enable |-> FALSE, dot1q |-> FALSE,
         pvid |-> [p \in Ports |-> p],
         tag |-> 0 .. 2 * NumPorts - 1,
         member |-> [i \in Slots |-> IF i \notin Ports THEN {}
                                     ELSE IF i \in uplinks THEN Ports
                                     ELSE {i} \cup uplinks],
         vid |-> [i \in Slots |-> NoVid],
         insert |-> {}]

Init ==
    /\ scenario \in Scenarios
    /\ hw = DefaultConfig
    /\ cache = hw
    /\ edits = 0
    /\ torn = 0
    /\ skipped = FALSE
    /\ sound = FALSE

Command ==
    \/ NoVlanMode \/ VlanPortbased \/ VlanDot1q
    \/ \E list \in Lists(scenario) : NoVlan(list)
    \/ \E p \in Ports :
          \/ \E mode \in {"trunk", "access"} : SwitchportMode(p, mode)
          \/ \E v \in scenario.vids : AccessVlan(p, v) \/ NativeVlan(p, v)
          \/ \E list \in Lists(scenario) : AllowedVlan(p, list)

Next == (Command \/ Restart) /\ UNCHANGED scenario

Spec == Init /\ [][Next]_vars
-----------------------------------------------------------------------------
(***************************************************************************)
(* Properties                                                              *)
(***************************************************************************)
\* The fields hold values of their kinds.
TypeOK ==
    /\ cache \in Configs
    /\ hw \in Configs
    /\ scenario \in Scenarios
    /\ edits \in 0 .. scenario.edits
    /\ torn \in 0 .. scenario.torn
    /\ skipped \in BOOLEAN
    /\ sound \in BOOLEAN

\* In a table that "vlan dot1q" made, whatever was added, removed and reused
\* since, every port's own VLAN is one of the table, and a free slot has no
\* members left that would leak into the next VLAN to get it.
TableConsistent ==
    sound => /\ \A p \in Ports : cache.pvid[p] \in Slots /\ cache.vid[cache.pvid[p]] # NoVid
             /\ \A i \in Slots : cache.vid[i] = NoVid => cache.member[i] = {}

\* A slot is given to a new VLAN only when no port is in it or owned by it, so
\* a command for one port never moves another into a new VLAN.  ("vlan dot1q"
\* is for all ports.)
NewVlanIsEmpty ==
    [][\A i \in Slots :
          /\ cache'.vid[i] \notin {cache.vid[i], NoVid}
          /\ sound /\ sound' /\ ~Restart /\ ~VlanDot1q
          => cache.member[i] = {} /\ ~IsPvid(cache, i)]_vars

\* When no edit waits for a commit and the last commit failed at no register,
\* the registers hold what swconfig says, and so they do after the commit that
\* follows a broken one: but for the halves of the tag field that no port has,
\* and for the insert bits of the ports that do not fill a register.
HwFollowsCache ==
    LET tags == 0 .. 2 * NumPorts - 1
        inserts == 0 .. WordBits * (NumPorts \div WordBits) - 1
    IN  edits = 0 /\ ~skipped =>
            hw = [cache EXCEPT !.tag = (@ \cap tags) \cup (hw.tag \ tags),
                               !.insert = (@ \cap inserts) \cup (hw.insert \ inserts)]

\* "no vlan <list>" removes the VLANs of its list.
NoVlanRemoves ==
    [][\A list \in Lists(scenario) :
          sound /\ sound' /\ NoVlan(list) =>
              \A i \in Slots : cache'.vid[i] \notin ToSet(list) \ {DefaultVid}]_vars
=============================================================================
