--------------------------- MODULE VlanConfigProof ---------------------------
(***************************************************************************)
(* Proofs about VlanConfig, for any number of ports and of slots, any      *)
(* width of a register that two of them have a bit for every port, and any *)
(* lists of VLANs.                                                         *)
(***************************************************************************)
EXTENDS VlanConfig, WellFoundedInduction, TLAPS

(***************************************************************************)
(* The inductive invariant.                                                *)
(***************************************************************************)
\* What a table in use keeps to, and VLAN 1 has a slot in it: the ports of a
\* VLAN removed go there.
Tidy(c) ==
    /\ \A p \in Ports : c.pvid[p] \in Slots /\ c.vid[c.pvid[p]] # NoVid
    /\ \A i \in Slots : c.vid[i] = NoVid => c.member[i] = {}
HasHome(c) == SlotsOf(c, DefaultVid) # {}

\* The registers are what the next process begins with, unless it is unsound.
IInv ==
    /\ TypeOK
    /\ sound => Tidy(cache) /\ HasHome(cache)
    /\ sound /\ ~skipped => Tidy(hw) /\ HasHome(hw)
    /\ HwFollowsCache
-----------------------------------------------------------------------------
(***************************************************************************)
(* Numbers and lists                                                       *)
(***************************************************************************)
LEMMA Numbers ==
    /\ NumPorts \in Nat \ {0} /\ NumSlots \in Nat \ {0} /\ WordBits \in Nat \ {0}
    /\ NumPorts <= NumSlots /\ NumPorts <= 2 * WordBits
    /\ Vids \subseteq Nat \ {NoVid} /\ DefaultVid \in Vids
    /\ NoIndex \notin Slots
BY VlanAssumption DEF NoIndex, Slots

\* Of the numbers with something in common one is the least.
LEMMA Least ==
    ASSUME NEW S \in SUBSET Nat, S # {}
    PROVE  \E n \in S : \A k \in S : n <= k
<1>1. PICK n \in S : \A k \in S : <<k, n>> \notin OpToRel(<, Nat)
  BY NatLessThanWellFounded, WFMin, Zenon
<1>2. \A k \in S : ~ (k < n)
  BY <1>1, Zenon DEF OpToRel
<1> QED
  BY <1>2

LEMMA MinIsIn == ASSUME NEW S \in SUBSET Nat, S # {} PROVE Min(S) \in S
BY Least DEF Min

\* The word of a bit is one of those that make up so many bits.
LEMMA WordOf ==
    ASSUME NEW n \in Nat, NEW w \in Nat \ {0}, NEW b \in 0 .. n - 1
    PROVE  CeilDiv(n, w) \in Nat /\ b \div w \in 0 .. CeilDiv(n, w) - 1
<1> DEFINE q == b \div w
           r == (n + w - 1) \div w
<1>1. q \in Nat /\ w * q <= b /\ b < w * q + w
  OBVIOUS
<1>2. r \in Nat /\ w * r <= n + w - 1 /\ n + w - 1 < w * r + w
  OBVIOUS
<1>3. w * q \in Nat /\ w * r \in Nat
  BY <1>1, <1>2
<1>4. q < r
  <2>1. SUFFICES ASSUME r <= q PROVE FALSE
    BY <1>1, <1>2
  <2>2. w * r <= w * q
    BY <1>1, <1>2, <2>1
  <2> HIDE DEF q, r
  <2> QED
    BY <1>1, <1>2, <1>3, <2>2
<1> QED
  BY <1>1, <1>2, <1>4 DEF CeilDiv

\* A register a commit writes, and a sequence of them.
Regs ==
    ({"mode", "pvid", "tag", "vid", "insert"} \X Nat) \cup ({"member"} \X Nat \X Nat)

LEMMA Joined ==
    ASSUME NEW s \in Seq(Regs), NEW t \in Seq(Regs)
    PROVE  s \o t \in Seq(Regs) /\ ToSet(s) \cup ToSet(t) \subseteq ToSet(s \o t)
<1>1. s \o t \in Seq(Regs) /\ Len(s \o t) = Len(s) + Len(t)
  OBVIOUS
<1>2. ASSUME NEW i \in 1 .. Len(s) PROVE s[i] \in ToSet(s \o t)
  <2>1. i \in 1 .. Len(s \o t) /\ (s \o t)[i] = s[i]
    BY <1>1
  <2> QED
    BY <2>1, <1>1 DEF ToSet
<1>3. ASSUME NEW i \in 1 .. Len(t) PROVE t[i] \in ToSet(s \o t)
  <2>1. Len(s) + i \in 1 .. Len(s \o t) /\ (s \o t)[Len(s) + i] = t[i]
    BY <1>1
  <2> QED
    BY <2>1, <1>1 DEF ToSet
<1>4. (\A x \in ToSet(s) : \E i \in 1 .. Len(s) : x = s[i])
      /\ \A x \in ToSet(t) : \E i \in 1 .. Len(t) : x = t[i]
  BY DEF ToSet
<1> QED
  BY <1>1, <1>2, <1>3, <1>4

LEMMA InWords ==
    ASSUME NEW field \in {"mode", "pvid", "tag", "vid", "insert"}, NEW count \in Nat
    PROVE  /\ Words(field, count) \in Seq(Regs)
           /\ \A w \in 0 .. count - 1 : <<field, w>> \in ToSet(Words(field, count))
<1>1. \A i \in 1 .. count : <<field, i - 1>> \in Regs
  BY DEF Regs
<1>2. Words(field, count) \in Seq(Regs) /\ DOMAIN Words(field, count) = 1 .. count
  BY <1>1 DEF Words
<1>3. ASSUME NEW w \in 0 .. count - 1 PROVE <<field, w>> \in ToSet(Words(field, count))
  <2>1. w + 1 \in 1 .. count /\ Words(field, count)[w + 1] = <<field, w>>
    BY DEF Words
  <2> QED
    BY <1>2, <2>1 DEF ToSet
<1> QED
  BY <1>2, <1>3

\* Slot i has its words at i times its length, and its VLAN number behind them.
LEMMA InSlotWords ==
    /\ SlotWords \in Seq(Regs)
    /\ \A i \in Slots, w \in 0 .. CeilDiv(NumPorts, WordBits) - 1 :
          <<"member", i, w>> \in ToSet(SlotWords)
    /\ \A i \in Slots : <<"vid", i>> \in ToSet(SlotWords)
<1> DEFINE words == CeilDiv(NumPorts, WordBits)
           each == words + 1
           At(k) == IF (k - 1) % each < words THEN <<"member", (k - 1) \div each, (k - 1) % each>>
                    ELSE <<"vid", (k - 1) \div each>>
<1>1. words \in Nat /\ each \in Nat \ {0}
  <2>1. 0 \in 0 .. NumPorts - 1 /\ NumPorts \in Nat /\ WordBits \in Nat \ {0}
    BY Numbers
  <2>2. CeilDiv(NumPorts, WordBits) \in Nat
    BY <2>1, WordOf
  <2> HIDE DEF words
  <2>3. words \in Nat
    BY <2>2 DEF words
  <2> QED
    BY <2>3
<1>2. SlotWords = [k \in 1 .. NumSlots * each |-> At(k)]
  BY DEF SlotWords
<1> HIDE DEF words
<1>3. NumSlots * each \in Nat
  BY <1>1, Numbers
<1>4. \A k \in 1 .. NumSlots * each : At(k) \in Regs
  <2> SUFFICES ASSUME NEW k \in 1 .. NumSlots * each PROVE At(k) \in Regs
    OBVIOUS
  <2>1. k - 1 \in Nat
    BY <1>3
  <2>2. (k - 1) \div each \in Nat /\ (k - 1) % each \in Nat
    BY <1>1, <2>1
  <2> QED
    BY <2>2 DEF Regs
<1>5. SlotWords \in Seq(Regs) /\ DOMAIN SlotWords = 1 .. NumSlots * each
  <2> HIDE DEF At, each
  <2> QED
    BY <1>2, <1>3, <1>4
<1>6. ASSUME NEW i \in Slots, NEW w \in 0 .. words
      PROVE  /\ i * each + w + 1 \in 1 .. NumSlots * each
             /\ (i * each + w) \div each = i /\ (i * each + w) % each = w
  <2>1. i \in Nat /\ i + 1 <= NumSlots /\ w \in Nat /\ w < each
    BY <1>1, Numbers DEF Slots
  <2>2. (i + 1) * each <= NumSlots * each /\ (i + 1) * each = i * each + each
    BY <1>1, <2>1, Numbers
  <2>3. i * each \in Nat
    BY <1>1, <2>1
  <2>4. i * each + w + 1 \in 1 .. NumSlots * each
    BY <1>1, <1>3, <2>1, <2>2, <2>3
  <2>5. (i * each + w) \div each = i /\ (i * each + w) % each = w
    BY <1>1, <2>1, <2>3
  <2> QED
    BY <2>4, <2>5
<1>7. ASSUME NEW i \in Slots, NEW w \in 0 .. words
      PROVE  (IF w < words THEN <<"member", i, w>> ELSE <<"vid", i>>) \in ToSet(SlotWords)
  <2> DEFINE k == i * each + w + 1
  <2>1. k \in 1 .. NumSlots * each /\ (k - 1) \div each = i /\ (k - 1) % each = w
    <3>1. k - 1 = i * each + w
      BY <1>1, Numbers DEF Slots
    <3> QED
      BY <1>6, <3>1
  <2>2. SlotWords[k] = IF w < words THEN <<"member", i, w>> ELSE <<"vid", i>>
    BY <1>2, <2>1
  <2> QED
    BY <1>5, <2>1, <2>2 DEF ToSet
<1>8. ASSUME NEW i \in Slots, NEW w \in 0 .. words - 1 PROVE <<"member", i, w>> \in ToSet(SlotWords)
  <2>1. w \in 0 .. words /\ w < words
    BY <1>1
  <2> QED
    BY <1>7, <2>1
<1>9. ASSUME NEW i \in Slots PROVE <<"vid", i>> \in ToSet(SlotWords)
  <2>1. words \in 0 .. words /\ ~ (words < words)
    BY <1>1
  <2> QED
    BY <1>7, <2>1
<1> QED
  BY <1>5, <1>8, <1>9 DEF words

-----------------------------------------------------------------------------
(***************************************************************************)
(* The commit                                                              *)
(***************************************************************************)
Tags == 0 .. 2 * NumPorts - 1
Inserts == 0 .. WordBits * (NumPorts \div WordBits) - 1

\* A whole commit writes a register for every field of every port and slot.
LEMMA CommitCovers ==
    /\ <<"mode", 0>> \in CommitRegs
    /\ \A p \in Ports : <<"pvid", p \div 2>> \in CommitRegs
    /\ \A b \in Tags : <<"tag", b \div WordBits>> \in CommitRegs
    /\ \A i \in Slots, p \in Ports : <<"member", i, p \div WordBits>> \in CommitRegs
    /\ \A i \in Slots : <<"vid", i>> \in CommitRegs
    /\ \A b \in Inserts : <<"insert", b \div WordBits>> \in CommitRegs
<1> DEFINE mode == <<<<"mode", 0>>>>
           pvid == Words("pvid", CeilDiv(NumPorts, 2))
           tag == Words("tag", CeilDiv(2 * NumPorts, WordBits))
           insert == Words("insert", NumPorts \div WordBits)
<1>1. \A p \in Ports : p \div 2 \in 0 .. CeilDiv(NumPorts, 2) - 1
  <2>1. \A w \in Nat \ {0} : \A p \in Ports : p \div w \in 0 .. CeilDiv(NumPorts, w) - 1
    BY Numbers, WordOf DEF Ports
  <2>2. 2 \in Nat \ {0}
    OBVIOUS
  <2> QED
    BY <2>1, <2>2
<1>2. \A b \in Tags : b \div WordBits \in 0 .. CeilDiv(2 * NumPorts, WordBits) - 1
  <2>1. 2 * NumPorts \in Nat /\ WordBits \in Nat \ {0}
    BY Numbers
  <2> QED
    BY <2>1, WordOf DEF Tags
<1>3. \A p \in Ports : p \div WordBits \in 0 .. CeilDiv(NumPorts, WordBits) - 1
  BY Numbers, WordOf DEF Ports
<1>4. \A b \in Inserts : b \div WordBits \in 0 .. NumPorts \div WordBits - 1
  <2> DEFINE n == NumPorts \div WordBits
  <2>1. n \in Nat /\ WordBits \in Nat \ {0}
    BY Numbers
  <2> HIDE DEF n
  <2>2. ASSUME NEW b \in 0 .. WordBits * n - 1 PROVE b \div WordBits \in 0 .. n - 1
    <3> DEFINE q == b \div WordBits
    <3>1. WordBits * n \in Nat
      BY <2>1
    <3>2. b \in Nat /\ b < WordBits * n
      BY <3>1
    <3>3. q \in Nat /\ WordBits * q <= b
      BY <2>1, <3>2
    <3> HIDE DEF q
    <3>4. WordBits * q \in Nat
      BY <2>1, <3>3
    <3>5. q < n
      <4>1. SUFFICES ASSUME n <= q PROVE FALSE
        BY <2>1, <3>3
      <4>2. WordBits * n <= WordBits * q
        BY <2>1, <3>3, <4>1
      <4> QED
        BY <3>1, <3>2, <3>3, <3>4, <4>2
    <3> QED
      BY <2>1, <3>3, <3>5 DEF q
  <2> QED
    BY <2>2 DEF n, Inserts
<1>5. CeilDiv(NumPorts, 2) \in Nat /\ CeilDiv(2 * NumPorts, WordBits) \in Nat /\ NumPorts \div WordBits \in Nat
  <2>1. 0 \in 0 .. NumPorts - 1 /\ 0 \in 0 .. 2 * NumPorts - 1 /\ 2 * NumPorts \in Nat
    BY Numbers
  <2>2. CeilDiv(NumPorts, 2) \in Nat /\ CeilDiv(2 * NumPorts, WordBits) \in Nat
    BY <2>1, Numbers, WordOf
  <2>3. NumPorts \div WordBits \in Nat
    BY Numbers
  <2> QED
    BY <2>2, <2>3
<1>6. mode \in Seq(Regs) /\ pvid \in Seq(Regs) /\ tag \in Seq(Regs) /\ insert \in Seq(Regs)
  <2>1. mode \in Seq(Regs)
    BY DEF Regs
  <2> QED
    BY <1>5, <2>1, InWords
<1>7. CommitOrder = (((mode \o pvid) \o tag) \o SlotWords) \o insert
  BY DEF CommitOrder
<1>8. ToSet(mode) \cup ToSet(pvid) \cup ToSet(tag) \cup ToSet(SlotWords) \cup ToSet(insert) \subseteq CommitRegs
  <2> HIDE DEF mode, pvid, tag, insert
  <2>1. mode \o pvid \in Seq(Regs) /\ ToSet(mode) \cup ToSet(pvid) \subseteq ToSet(mode \o pvid)
    BY <1>6, Joined
  <2> DEFINE a == mode \o pvid
             b == a \o tag
             c == b \o SlotWords
  <2> HIDE DEF a
  <2>2. b \in Seq(Regs) /\ ToSet(a) \cup ToSet(tag) \subseteq ToSet(b)
    BY <1>6, <2>1, Joined DEF a
  <2> HIDE DEF b
  <2>3. c \in Seq(Regs) /\ ToSet(b) \cup ToSet(SlotWords) \subseteq ToSet(c)
    BY <2>2, Joined, InSlotWords
  <2> HIDE DEF c
  <2>4. ToSet(c) \cup ToSet(insert) \subseteq ToSet(c \o insert)
    BY <1>6, <2>3, Joined
  <2>5. CommitRegs = ToSet(c \o insert)
    BY <1>7 DEF CommitRegs, a, b, c
  <2>6. ToSet(mode) \cup ToSet(pvid) \subseteq ToSet(a)
    BY <2>1 DEF a
  <2> QED
    BY <2>2, <2>3, <2>4, <2>5, <2>6
<1>9. <<"mode", 0>> \in ToSet(mode)
  BY DEF ToSet
<1>10. \A p \in Ports : <<"pvid", p \div 2>> \in ToSet(pvid)
  BY <1>1, <1>5, InWords
<1>11. \A b \in Tags : <<"tag", b \div WordBits>> \in ToSet(tag)
  BY <1>2, <1>5, InWords
<1>12. \A b \in Inserts : <<"insert", b \div WordBits>> \in ToSet(insert)
  BY <1>4, <1>5, InWords
<1> HIDE DEF mode, pvid, tag, insert
<1> QED
  BY <1>3, <1>8, <1>9, <1>10, <1>11, <1>12, InSlotWords

\* Whatever registers are written, fields of values of their kinds result.
LEMMA WrittenType ==
    ASSUME NEW h \in Configs, NEW c \in Configs, NEW W
    PROVE  Written(h, c, W) \in Configs
<1> DEFINE w == Written(h, c, W)
<1>1. w.enable \in BOOLEAN /\ w.dot1q \in BOOLEAN
  BY DEF Written, Configs
<1>2. w.pvid \in [Ports -> Slots \cup {NoIndex}]
  BY DEF Written, Configs
<1>3. w.tag \in SUBSET TagBits /\ w.insert \in SUBSET Ports
  BY DEF Written, Configs
<1>4. w.member \in [Slots -> SUBSET Ports]
  BY DEF Written, Configs
<1>5. w.vid \in [Slots -> Vids \cup {NoVid} \cup 2 .. NumSlots]
  BY DEF Written, Configs
<1>6. w = [enable |-> w.enable, dot1q |-> w.dot1q, pvid |-> w.pvid, tag |-> w.tag,
           member |-> w.member, vid |-> w.vid, insert |-> w.insert]
  BY DEF Written
<1> HIDE DEF w
<1>7. w \in Configs
  BY <1>1, <1>2, <1>3, <1>4, <1>5, <1>6 DEF Configs
<1> QED
  BY <1>7 DEF w

\* A whole commit leaves the fields of the cache in the registers, but for
\* bits of the tags and of the insert field that it writes no register for.
LEMMA WrittenWhole ==
    ASSUME NEW h \in Configs, NEW c \in Configs
    PROVE  LET w == Written(h, c, CommitRegs)
           IN  /\ w.enable = c.enable /\ w.dot1q = c.dot1q
               /\ w.pvid = c.pvid /\ w.member = c.member /\ w.vid = c.vid
               /\ w = [c EXCEPT !.tag = (@ \cap Tags) \cup (w.tag \ Tags),
                                !.insert = (@ \cap Inserts) \cup (w.insert \ Inserts)]
<1> DEFINE w == Written(h, c, CommitRegs)
<1>1. w.enable = c.enable /\ w.dot1q = c.dot1q
  BY CommitCovers DEF Written
<1>2. w.pvid = c.pvid
  BY CommitCovers DEF Written, Configs
<1>3. w.vid = c.vid
  BY CommitCovers DEF Written, Configs
<1>4. w.member = c.member
  <2>1. ASSUME NEW i \in Slots PROVE w.member[i] = c.member[i]
    <3>1. w.member[i] = {p \in Ports : p \in c.member[i]}
      BY CommitCovers DEF Written
    <3> QED
      BY <3>1 DEF Configs
  <2>2. DOMAIN w.member = Slots /\ DOMAIN c.member = Slots
    BY DEF Written, Configs
  <2>3. w.member = [i \in Slots |-> w.member[i]] /\ c.member = [i \in Slots |-> c.member[i]]
    BY DEF Written, Configs
  <2> QED
    BY <2>1, <2>2, <2>3
<1>5. w.tag = (c.tag \cap Tags) \cup (w.tag \ Tags)
  <2>1. \A b \in Tags : b \in w.tag <=> b \in c.tag
    BY CommitCovers DEF Written
  <2> QED
    BY <2>1
<1>6. w.insert = (c.insert \cap Inserts) \cup (w.insert \ Inserts)
  <2>1. \A b \in Inserts : b \in w.insert <=> b \in c.insert
    BY CommitCovers DEF Written
  <2> QED
    BY <2>1
<1>7. w \in Configs
  BY WrittenType
<1> HIDE DEF w
<1>8. w = [c EXCEPT !.tag = (@ \cap Tags) \cup (w.tag \ Tags),
                    !.insert = (@ \cap Inserts) \cup (w.insert \ Inserts)]
  BY <1>1, <1>2, <1>3, <1>4, <1>5, <1>6, <1>7 DEF Configs
<1> QED
  BY <1>1, <1>2, <1>3, <1>4, <1>8 DEF w

-----------------------------------------------------------------------------
(***************************************************************************)
(* The edits of the table                                                  *)
(***************************************************************************)
\* A VLAN takes a slot over only when nobody is in it or owns it.
NewEmpty(c, d) ==
    \A i \in Slots : d.vid[i] \notin {c.vid[i], NoVid} => c.member[i] = {} /\ ~IsPvid(c, i)

VidRange == Vids \cup {NoVid} \cup 2 .. NumSlots

LEMMA FieldTypes ==
    ASSUME NEW c \in Configs
    PROVE  /\ c.pvid \in [Ports -> Slots \cup {NoIndex}] /\ c.vid \in [Slots -> VidRange]
           /\ c.member \in [Slots -> SUBSET Ports] /\ c.tag \subseteq TagBits /\ c.insert \subseteq Ports
           /\ c.enable \in BOOLEAN /\ c.dot1q \in BOOLEAN
BY DEF Configs, VidRange

\* find_vlan_index_by_vid gives a slot of the VLAN, if there is one.
LEMMA FoundVid ==
    ASSUME NEW c \in Configs, NEW v
    PROVE  \/ FindVid(c, v) = NoIndex /\ SlotsOf(c, v) = {}
           \/ FindVid(c, v) \in Slots /\ c.vid[FindVid(c, v)] = v
<1>1. SlotsOf(c, v) \in SUBSET Nat /\ SlotsOf(c, v) \subseteq Slots
  BY Numbers DEF SlotsOf, Slots
<1>2. CASE SlotsOf(c, v) = {}
  BY <1>2 DEF FindVid
<1>3. CASE SlotsOf(c, v) # {}
  <2>1. FindVid(c, v) \in SlotsOf(c, v)
    BY <1>1, <1>3, MinIsIn DEF FindVid
  <2> QED
    BY <2>1 DEF SlotsOf
<1> QED
  BY <1>2, <1>3

\* find_or_create_vlan_index_by_vid gives a slot of the VLAN, a free one or
\* an unused one, and puts the VLAN there; or there is none.
LEMMA Found ==
    ASSUME NEW c \in Configs, NEW v \in Vids
    PROVE  LET f == FindOrCreate(c, v)
           IN  \/ f.slot = NoIndex
               \/ /\ f.slot \in Slots
                  /\ f.config \in Configs
                  /\ f.config.pvid = c.pvid /\ f.config.member = c.member
                  /\ f.config.vid = [c.vid EXCEPT ![f.slot] = v]
                  /\ \/ c.vid[f.slot] \in {v, NoVid}
                     \/ c.member[f.slot] = {} /\ ~IsPvid(c, f.slot)
<1> DEFINE matching == SlotsOf(c, v) \cup SlotsOf(c, NoVid)
           unused == {i \in Slots : c.member[i] = {} /\ ~IsPvid(c, i)}
           s == IF matching # {} THEN Min(matching)
                ELSE IF unused # {} THEN Min(unused) ELSE NoIndex
           d == [c EXCEPT !.vid = [i \in Slots |-> IF i = s THEN v ELSE @[i]]]
<1>1. FindOrCreate(c, v) = [slot |-> s, config |-> d]
  BY DEF FindOrCreate, InSlot
<1>2. matching \in SUBSET Nat /\ unused \in SUBSET Nat
  BY Numbers DEF SlotsOf, Slots
<1>3. \/ s = NoIndex
      \/ s \in matching
      \/ s \in unused
  <2> HIDE DEF matching, unused
  <2> QED
    BY <1>2, MinIsIn
<1>4. \/ s = NoIndex
      \/ s \in Slots /\ (c.vid[s] \in {v, NoVid} \/ (c.member[s] = {} /\ ~IsPvid(c, s)))
  BY <1>3 DEF SlotsOf
<1> HIDE DEF s
<1>5. ASSUME s \in Slots
      PROVE  d \in Configs /\ d.pvid = c.pvid /\ d.member = c.member /\ d.vid = [c.vid EXCEPT ![s] = v]
  <2>1. d.pvid = c.pvid /\ d.member = c.member /\ d.vid = [i \in Slots |-> IF i = s THEN v ELSE c.vid[i]]
    BY DEF Configs
  <2>2. d.vid = [c.vid EXCEPT ![s] = v]
    BY <1>5, <2>1, FieldTypes
  <2>3. d.vid \in [Slots -> VidRange]
    BY <2>1, FieldTypes DEF VidRange
  <2>4. d \in Configs
    BY <2>3 DEF Configs, VidRange
  <2> QED
    BY <2>1, <2>2, <2>4
<1> HIDE DEF d
<1> QED
  BY <1>1, <1>4, <1>5

LEMMA FoundTidy ==
    ASSUME NEW c \in Configs, NEW v \in Vids, FindOrCreate(c, v).slot # NoIndex, Tidy(c)
    PROVE  /\ Tidy(FindOrCreate(c, v).config)
           /\ NewEmpty(c, FindOrCreate(c, v).config)
<1> DEFINE f == FindOrCreate(c, v)
           s == f.slot
           d == f.config
<1>1. /\ s \in Slots /\ d.pvid = c.pvid /\ d.member = c.member
      /\ d.vid = [c.vid EXCEPT ![s] = v]
      /\ c.vid[s] \in {v, NoVid} \/ (c.member[s] = {} /\ ~IsPvid(c, s))
  BY Found
<1>2. v # NoVid
  BY Numbers
<1> HIDE DEF s, d
<1>3. \A i \in Slots : d.vid[i] = IF i = s THEN v ELSE c.vid[i]
  BY <1>1, FieldTypes
<1>4. Tidy(d)
  BY <1>1, <1>2, <1>3 DEF Tidy
<1>5. NewEmpty(c, d)
  BY <1>1, <1>2, <1>3 DEF NewEmpty, Tidy, IsPvid
<1> QED
  BY <1>4, <1>5 DEF d

\* A port joins a slot, leaves all, and gets a slot as its own.
LEMMA Joins ==
    ASSUME NEW c \in Configs, NEW p \in Ports, NEW i \in Slots
    PROVE  LET d == Join(c, p, i)
           IN  /\ d \in Configs /\ d.pvid = c.pvid /\ d.vid = c.vid
               /\ d.member = [c.member EXCEPT ![i] = @ \cup {p}]
               /\ Tidy(c) /\ c.vid[i] # NoVid => Tidy(d)
<1> DEFINE d == Join(c, p, i)
<1>1. d.pvid = c.pvid /\ d.vid = c.vid /\ d.member = [c.member EXCEPT ![i] = @ \cup {p}]
  BY DEF Join, Configs
<1>2. d.member \in [Slots -> SUBSET Ports]
  BY <1>1, FieldTypes
<1>3. d \in Configs
  BY <1>1, <1>2 DEF Join, Configs
<1> HIDE DEF d
<1>4. ASSUME Tidy(c), c.vid[i] # NoVid PROVE Tidy(d)
  BY <1>1, <1>4, FieldTypes DEF Tidy
<1> QED
  BY <1>1, <1>3, <1>4 DEF d

LEMMA Leaves ==
    ASSUME NEW c \in Configs, NEW p \in Ports
    PROVE  LET d == Leave(c, p)
           IN  /\ d \in Configs /\ d.pvid = c.pvid /\ d.vid = c.vid
               /\ Tidy(c) => Tidy(d)
<1> DEFINE d == Leave(c, p)
<1>1. d.pvid = c.pvid /\ d.vid = c.vid /\ d.member = [i \in Slots |-> c.member[i] \ {p}]
  BY DEF Leave, Configs
<1>2. d.member \in [Slots -> SUBSET Ports]
  BY <1>1, FieldTypes
<1>3. d \in Configs
  BY <1>1, <1>2 DEF Leave, Configs
<1> HIDE DEF d
<1>4. ASSUME Tidy(c) PROVE Tidy(d)
  BY <1>1, <1>4 DEF Tidy
<1> QED
  BY <1>1, <1>3, <1>4 DEF d

LEMMA Owns ==
    ASSUME NEW c \in Configs, NEW p \in Ports, NEW i \in Slots
    PROVE  LET d == [c EXCEPT !.pvid[p] = i]
           IN  /\ d \in Configs /\ d.vid = c.vid
               /\ Tidy(c) /\ c.vid[i] # NoVid => Tidy(d)
<1> DEFINE d == [c EXCEPT !.pvid[p] = i]
<1>1. d.pvid = [c.pvid EXCEPT ![p] = i] /\ d.vid = c.vid /\ d.member = c.member
  BY DEF Configs
<1>2. d.pvid \in [Ports -> Slots \cup {NoIndex}]
  BY <1>1, FieldTypes
<1>3. d \in Configs
  BY <1>1, <1>2 DEF Configs
<1> HIDE DEF d
<1>4. ASSUME Tidy(c), c.vid[i] # NoVid PROVE Tidy(d)
  BY <1>1, <1>4, FieldTypes DEF Tidy
<1> QED
  BY <1>1, <1>3, <1>4 DEF d

\* Nothing but VLANs of the list goes, and the ports left without one are
\* rehomed: the table stays tidy while VLAN 1 has its slot.
Freed(c, d) ==
    /\ d \in Configs
    /\ \A i \in Slots : d.vid[i] \in {c.vid[i], NoVid}
    /\ Tidy(c) /\ HasHome(c) => Tidy(d) /\ HasHome(d)

LEMMA RemoveVlanFrees ==
    ASSUME NEW c \in Configs, NEW v \in Vids
    PROVE  Freed(c, RemoveVlan(c, v))
<1> DEFINE vi == FindVid(c, v)
           newVid == IF v = DefaultVid THEN c.vid[vi] ELSE NoVid
           freed == [c EXCEPT !.member[vi] = {},
                              !.vid[vi] = IF v = DefaultVid THEN @ ELSE NoVid]
           home == FindVid(freed, DefaultVid)
           moved == {p \in Ports : c.pvid[p] = vi}
           rehomed == [freed EXCEPT !.pvid = [p \in Ports |-> IF p \in moved THEN home ELSE @[p]]]
           tagged == [rehomed EXCEPT !.tag = @ \cup {2 * WordBits + p : p \in moved}]
           joined == [rehomed EXCEPT !.member[home] = @ \cup moved]
<1>1. RemoveVlan(c, v) = IF vi = NoIndex THEN c ELSE IF home = NoIndex THEN tagged ELSE joined
  BY DEF RemoveVlan
<1>2. CASE vi = NoIndex
  <2>1. RemoveVlan(c, v) = c
    BY <1>1, <1>2
  <2> QED
    BY <2>1 DEF Freed
<1>3. CASE vi # NoIndex
  <2>1. vi \in Slots /\ c.vid[vi] = v
    BY <1>3, FoundVid
  <2> HIDE DEF vi
  <2>2. newVid \in VidRange /\ newVid \in {c.vid[vi], NoVid}
    BY <2>1, FieldTypes DEF VidRange
  <2>3. /\ freed.member = [c.member EXCEPT ![vi] = {}]
        /\ freed.vid = [c.vid EXCEPT ![vi] = newVid]
        /\ freed.pvid = c.pvid /\ freed.tag = c.tag /\ freed.insert = c.insert
        /\ freed.enable = c.enable /\ freed.dot1q = c.dot1q
    BY <2>1 DEF Configs
  <2> HIDE DEF newVid
  <2>4. freed.member \in [Slots -> SUBSET Ports] /\ freed.vid \in [Slots -> VidRange]
    BY <2>1, <2>2, <2>3, FieldTypes
  <2>5. freed \in Configs
    BY <2>3, <2>4, FieldTypes DEF Configs, VidRange
  <2> HIDE DEF freed
  <2>6. \/ home = NoIndex /\ SlotsOf(freed, DefaultVid) = {}
        \/ home \in Slots /\ freed.vid[home] = DefaultVid
    BY <2>5, FoundVid
  <2> HIDE DEF home
  <2>7. /\ rehomed.pvid = [p \in Ports |-> IF c.pvid[p] = vi THEN home ELSE c.pvid[p]]
        /\ rehomed.member = freed.member /\ rehomed.vid = freed.vid
    BY <2>3, <2>5 DEF Configs
  <2>8. rehomed.pvid \in [Ports -> Slots \cup {NoIndex}]
    BY <2>6, <2>7, FieldTypes
  <2>9. rehomed \in Configs
    BY <2>5, <2>8 DEF Configs
  <2>10. moved \subseteq Ports
    OBVIOUS
  <2> HIDE DEF rehomed, moved
  <2>11. \A i \in Slots : freed.vid[i] \in {c.vid[i], NoVid}
    BY <2>1, <2>2, <2>3, FieldTypes
  <2>12. HasHome(c) => SlotsOf(freed, DefaultVid) # {}
    <3>1. ASSUME NEW i \in Slots, c.vid[i] = DefaultVid PROVE freed.vid[i] = DefaultVid
      BY <2>1, <2>3, <3>1, FieldTypes DEF newVid
    <3> QED
      BY <3>1 DEF HasHome, SlotsOf
  <2>13. CASE home = NoIndex
    <3>1. RemoveVlan(c, v) = tagged
      BY <1>1, <1>3, <2>13
    <3>2. tagged.vid = freed.vid
      BY <2>7, <2>9 DEF Configs
    <3>3. tagged \in Configs
      <4>1. \A p \in Ports : 2 * WordBits + p \in TagBits
        BY Numbers DEF Ports, TagBits
      <4>2. tagged.tag = rehomed.tag \cup {2 * WordBits + p : p \in moved}
        BY <2>9 DEF Configs
      <4>3. tagged.tag \subseteq TagBits
        BY <2>9, <2>10, <4>1, <4>2, FieldTypes
      <4> QED
        BY <2>9, <4>2, <4>3 DEF Configs
    <3>4. ~HasHome(c)
      BY <2>6, <2>12, <2>13, Numbers
    <3> QED
      BY <2>11, <3>1, <3>2, <3>3, <3>4 DEF Freed
  <2>14. CASE home # NoIndex
    <3>1. RemoveVlan(c, v) = joined
      BY <1>1, <1>3, <2>14
    <3>2. home \in Slots /\ freed.vid[home] = DefaultVid
      BY <2>6, <2>14
    <3>3. /\ joined.vid = freed.vid /\ joined.pvid = rehomed.pvid
          /\ joined.member = [freed.member EXCEPT ![home] = @ \cup moved]
      BY <2>7, <2>9, <3>2 DEF Configs
    <3>4. joined.member \in [Slots -> SUBSET Ports]
      <4> HIDE DEF joined
      <4> QED
        BY <2>4, <2>10, <3>2, <3>3
    <3>5. joined \in Configs
      BY <2>9, <3>4, <3>3 DEF Configs
    <3> HIDE DEF joined
    <3>6. HasHome(joined)
      BY <3>2, <3>3 DEF HasHome, SlotsOf
    <3>7. ASSUME Tidy(c) PROVE Tidy(joined)
      <4>1. ASSUME NEW p \in Ports
            PROVE  joined.pvid[p] \in Slots /\ joined.vid[joined.pvid[p]] # NoVid
        <5>1. CASE c.pvid[p] = vi
          BY <2>7, <3>2, <3>3, <5>1, Numbers
        <5>2. CASE c.pvid[p] # vi
          <6>1. joined.pvid[p] = c.pvid[p] /\ c.pvid[p] \in Slots /\ c.vid[c.pvid[p]] # NoVid
            BY <2>7, <3>3, <3>7, <5>2 DEF Tidy
          <6>2. freed.vid[c.pvid[p]] = c.vid[c.pvid[p]]
            BY <2>1, <2>3, <5>2, <6>1, FieldTypes
          <6> QED
            BY <3>3, <6>1, <6>2
        <5> QED
          BY <5>1, <5>2
      <4>2. ASSUME NEW i \in Slots, joined.vid[i] = NoVid PROVE joined.member[i] = {}
        <5>1. i # home
          BY <3>2, <3>3, <4>2, Numbers
        <5>2. joined.member[i] = freed.member[i]
          BY <2>4, <3>2, <3>3, <5>1
        <5>3. CASE i = vi
          BY <2>1, <2>3, <5>2, <5>3, FieldTypes
        <5>4. CASE i # vi
          BY <2>1, <2>3, <3>3, <3>7, <4>2, <5>2, <5>4, FieldTypes DEF Tidy
        <5> QED
          BY <5>3, <5>4
      <4> QED
        BY <4>1, <4>2 DEF Tidy
    <3> QED
      BY <2>11, <3>1, <3>3, <3>5, <3>6, <3>7 DEF Freed
  <2> QED
    BY <2>13, <2>14
<1> QED
  BY <1>2, <1>3

\* The list is worked off one VLAN after the other.
LEMMA RemoveVlansRuns ==
    ASSUME NEW c, NEW list \in Seq(Vids), NEW k \in 0 .. Len(list)
    PROVE  \E f : f = [n \in 0 .. k |-> IF n = 0 THEN c ELSE RemoveVlan(f[n - 1], list[n])]
<1> DEFINE Runs(m) == \E f : f = [n \in 0 .. m |-> IF n = 0 THEN c ELSE RemoveVlan(f[n - 1], list[n])]
           S == {m \in 0 .. Len(list) : ~Runs(m)}
<1>1. SUFFICES ASSUME S # {} PROVE FALSE
  OBVIOUS
<1>2. PICK m \in S : \A j \in S : m <= j
  <2>1. S \in SUBSET Nat
    OBVIOUS
  <2> HIDE DEF S
  <2> QED
    BY <1>1, <2>1, Least
<1>3. CASE m = 0
  <2> DEFINE f == [n \in 0 .. 0 |-> c]
  <2>1. f = [n \in 0 .. m |-> IF n = 0 THEN c ELSE RemoveVlan(f[n - 1], list[n])]
    BY <1>3
  <2> HIDE DEF f
  <2> QED
    BY <1>2, <2>1
<1>4. CASE m # 0
  <2>1. m \in Nat /\ m - 1 \in 0 .. Len(list) /\ ~ (m <= m - 1)
    BY <1>4
  <2>2. Runs(m - 1)
    BY <1>2, <2>1
  <2>3. PICK f : f = [n \in 0 .. m - 1 |-> IF n = 0 THEN c ELSE RemoveVlan(f[n - 1], list[n])]
    BY <2>2
  <2> DEFINE g == [n \in 0 .. m |-> IF n = m THEN RemoveVlan(f[m - 1], list[m]) ELSE f[n]]
  <2>4. \A n \in 0 .. m - 1 : f[n] = IF n = 0 THEN c ELSE RemoveVlan(f[n - 1], list[n])
    BY <2>3
  <2>5. ASSUME NEW n \in 0 .. m
        PROVE  g[n] = IF n = 0 THEN c ELSE RemoveVlan(g[n - 1], list[n])
    <3>1. CASE n = m
      <4>1. g[n - 1] = f[m - 1]
        BY <1>4, <2>1, <3>1
      <4> QED
        BY <1>4, <3>1, <4>1
    <3>2. CASE n # m
      <4>1. n \in 0 .. m - 1 /\ g[n] = f[n]
        BY <2>1, <3>2
      <4>2. n # 0 => g[n - 1] = f[n - 1]
        BY <2>1, <3>2
      <4> QED
        BY <2>4, <4>1, <4>2
    <3> QED
      BY <3>1, <3>2
  <2>6. g = [n \in 0 .. m |-> IF n = 0 THEN c ELSE RemoveVlan(g[n - 1], list[n])]
    BY <2>5
  <2> HIDE DEF g
  <2>7. Runs(m)
    BY <2>6
  <2> QED
    BY <1>2, <2>7
<1> QED
  BY <1>3, <1>4

LEMMA RemoveVlansFrees ==
    ASSUME NEW c \in Configs, NEW list \in Seq(Vids)
    PROVE  Freed(c, RemoveVlans(c, list))
<1> DEFINE after == CHOOSE f : f = [n \in 0 .. Len(list) |->
                                       IF n = 0 THEN c ELSE RemoveVlan(f[n - 1], list[n])]
           S == {n \in 0 .. Len(list) : ~Freed(c, after[n])}
<1>1. Len(list) \in Nat /\ Len(list) \in 0 .. Len(list)
  OBVIOUS
<1>2. after = [n \in 0 .. Len(list) |-> IF n = 0 THEN c ELSE RemoveVlan(after[n - 1], list[n])]
  BY <1>1, RemoveVlansRuns
<1>3. RemoveVlans(c, list) = after[Len(list)]
  BY DEF RemoveVlans
<1> HIDE DEF after
<1>4. after[0] = c /\ \A n \in 1 .. Len(list) : after[n] = RemoveVlan(after[n - 1], list[n])
  BY <1>1, <1>2
<1>5. Freed(c, c)
  BY DEF Freed
<1>6. ASSUME NEW n \in 1 .. Len(list), Freed(c, after[n - 1]) PROVE Freed(c, after[n])
  <2>1. after[n - 1] \in Configs /\ list[n] \in Vids
    BY <1>6 DEF Freed
  <2>2. Freed(after[n - 1], after[n])
    BY <1>4, <2>1, RemoveVlanFrees
  <2> QED
    BY <1>6, <2>2 DEF Freed
<1>7. S = {}
  <2> SUFFICES ASSUME S # {} PROVE FALSE
    OBVIOUS
  <2>1. S \in SUBSET Nat
    OBVIOUS
  <2>2. PICK m \in S : \A j \in S : m <= j
    <3> HIDE DEF S
    <3> QED
      BY <2>1, Least
  <2>3. m # 0
    BY <1>4, <1>5
  <2>4. m \in 1 .. Len(list) /\ m - 1 \in 0 .. Len(list) /\ ~ (m <= m - 1)
    BY <2>3
  <2>5. Freed(c, after[m - 1])
    BY <2>2, <2>4
  <2> QED
    BY <1>6, <2>4, <2>5
<1> QED
  BY <1>1, <1>3, <1>7

\* VLANs are added in empty slots, members too, and nothing is taken away.
Grown(c, d) ==
    /\ d \in Configs /\ d.pvid = c.pvid
    /\ \A i \in Slots : c.member[i] \subseteq d.member[i]
    /\ Tidy(c) => Tidy(d) /\ NewEmpty(c, d)

LEMMA AllowVlanGrows ==
    ASSUME NEW c \in Configs, NEW p \in Ports, NEW v \in Vids, NEW fits, NEW r,
           r = [config |-> c, fits |-> fits]
    PROVE  /\ Grown(c, AllowVlan(p, r, v).config)
           /\ AllowVlan(p, r, v) = [config |-> AllowVlan(p, r, v).config,
                                    fits |-> AllowVlan(p, r, v).fits]
<1> DEFINE found == FindOrCreate(c, v)
           d == Join(found.config, p, found.slot)
<1>1. r.config = c
  OBVIOUS
<1>2. AllowVlan(p, r, v) = IF ~r.fits THEN r
                           ELSE IF found.slot = NoIndex THEN [r EXCEPT !.fits = FALSE]
                           ELSE [r EXCEPT !.config = d]
  BY <1>1 DEF AllowVlan
<1>3. \/ AllowVlan(p, r, v).config = c
      \/ found.slot # NoIndex /\ AllowVlan(p, r, v).config = d
  BY <1>2
<1>4. AllowVlan(p, r, v) = [config |-> AllowVlan(p, r, v).config, fits |-> AllowVlan(p, r, v).fits]
  <2> HIDE DEF d
  <2> QED
    BY <1>2
<1>5. Grown(c, c)
  BY DEF Grown, NewEmpty
<1>6. ASSUME found.slot # NoIndex PROVE Grown(c, d)
  <2>1. /\ found.slot \in Slots /\ found.config \in Configs
        /\ found.config.pvid = c.pvid /\ found.config.member = c.member
        /\ found.config.vid = [c.vid EXCEPT ![found.slot] = v]
    BY <1>6, Found
  <2> DEFINE s == found.slot
             base == found.config
  <2> HIDE DEF found
  <2>2. s \in Slots /\ base \in Configs /\ base.pvid = c.pvid /\ base.member = c.member
    BY <2>1
  <2>3. base.vid[s] # NoVid
    <3>1. base.vid = [c.vid EXCEPT ![s] = v] /\ v # NoVid
      BY <2>1, Numbers
    <3> HIDE DEF base, s
    <3> QED
      BY <2>2, <3>1, FieldTypes
  <2>4. /\ d \in Configs /\ d.pvid = c.pvid /\ d.vid = found.config.vid
        /\ d.member = [c.member EXCEPT ![found.slot] = @ \cup {p}]
        /\ Tidy(found.config) => Tidy(d)
    <3>1. d = Join(base, p, s)
      OBVIOUS
    <3> HIDE DEF base, s, d
    <3>2. /\ d \in Configs /\ d.pvid = c.pvid /\ d.vid = base.vid
          /\ d.member = [c.member EXCEPT ![s] = @ \cup {p}]
          /\ Tidy(base) => Tidy(d)
      BY <2>2, <2>3, <3>1, Joins
    <3> QED
      BY <3>2 DEF base, s
  <2>5. Tidy(c) => Tidy(found.config) /\ NewEmpty(c, found.config)
    BY <1>6, FoundTidy DEF found
  <2> HIDE DEF d
  <2>6. \A i \in Slots : c.member[i] \subseteq d.member[i]
    BY <2>1, <2>4, FieldTypes
  <2> QED
    BY <2>4, <2>5, <2>6 DEF Grown, NewEmpty
<1> QED
  BY <1>3, <1>4, <1>5, <1>6

LEMMA GrownTwice ==
    ASSUME NEW c \in Configs, NEW d, NEW e, Grown(c, d), Grown(d, e)
    PROVE  Grown(c, e)
<1>1. ASSUME Tidy(c), NEW i \in Slots, e.vid[i] \notin {c.vid[i], NoVid}
      PROVE  c.member[i] = {} /\ ~IsPvid(c, i)
  <2>1. Tidy(d) /\ NewEmpty(c, d) /\ NewEmpty(d, e)
    BY <1>1 DEF Grown
  <2>2. CASE d.vid[i] \notin {c.vid[i], NoVid}
    BY <2>1, <2>2 DEF NewEmpty
  <2>3. CASE e.vid[i] # d.vid[i]
    <3>1. d.member[i] = {} /\ ~IsPvid(d, i)
      BY <1>1, <2>1, <2>3 DEF NewEmpty
    <3> QED
      BY <3>1 DEF Grown, IsPvid
  <2>4. CASE d.vid[i] = NoVid /\ e.vid[i] = d.vid[i]
    BY <1>1, <2>4
  <2> QED
    BY <1>1, <2>2, <2>3, <2>4
<1> QED
  BY <1>1 DEF Grown, NewEmpty

LEMMA AllowVlansRuns ==
    ASSUME NEW start, NEW p, NEW list \in Seq(Vids), NEW k \in 0 .. Len(list)
    PROVE  \E f : f = [n \in 0 .. k |-> IF n = 0 THEN start ELSE AllowVlan(p, f[n - 1], list[n])]
<1> DEFINE Runs(m) == \E f : f = [n \in 0 .. m |-> IF n = 0 THEN start ELSE AllowVlan(p, f[n - 1], list[n])]
           S == {m \in 0 .. Len(list) : ~Runs(m)}
<1>1. SUFFICES ASSUME S # {} PROVE FALSE
  OBVIOUS
<1>2. PICK m \in S : \A j \in S : m <= j
  <2>1. S \in SUBSET Nat
    OBVIOUS
  <2> HIDE DEF S
  <2> QED
    BY <1>1, <2>1, Least
<1>3. CASE m = 0
  <2> DEFINE f == [n \in 0 .. 0 |-> start]
  <2>1. f = [n \in 0 .. m |-> IF n = 0 THEN start ELSE AllowVlan(p, f[n - 1], list[n])]
    BY <1>3
  <2> HIDE DEF f
  <2> QED
    BY <1>2, <2>1
<1>4. CASE m # 0
  <2>1. m \in Nat /\ m - 1 \in 0 .. Len(list) /\ ~ (m <= m - 1)
    BY <1>4
  <2>2. Runs(m - 1)
    BY <1>2, <2>1
  <2>3. PICK f : f = [n \in 0 .. m - 1 |-> IF n = 0 THEN start ELSE AllowVlan(p, f[n - 1], list[n])]
    BY <2>2
  <2> DEFINE g == [n \in 0 .. m |-> IF n = m THEN AllowVlan(p, f[m - 1], list[m]) ELSE f[n]]
  <2>4. \A n \in 0 .. m - 1 : f[n] = IF n = 0 THEN start ELSE AllowVlan(p, f[n - 1], list[n])
    BY <2>3
  <2>5. ASSUME NEW n \in 0 .. m
        PROVE  g[n] = IF n = 0 THEN start ELSE AllowVlan(p, g[n - 1], list[n])
    <3>1. CASE n = m
      <4>1. g[n - 1] = f[m - 1]
        BY <1>4, <2>1, <3>1
      <4> QED
        BY <1>4, <3>1, <4>1
    <3>2. CASE n # m
      <4>1. n \in 0 .. m - 1 /\ g[n] = f[n]
        BY <2>1, <3>2
      <4>2. n # 0 => g[n - 1] = f[n - 1]
        BY <2>1, <3>2
      <4> QED
        BY <2>4, <4>1, <4>2
    <3> QED
      BY <3>1, <3>2
  <2>6. g = [n \in 0 .. m |-> IF n = 0 THEN start ELSE AllowVlan(p, g[n - 1], list[n])]
    BY <2>5
  <2> HIDE DEF g
  <2>7. Runs(m)
    BY <2>6
  <2> QED
    BY <1>2, <2>7
<1> QED
  BY <1>3, <1>4

LEMMA AllowVlansGrow ==
    ASSUME NEW c \in Configs, NEW p \in Ports, NEW list \in Seq(Vids)
    PROVE  Grown(c, AllowVlans(c, p, list))
<1> DEFINE start == [config |-> c, fits |-> TRUE]
           after == CHOOSE f : f = [n \in 0 .. Len(list) |->
                                       IF n = 0 THEN start ELSE AllowVlan(p, f[n - 1], list[n])]
           Good(n) == /\ Grown(c, after[n].config)
                      /\ after[n] = [config |-> after[n].config, fits |-> after[n].fits]
           S == {n \in 0 .. Len(list) : ~Good(n)}
<1>1. Len(list) \in Nat /\ Len(list) \in 0 .. Len(list)
  OBVIOUS
<1>2. AllowVlans(c, p, list) = after[Len(list)].config
  BY DEF AllowVlans
<1>3. start.config = c /\ start = [config |-> start.config, fits |-> start.fits]
  OBVIOUS
<1> HIDE DEF start
<1>4. after = [n \in 0 .. Len(list) |-> IF n = 0 THEN start ELSE AllowVlan(p, after[n - 1], list[n])]
  BY SMTT(30), <1>1, AllowVlansRuns
<1> HIDE DEF after
<1>5. after[0] = start /\ \A n \in 1 .. Len(list) : after[n] = AllowVlan(p, after[n - 1], list[n])
  BY <1>1, <1>4
<1>6. Good(0)
  BY <1>3, <1>5 DEF Grown, NewEmpty
<1>7. ASSUME NEW n \in 1 .. Len(list), Good(n - 1) PROVE Good(n)
  <2> DEFINE d == after[n - 1].config
  <2>1. d \in Configs /\ list[n] \in Vids /\ after[n - 1] = [config |-> d, fits |-> after[n - 1].fits]
    BY <1>7 DEF Grown
  <2>2. Grown(c, d)
    BY <1>7
  <2> HIDE DEF d
  <2>3. /\ Grown(d, AllowVlan(p, after[n - 1], list[n]).config)
        /\ AllowVlan(p, after[n - 1], list[n])
             = [config |-> AllowVlan(p, after[n - 1], list[n]).config,
                fits |-> AllowVlan(p, after[n - 1], list[n]).fits]
    BY <2>1, AllowVlanGrows
  <2> QED
    BY <1>5, <2>2, <2>3, GrownTwice
<1>8. S = {}
  <2> SUFFICES ASSUME S # {} PROVE FALSE
    OBVIOUS
  <2>1. S \in SUBSET Nat
    OBVIOUS
  <2>2. PICK m \in S : \A j \in S : m <= j
    <3> HIDE DEF S
    <3> QED
      BY <2>1, Least
  <2> HIDE DEF Good
  <2>3. m # 0
    BY <1>6
  <2>4. m \in 1 .. Len(list) /\ m - 1 \in 0 .. Len(list) /\ ~ (m <= m - 1)
    BY <2>3
  <2>5. Good(m - 1)
    BY <2>2, <2>4
  <2> QED
    BY <1>7, <2>4, <2>5
<1>9. Good(Len(list))
  <2> HIDE DEF Good
  <2> QED
    BY <1>1, <1>8
<1> QED
  BY <1>2, <1>9

-----------------------------------------------------------------------------
(***************************************************************************)
(* The invariant is kept                                                   *)
(***************************************************************************)
\* A table made anew, or edited, is committed, in whole or not.
LEMMA CommitKeeps ==
    ASSUME IInv, NEW c \in Configs, NEW still \in BOOLEAN,
           still => Tidy(c) /\ HasHome(c), Commit(c, still), UNCHANGED scenario
    PROVE  IInv' /\ (sound' => cache' = c)
<1>1. /\ hw \in Configs /\ torn \in 0 .. scenario.torn /\ scenario \in Scenarios
      /\ scenario.torn \in Nat /\ scenario.edits \in Nat
  BY VlanAssumption DEF IInv, TypeOK
<1>2. edits' = 0 /\ edits' \in 0 .. scenario.edits /\ UNCHANGED scenario
  BY <1>1 DEF Commit
<1>3. CASE /\ cache' = c /\ hw' = Written(hw, c, CommitRegs) /\ skipped' = FALSE
           /\ sound' = still /\ UNCHANGED torn
  <2>1. hw' \in Configs /\ hw'.pvid = c.pvid /\ hw'.member = c.member /\ hw'.vid = c.vid
        /\ hw' = [c EXCEPT !.tag = (@ \cap Tags) \cup (hw'.tag \ Tags),
                           !.insert = (@ \cap Inserts) \cup (hw'.insert \ Inserts)]
    BY <1>1, <1>3, WrittenType, WrittenWhole
  <2>2. TypeOK'
    BY <1>1, <1>2, <1>3, <2>1 DEF TypeOK
  <2>3. HwFollowsCache'
    BY <1>3, <2>1 DEF HwFollowsCache, Tags, Inserts
  <2>4. still => Tidy(hw') /\ HasHome(hw')
    BY <2>1 DEF Tidy, HasHome, SlotsOf
  <2>5. (sound => Tidy(cache) /\ HasHome(cache))'
    BY <1>3 DEF Tidy, HasHome, SlotsOf
  <2>6. (sound /\ ~skipped => Tidy(hw) /\ HasHome(hw))'
    BY <1>3, <2>4 DEF Tidy, HasHome, SlotsOf
  <2> QED
    BY <1>3, <2>2, <2>3, <2>5, <2>6 DEF IInv
<1>4. ASSUME NEW W, torn < scenario.torn, torn' = torn + 1, cache' = c,
             hw' = Written(hw, c, W), skipped' = TRUE, sound' = still
      PROVE  IInv' /\ (sound' => cache' = c)
  <2>1. hw' \in Configs /\ torn' \in 0 .. scenario.torn
    BY <1>1, <1>4, WrittenType
  <2>2. TypeOK'
    BY <1>1, <1>2, <1>4, <2>1 DEF TypeOK
  <2>3. HwFollowsCache' /\ (sound /\ ~skipped => Tidy(hw) /\ HasHome(hw))'
    BY <1>4 DEF HwFollowsCache
  <2>4. (sound => Tidy(cache) /\ HasHome(cache))'
    BY <1>4 DEF Tidy, HasHome, SlotsOf
  <2> QED
    BY <1>4, <2>2, <2>3, <2>4 DEF IInv
<1>5. ASSUME NEW W, torn < scenario.torn, torn' = torn + 1, hw' = Written(hw, c, W),
             cache' = hw', skipped' = FALSE, sound' = FALSE
      PROVE  IInv' /\ (sound' => cache' = c)
  <2>1. hw' \in Configs /\ torn' \in 0 .. scenario.torn
    BY <1>1, <1>5, WrittenType
  <2>2. TypeOK'
    BY <1>1, <1>2, <1>5, <2>1 DEF TypeOK
  <2>3. HwFollowsCache'
    <3>1. hw' = [hw' EXCEPT !.tag = (hw'.tag \cap Tags) \cup (hw'.tag \ Tags),
                            !.insert = (hw'.insert \cap Inserts) \cup (hw'.insert \ Inserts)]
      <4>1. \A s, t : (s \cap t) \cup (s \ t) = s
        OBVIOUS
      <4> QED
        BY <2>1, <4>1 DEF Configs
    <3> QED
      BY <1>5, <3>1 DEF HwFollowsCache, Tags, Inserts
  <2> QED
    BY <1>5, <2>2, <2>3 DEF IInv
<1> QED
  BY <1>3, <1>4, <1>5 DEF Commit

\* What a command that makes c of the table has to show of it.
LEMMA CommitStep ==
    ASSUME IInv, NEW c \in Configs, NEW still \in BOOLEAN,
           still => Tidy(c) /\ HasHome(c), sound => NewEmpty(cache, c),
           Commit(c, still), UNCHANGED scenario
    PROVE  IInv' /\ (sound /\ sound' => NewEmpty(cache, cache'))
BY CommitKeeps

LEMMA Cached == IInv => cache \in Configs /\ hw \in Configs /\ sound \in BOOLEAN
BY DEF IInv, TypeOK

\* The lists of a command name VLANs.
LEMMA ListsAreSeqs == IInv => /\ \A list \in Lists(scenario) : list \in Seq(Vids)
                              /\ scenario.vids \subseteq Vids
<1> SUFFICES ASSUME IInv PROVE /\ \A list \in Lists(scenario) : list \in Seq(Vids)
                               /\ scenario.vids \subseteq Vids
  OBVIOUS
<1>1. scenario.vids \subseteq Vids /\ scenario.list \in Nat
  BY VlanAssumption DEF IInv, TypeOK
<1>2. ASSUME NEW n \in 1 .. scenario.list, NEW list \in [1 .. n -> scenario.vids]
      PROVE  list \in Seq(Vids)
  <2>1. n \in Nat /\ list \in [1 .. n -> Vids]
    BY <1>1
  <2> QED
    BY <2>1
<1> QED
  BY <1>1, <1>2 DEF Lists

LEMMA NoVlanModeStep ==
    ASSUME IInv, NoVlanMode, UNCHANGED scenario
    PROVE  IInv' /\ (sound /\ sound' => NewEmpty(cache, cache'))
<1> DEFINE c == [cache EXCEPT !.enable = FALSE, !.dot1q = FALSE]
<1>1. c \in Configs /\ c.pvid = cache.pvid /\ c.vid = cache.vid /\ c.member = cache.member
  BY Cached DEF Configs
<1>2. Commit(c, sound)
  BY DEF NoVlanMode
<1> HIDE DEF c
<1>3. sound => Tidy(c) /\ HasHome(c) /\ NewEmpty(cache, c)
  BY <1>1 DEF IInv, Tidy, HasHome, SlotsOf, NewEmpty
<1> QED
  BY <1>1, <1>2, <1>3, Cached, CommitStep

LEMMA VlanPortbasedStep ==
    ASSUME IInv, VlanPortbased, UNCHANGED scenario
    PROVE  IInv' /\ (sound /\ sound' => NewEmpty(cache, cache'))
<1> DEFINE vid == [i \in Slots |-> IF i = 0 THEN cache.vid[0] ELSE i + 1]
           pvid == [p \in Ports |-> 0]
           c == [cache EXCEPT !.vid = vid, !.pvid = pvid, !.insert = {}, !.enable = TRUE, !.dot1q = FALSE]
<1>1. 0 \in Slots /\ \A i \in Slots : i # 0 => i + 1 \in 2 .. NumSlots
  BY Numbers DEF Slots
<1>2. vid \in [Slots -> VidRange] /\ pvid \in [Ports -> Slots \cup {NoIndex}]
  BY <1>1, Cached, FieldTypes DEF VidRange
<1>3. Commit(c, FALSE)
  BY DEF VlanPortbased
<1> HIDE DEF vid, pvid
<1>4. c \in Configs
  BY <1>2, Cached DEF Configs, VidRange
<1> HIDE DEF c
<1>5. IInv' /\ ~sound'
  <2>1. IInv'
    BY <1>3, <1>4, CommitKeeps
  <2>2. ~sound'
    BY <1>3 DEF Commit
  <2> QED
    BY <2>1, <2>2
<1> QED
  BY <1>5

LEMMA VlanDot1qStep ==
    ASSUME IInv, VlanDot1q, UNCHANGED scenario
    PROVE  IInv'
<1> DEFINE vid == [i \in Slots |-> IF i = 0 THEN DefaultVid ELSE NoVid]
           member == [i \in Slots |-> IF i = 0 THEN Ports ELSE {}]
           pvid == [p \in Ports |-> 0]
           c == [cache EXCEPT !.vid = vid, !.member = member, !.pvid = pvid,
                              !.insert = {}, !.enable = TRUE, !.dot1q = TRUE]
<1>1. 0 \in Slots /\ DefaultVid # NoVid
  BY Numbers DEF Slots
<1>2. /\ vid \in [Slots -> VidRange] /\ pvid \in [Ports -> Slots \cup {NoIndex}]
      /\ member \in [Slots -> SUBSET Ports]
  BY <1>1, Numbers DEF VidRange
<1>3. Commit(c, TRUE)
  BY DEF VlanDot1q
<1>4. c.vid = vid /\ c.member = member /\ c.pvid = pvid
  BY Cached DEF Configs
<1>5. c \in Configs
  <2> HIDE DEF vid, pvid, member
  <2> QED
    BY <1>2, Cached DEF Configs, VidRange
<1> HIDE DEF c
<1>6. Tidy(c) /\ HasHome(c)
  BY <1>1, <1>4 DEF Tidy, HasHome, SlotsOf
<1> QED
  BY <1>3, <1>5, <1>6, CommitKeeps

LEMMA NoVlanStep ==
    ASSUME IInv, NEW list \in Lists(scenario), NoVlan(list), UNCHANGED scenario
    PROVE  IInv' /\ (sound /\ sound' => NewEmpty(cache, cache'))
<1> DEFINE c == RemoveVlans(cache, list)
<1>1. Freed(cache, c)
  BY Cached, ListsAreSeqs, RemoveVlansFrees
<1>2. Commit(c, StillSound(c))
  BY DEF NoVlan
<1> HIDE DEF c
<1>3. c \in Configs /\ NewEmpty(cache, c) /\ (sound => Tidy(c) /\ HasHome(c))
  BY <1>1 DEF Freed, NewEmpty, IInv
<1>4. StillSound(c) \in BOOLEAN /\ (StillSound(c) => sound)
  BY Cached DEF StillSound
<1> QED
  BY <1>2, <1>3, <1>4, CommitStep

LEMMA SwitchportModeStep ==
    ASSUME IInv, NEW p \in Ports, NEW mode, SwitchportMode(p, mode), UNCHANGED scenario
    PROVE  IInv' /\ (sound /\ sound' => NewEmpty(cache, cache'))
<1> DEFINE l == Leave(cache, p)
           c == IF mode = "trunk"
                THEN [l EXCEPT !.insert = @ \cup {p}, !.tag = @ \cup {p}]
                ELSE [l EXCEPT !.insert = @ \ {p}, !.tag = @ \ {p}]
<1>1. l \in Configs /\ l.pvid = cache.pvid /\ l.vid = cache.vid /\ (Tidy(cache) => Tidy(l))
  BY Cached, Leaves
<1>2. Commit(c, sound)
  BY DEF SwitchportMode
<1>3. p \in TagBits
  BY Numbers DEF Ports, TagBits
<1> HIDE DEF l
<1>4. c \in Configs /\ c.pvid = l.pvid /\ c.vid = l.vid /\ c.member = l.member
  <2>1. l.tag \cup {p} \subseteq TagBits /\ l.insert \cup {p} \subseteq Ports
        /\ l.tag \ {p} \subseteq TagBits /\ l.insert \ {p} \subseteq Ports
    BY <1>1, <1>3, FieldTypes
  <2> QED
    BY <1>1, <2>1 DEF Configs
<1> HIDE DEF c
<1>5. sound => Tidy(c) /\ HasHome(c) /\ NewEmpty(cache, c)
  BY <1>1, <1>4 DEF IInv, Tidy, HasHome, SlotsOf, NewEmpty
<1> QED
  BY <1>2, <1>4, <1>5, Cached, CommitStep

LEMMA AccessVlanStep ==
    ASSUME IInv, NEW p \in Ports, NEW v \in scenario.vids, AccessVlan(p, v), UNCHANGED scenario
    PROVE  IInv' /\ (sound /\ sound' => NewEmpty(cache, cache'))
<1> DEFINE found == FindOrCreate(cache, v)
           s == found.slot
           base == found.config
           left == Leave(base, p)
           in == Join(left, p, s)
           c == [in EXCEPT !.pvid[p] = s]
<1>1. v \in Vids /\ cache \in Configs
  BY Cached, ListsAreSeqs
<1>2. s # NoIndex /\ Commit(c, StillSound(c))
  BY DEF AccessVlan
<1>3. /\ s \in Slots /\ base \in Configs
      /\ base.vid = [cache.vid EXCEPT ![s] = v]
  BY <1>1, <1>2, Found
<1>4. Tidy(cache) => Tidy(base) /\ NewEmpty(cache, base)
  BY <1>1, <1>2, FoundTidy
<1> HIDE DEF found
<1> HIDE DEF s, base
<1>5. base.vid[s] # NoVid
  BY <1>1, <1>3, FieldTypes, Numbers
<1>6. left \in Configs /\ left.vid = base.vid /\ (Tidy(base) => Tidy(left))
  BY <1>3, Leaves
<1> HIDE DEF left
<1>7. in \in Configs /\ in.vid = left.vid /\ (Tidy(left) => Tidy(in))
  <2>1. left \in Configs /\ s \in Slots /\ left.vid[s] # NoVid
    BY <1>3, <1>5, <1>6
  <2>2. /\ Join(left, p, s) \in Configs /\ Join(left, p, s).vid = left.vid
        /\ Tidy(left) => Tidy(Join(left, p, s))
    <3> HIDE DEF in, c
    <3> QED
      BY <2>1, Joins
  <2> QED
    BY <2>2
<1> HIDE DEF in
<1>8. c \in Configs /\ c.vid = in.vid /\ (Tidy(in) => Tidy(c))
  <2>1. in \in Configs /\ s \in Slots /\ in.vid[s] # NoVid
    BY <1>3, <1>5, <1>6, <1>7
  <2> QED
    BY <2>1, Owns
<1> HIDE DEF c
<1>9. /\ StillSound(c) \in BOOLEAN
      /\ StillSound(c) => Tidy(c) /\ HasHome(c)
      /\ sound => NewEmpty(cache, c)
  BY <1>4, <1>6, <1>7, <1>8, Cached DEF StillSound, HasHome, IInv, NewEmpty
<1> QED
  BY <1>2, <1>8, <1>9, CommitStep

LEMMA NativeVlanStep ==
    ASSUME IInv, NEW p \in Ports, NEW v \in scenario.vids, NativeVlan(p, v), UNCHANGED scenario
    PROVE  IInv' /\ (sound /\ sound' => NewEmpty(cache, cache'))
<1> DEFINE found == FindOrCreate(cache, v)
           s == found.slot
           base == found.config
           c == [base EXCEPT !.pvid[p] = s]
<1>1. v \in Vids /\ cache \in Configs
  BY Cached, ListsAreSeqs
<1>2. s # NoIndex /\ Commit(c, StillSound(c))
  BY DEF NativeVlan
<1>3. /\ s \in Slots /\ base \in Configs
      /\ base.vid = [cache.vid EXCEPT ![s] = v]
  BY <1>1, <1>2, Found
<1>4. Tidy(cache) => Tidy(base) /\ NewEmpty(cache, base)
  BY <1>1, <1>2, FoundTidy
<1> HIDE DEF found
<1> HIDE DEF s, base
<1>5. base.vid[s] # NoVid
  BY <1>1, <1>3, FieldTypes, Numbers
<1>6. c \in Configs /\ c.vid = base.vid /\ (Tidy(base) => Tidy(c))
  BY <1>3, <1>5, Owns
<1> HIDE DEF c
<1>7. /\ StillSound(c) \in BOOLEAN
      /\ StillSound(c) => Tidy(c) /\ HasHome(c)
      /\ sound => NewEmpty(cache, c)
  BY <1>4, <1>6, Cached DEF StillSound, HasHome, IInv, NewEmpty
<1> QED
  BY <1>2, <1>6, <1>7, CommitStep

LEMMA AllowedVlanStep ==
    ASSUME IInv, NEW p \in Ports, NEW list \in Lists(scenario), AllowedVlan(p, list), UNCHANGED scenario
    PROVE  IInv' /\ (sound /\ sound' => NewEmpty(cache, cache'))
<1> DEFINE c == AllowVlans(cache, p, list)
<1>1. Grown(cache, c)
  BY Cached, ListsAreSeqs, AllowVlansGrow
<1>2. /\ cache' = c /\ edits < scenario.edits /\ edits' = edits + 1 /\ sound' = StillSound(c)
      /\ UNCHANGED <<hw, torn, skipped>>
  BY DEF AllowedVlan
<1> HIDE DEF c
<1>3. c \in Configs /\ (sound => Tidy(c) /\ NewEmpty(cache, c))
  BY <1>1 DEF Grown, IInv
<1>4. edits \in Nat /\ scenario \in Scenarios /\ scenario.edits \in Nat
  BY VlanAssumption DEF IInv, TypeOK
<1>5. TypeOK'
  BY <1>2, <1>3, <1>4, Cached DEF TypeOK, IInv, StillSound
<1>6. HwFollowsCache'
  BY <1>2, <1>4 DEF HwFollowsCache
<1>7. (sound => Tidy(cache) /\ HasHome(cache))'
  BY <1>2, <1>3 DEF StillSound, HasHome, SlotsOf, Tidy
<1>8. (sound /\ ~skipped => Tidy(hw) /\ HasHome(hw))'
  BY <1>2 DEF StillSound, HasHome, SlotsOf, Tidy, IInv
<1> QED
  BY <1>2, <1>3, <1>5, <1>6, <1>7, <1>8 DEF IInv

LEMMA RestartStep == ASSUME IInv, Restart, UNCHANGED scenario PROVE IInv'
<1>1. TypeOK'
  <2>1. 0 \in 0 .. scenario.edits
    BY VlanAssumption DEF IInv, TypeOK
  <2> QED
    BY <2>1 DEF Restart, IInv, TypeOK
<1>2. HwFollowsCache'
  <2>1. hw = [hw EXCEPT !.tag = (hw.tag \cap Tags) \cup (hw.tag \ Tags),
                        !.insert = (hw.insert \cap Inserts) \cup (hw.insert \ Inserts)]
    <3>1. \A s, t : (s \cap t) \cup (s \ t) = s
      OBVIOUS
    <3> QED
      BY <3>1, Cached DEF Configs
  <2> QED
    BY <2>1 DEF Restart, HwFollowsCache, Tags, Inserts
<1>3. (sound => Tidy(cache) /\ HasHome(cache))' /\ (sound /\ ~skipped => Tidy(hw) /\ HasHome(hw))'
  BY DEF Restart, IInv, Tidy, HasHome, SlotsOf
<1> QED
  BY <1>1, <1>2, <1>3 DEF IInv

-----------------------------------------------------------------------------
(***************************************************************************)
(* The theorems                                                            *)
(***************************************************************************)
LEMMA InitIInv == Init => IInv
<1> SUFFICES ASSUME Init PROVE IInv
  OBVIOUS
<1>1. DefaultConfig \in Configs
  <2>1. 0 .. 2 * NumPorts - 1 \subseteq TagBits
    BY Numbers DEF TagBits
  <2>2. [p \in Ports |-> p] \in [Ports -> Slots \cup {NoIndex}]
    BY Numbers DEF Ports, Slots
  <2> QED
    BY <2>1, <2>2 DEF DefaultConfig, Configs
<1>2. TypeOK
  <2>1. 0 \in 0 .. scenario.edits /\ 0 \in 0 .. scenario.torn
    BY VlanAssumption DEF Init
  <2> QED
    BY <1>1, <2>1 DEF Init, TypeOK
<1>3. HwFollowsCache
  <2>1. hw = [hw EXCEPT !.tag = (hw.tag \cap Tags) \cup (hw.tag \ Tags),
                        !.insert = (hw.insert \cap Inserts) \cup (hw.insert \ Inserts)]
    <3>1. \A s, t : (s \cap t) \cup (s \ t) = s
      OBVIOUS
    <3>2. hw \in Configs
      BY <1>1 DEF Init
    <3> QED
      BY <3>1, <3>2 DEF Configs
  <2> QED
    BY <2>1 DEF Init, HwFollowsCache, Tags, Inserts
<1> QED
  BY <1>2, <1>3 DEF Init, IInv

\* A command, and what it gives a slot to.
LEMMA CommandStep ==
    ASSUME IInv, Command, UNCHANGED scenario
    PROVE  IInv' /\ (sound /\ sound' => NewEmpty(cache, cache') \/ VlanDot1q)
<1>1. scenario \in Scenarios
  BY DEF IInv, TypeOK
<1>2. CASE NoVlanMode
  BY <1>2, NoVlanModeStep
<1>3. CASE VlanPortbased
  BY <1>3, VlanPortbasedStep
<1>4. CASE VlanDot1q
  BY <1>4, VlanDot1qStep
<1>5. CASE \E list \in Lists(scenario) : NoVlan(list)
  BY <1>5, NoVlanStep
<1>6. CASE \E p \in Ports, mode \in {"trunk", "access"} : SwitchportMode(p, mode)
  BY <1>6, SwitchportModeStep
<1>7. CASE \E p \in Ports, v \in scenario.vids : AccessVlan(p, v)
  BY <1>7, AccessVlanStep
<1>8. CASE \E p \in Ports, v \in scenario.vids : NativeVlan(p, v)
  BY <1>8, NativeVlanStep
<1>9. CASE \E p \in Ports : \E list \in Lists(scenario) : AllowedVlan(p, list)
  BY <1>9, AllowedVlanStep
<1> QED
  BY <1>2, <1>3, <1>4, <1>5, <1>6, <1>7, <1>8, <1>9 DEF Command

LEMMA StepIInv == IInv /\ [Next]_vars => IInv'
<1> SUFFICES ASSUME IInv, [Next]_vars PROVE IInv'
  OBVIOUS
<1>1. CASE Command /\ UNCHANGED scenario
  BY <1>1, CommandStep
<1>2. CASE Restart /\ UNCHANGED scenario
  BY <1>2, RestartStep
<1>3. CASE UNCHANGED vars
  BY <1>3 DEF vars, IInv, TypeOK, HwFollowsCache, Tidy, HasHome, SlotsOf
<1> QED
  BY <1>1, <1>2, <1>3 DEF Next

LEMMA Invariance == Spec => []IInv
<1> QED
  BY InitIInv, StepIInv, PTL DEF Spec

\* The fields hold values of their kinds: an index find_vlan_index_by_vid and
\* find_or_create_vlan_index_by_vid give is a slot or the -1 that is none, and
\* no command or commit makes up another.
THEOREM TypeCorrect == Spec => []TypeOK
<1>1. IInv => TypeOK
  BY DEF IInv
<1> QED
  BY <1>1, Invariance, PTL

\* While the table is the one of "vlan dot1q", every port's own VLAN is in it
\* and a free slot has no members, after any number of the commands and
\* restarts: find_or_create_vlan_index_by_vid reuses slots safely.
THEOREM TableConsistentHolds == Spec => []TableConsistent
<1>1. IInv => TableConsistent
  BY DEF IInv, TableConsistent, Tidy
<1> QED
  BY <1>1, Invariance, PTL

\* rrcp_config_commit_vlan_to_switch leaves nothing of swconfig out for any
\* number of ports and slots: its loops reach every register that has a bit of
\* a port or a slot, but for the insert bits past the last whole register.
THEOREM HwFollowsCacheHolds == Spec => []HwFollowsCache
<1>1. IInv => HwFollowsCache
  BY DEF IInv
<1> QED
  BY <1>1, Invariance, PTL

\* No command moves a port it does not name into a new VLAN: a slot is taken
\* over only with no members and no owner.
THEOREM NewVlanIsEmptyHolds == Spec => NewVlanIsEmpty
<1> DEFINE Given == \A i \in Slots :
                       /\ cache'.vid[i] \notin {cache.vid[i], NoVid}
                       /\ sound /\ sound' /\ ~Restart /\ ~VlanDot1q
                       => cache.member[i] = {} /\ ~IsPvid(cache, i)
<1>1. ASSUME IInv, Command, UNCHANGED scenario PROVE Given
  BY <1>1, CommandStep DEF NewEmpty
<1>2. Restart => Given
  OBVIOUS
<1>3. IInv /\ [Next]_vars => [Given]_vars
  BY <1>1, <1>2 DEF Next
<1> QED
  BY <1>3, Invariance, PTL DEF Spec, NewVlanIsEmpty

=============================================================================
