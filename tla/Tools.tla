-------------------------------- MODULE Tools --------------------------------
(***************************************************************************)
(* The tools of OpenRRCP on one switch: commands of rtl83xx, a session of  *)
(* rrcpcli, a capture of MAC addresses, the check_rrcp plug-in, detection  *)
(* of the switch; each in a process of its own, and nothing that keeps     *)
(* them apart.                                                             *)
(***************************************************************************)
EXTENDS MacCapture, CheckRrcp, Detection, CommandEffects

Init ==
    /\ SharedInit(InitialHw)
    /\ sitting \in Sittings
    /\ cmd = [a \in Actor |-> NoCmd]
    /\ given = [a \in Actor |-> 0]
    /\ stage = [a \in Actor |-> "none"]
    /\ notes = [a \in Actor |-> {}]

Session(a) ==
    \/ StartRtl83xx(a)
    \/ StartRrcpCli(a)
    \/ GiveCommand(a)
    \/ Access(a)
    \/ Finish(a)
    \/ EndInside(a)

Next ==
    \/ \E a \in Actor : Session(a) \/ Capture(a) \/ CheckRun(a) \/ DetectRun(a)
    \/ \E f \in Field : Wire(f)

Spec == Init /\ [][Next]_vars

-----------------------------------------------------------------------------
\* Types; and no tool ever writes a field it has neither read nor set, so
\* what nobody has read never reaches the switch.
TypeOK ==
    /\ status \in [Actor -> {"idle", "running", "done", "ended"}]
    /\ \A a \in Actor : foreign[a] \subseteq Field /\ DOMAIN edit[a] \subseteq Field
    /\ \A f \in Field : hw[f] \in Legal(f)

\* A write of a whole register changes a field only if the process has set
\* that field, or somebody else changed it after this process read it (the
\* lost update nothing here prevents).  Two tools that do not meet never
\* disturb a field that neither of them was asked about.
Changes(f) == hw'[f] # hw[f]
SteppedOver(a, f) == f \in DOMAIN edit[a] \/ f \in foreign[a] \/ copy[a][f] = Unread
OthersKept ==
    [][\A f \in Field : Changes(f) =>
            \/ f \in Moving
            \/ \E a \in Actor : AtWrite(a) /\ f \in FieldsIn[OpReg(a)] /\ SteppedOver(a, f)]_vars

\* A command of rtl83xx or rrcpcli that comes to its end with no SET lost
\* has done what it says: the fields it names have the values it names, or
\* were changed by others since, and it has set no other field.
\* (A port set to 1000 by rrcpcli that cannot do it keeps that bit when its
\* speed becomes automatic again.)
Match(f, have, want) ==
    \/ have = want
    \/ f[1] = "media" /\ "autoneg" \in want /\ have = want \cup {"1000full"}

Does(a, want) ==
    /\ \A f \in DOMAIN want :
          \/ Match(f, hw[f], want[f])
          \/ f \in foreign[a]
          \/ Unnumbered(cmd[a], f, copy[a][Flag("dot1q")])
    /\ given[a] <= 1 => DOMAIN edit[a] \subseteq DOMAIN want

\* "duplex" only chooses among the media the port has.
DuplexDone(a, q) ==
    /\ given[a] <= 1 => DOMAIN edit[a] \subseteq {Port("media", q)}
    /\ \/ Port("media", q) \in foreign[a]
       \/ DuplexRefused(q, hw[Port("media", q)], cmd[a].arg)
       \/ hw[Port("media", q)] \cap
              (IF cmd[a].arg = "half" THEN {"10full", "100full"} ELSE {"10half", "100half"}) = {}

CommandExact == \A a \in Actor :
    (AtEnd(a) /\ cmd[a] # NoCmd /\ ~lost[a] /\ ~Surprising(cmd[a], sitting[a].tool)) =>
        IF cmd[a].word = "duplex" THEN \A l \in cmd[a].ports : DuplexDone(a, Phys[l])
        ELSE Does(a, Asked(cmd[a]))
=============================================================================
