-------------------------------- MODULE Scan --------------------------------
(***************************************************************************)
(* How the tools find switches: rtl83xx_scan of rrcp_io.c, which collects  *)
(* the answers to hello and REP frames until nothing new has come for a    *)
(* while and prints a table of what it has heard, and the probe that asks  *)
(* one switch for the port the host is on.  One process runs one of the    *)
(* two.                                                                    *)
(*                                                                         *)
(* The network loses answers, keeps them for as long as it likes, and      *)
(* brings them in any order; a switch answers every frame it gets, and a   *)
(* switch with two paths to the host answers on both.  Frames that concern *)
(* others never stop coming.                                               *)
(***************************************************************************)
EXTENDS Naturals, Sequences, SequencesExt

CONSTANTS
    HelloAnswers,  \* the hello replies that the switches can give
    RepMacs,       \* the switches that answer REP
    ZeroMacs,      \* MACs that end in a zero byte
    NoMac,         \* the MAC of all zeros
    Retries,       \* hello frames sent, and REP frames sent (5)
    HelloPatience, \* 200
    RepPatience,   \* 50
    QuietAge,      \* what a receive that times out adds to the age (20)
    ProbeTries,    \* receives of the probe (10)
    Copies         \* answers of one kind the network holds

HelloReply(f) == f.kind = "hello"
RepAnswers == {[kind |-> "rep", src |-> m] : m \in RepMacs}
Answers == HelloAnswers \cup RepAnswers

ASSUME AnswersAssumption ==
    /\ \A f \in HelloAnswers :
          f = [kind |-> "hello", src |-> f.src, uplink |-> f.uplink, via |-> f.via]
    /\ NoMac \in ZeroMacs
    /\ \A f \in Answers : f.src # NoMac
ASSUME LimitsAssumption ==
    /\ {Retries, QuietAge, ProbeTries, Copies} \subseteq Nat \ {0}
    /\ {HelloPatience, RepPatience} \subseteq Nat

VARIABLES
    pc,      \* where the process is
    sent,    \* i: frames sent, or receives of the probe
    age,     \* f_cnt
    hellos,  \* the list hello_reply, newest first
    reps,    \* the list rep_reply, newest first
    rows,    \* the lines of the table, in whatever order
    target,  \* the switch probed
    facing,  \* the hello reply the probe has taken
    air,     \* air[f]: copies of answer f on their way
    heard,   \* history: answers received by the phase that looks for them
    early    \* history: answers to others, on their way from the start

lists == <<hellos, reps>>
probe == <<target, facing>>
history == <<heard, early>>
vars == <<pc, sent, age, lists, rows, probe, air, history>>

\* A line, by the entry of the list it is about.
Row(list, i, m, uplink, via, hello, rep) ==
    [list |-> list, entry |-> i, mac |-> m, uplink |-> uplink, via |-> via,
     hello |-> hello, rep |-> rep]

(***************************************************************************)
(* The network                                                             *)
(***************************************************************************)
\* One frame is sent to switches that can give the answers in F; the frame
\* or the answer may be lost on the way to and from each of them.
Ask(F) ==
    \E A \in SUBSET F :
        air' = [f \in Answers |-> IF f \in A /\ air[f] < Copies
                                  THEN air[f] + 1 ELSE air[f]]

Arrives(f) ==
    /\ air[f] > 0
    /\ air' = [air EXCEPT ![f] = @ - 1]

\* A receive gives an answer from F that the loop has no use for, a frame
\* of somebody else, or nothing because a signal came.
ReceiveUseless(F) ==
    \/ \E f \in F : Arrives(f)
    \/ UNCHANGED air

(***************************************************************************)
(* The scan: sending                                                       *)
(***************************************************************************)
SendAll(F, next) ==
    /\ Ask(F)
    /\ IF sent + 1 < Retries
       THEN sent' = sent + 1 /\ UNCHANGED <<pc, age>>
       ELSE sent' = 0 /\ pc' = next /\ age' = 0
    /\ UNCHANGED <<lists, rows, probe, history>>

\* sock_send gives up after three tries and ends the process.
SendFails ==
    /\ pc \in {"sendHello", "sendRep", "probe"}
    /\ pc' = "exited"
    /\ UNCHANGED <<sent, age, lists, rows, probe, air, history>>

SendHello == pc = "sendHello" /\ SendAll(HelloAnswers, "hear")

\* Mutant: f_cnt is not set to 0 before the REP answers.
SendRepAgeKept ==
    /\ pc = "sendRep"
    /\ Ask(RepAnswers)
    /\ IF sent + 1 < Retries
       THEN sent' = sent + 1 /\ UNCHANGED <<pc, age>>
       ELSE sent' = 0 /\ pc' = "hearRep" /\ UNCHANGED age
    /\ UNCHANGED <<lists, rows, probe, history>>

SendRep == pc = "sendRep" /\ SendAll(RepAnswers, "hearRep")

(***************************************************************************)
(* The scan: receiving                                                     *)
(***************************************************************************)
\* Mutant: a hello reply is known by its source alone.
KnownHelloSource(f) == \E i \in 1 .. Len(hellos) : hellos[i].src = f.src

\* The same switch with the same uplink, on the same ports.
KnownHello(f) == Contains(hellos, f)
KnownRep(f) == Contains(reps, f.src)

\* The age is looked at after every receive.
Ages(by, patience, next) ==
    /\ age' = age + by
    /\ pc' = IF age + by > patience THEN next ELSE pc

HearNewHello(f) ==
    /\ pc = "hear"
    /\ Arrives(f)
    /\ ~KnownHello(f)
    /\ hellos' = <<f>> \o hellos
    /\ age' = 0
    /\ heard' = heard \cup {f}
    /\ UNCHANGED <<pc, sent, reps, rows, probe, early>>

\* An answer heard before neither ages the scan nor keeps it young.
HearKnownHello(f) ==
    /\ pc = "hear"
    /\ Arrives(f)
    /\ KnownHello(f)
    /\ heard' = heard \cup {f}
    /\ UNCHANGED <<pc, sent, age, lists, rows, probe, early>>

\* Mutant: any frame at all keeps the scan young.
HearOtherRejuvenates ==
    /\ pc = "hear"
    /\ ReceiveUseless(RepAnswers)
    /\ age' = 0
    /\ UNCHANGED <<pc, sent, lists, rows, probe, history>>

HearOther ==
    /\ pc = "hear"
    /\ ReceiveUseless(RepAnswers)
    /\ Ages(1, HelloPatience, "sendRep")
    /\ UNCHANGED <<sent, lists, rows, probe, history>>

HearSilence ==
    /\ pc = "hear"
    /\ Ages(QuietAge, HelloPatience, "sendRep")
    /\ UNCHANGED <<sent, lists, rows, probe, air, history>>

HearNewRep(f) ==
    /\ pc = "hearRep"
    /\ Arrives(f)
    /\ ~KnownRep(f)
    /\ reps' = <<f.src>> \o reps
    /\ age' = 0
    /\ heard' = heard \cup {f}
    /\ UNCHANGED <<pc, sent, hellos, rows, probe, early>>

HearKnownRep(f) ==
    /\ pc = "hearRep"
    /\ Arrives(f)
    /\ KnownRep(f)
    /\ UNCHANGED <<pc, sent, age, lists, rows, probe, history>>

\* A hello reply that comes now is too late to be listed.
HearOtherRep ==
    /\ pc = "hearRep"
    /\ ReceiveUseless(HelloAnswers)
    /\ Ages(1, RepPatience, "report")
    /\ UNCHANGED <<sent, lists, rows, probe, history>>

HearSilenceRep ==
    /\ pc = "hearRep"
    /\ Ages(QuietAge, RepPatience, "report")
    /\ UNCHANGED <<sent, lists, rows, probe, air, history>>

(***************************************************************************)
(* The scan: the table                                                     *)
(***************************************************************************)
\* The line of hello reply i says REP while the list of REP answers holds its
\* switch: the first line of the switch has its answer taken out of the list.
HelloLine(i) ==
    Row("hello", i, hellos[i].src, hellos[i].uplink, hellos[i].via, TRUE,
        /\ Contains(reps, hellos[i].src)
        /\ \A j \in 1 .. i - 1 : hellos[j].src # hellos[i].src)

GaveHello(m) == \E i \in 1 .. Len(hellos) : hellos[i].src = m

\* The REP answers left over, and the uplinks that have answered neither;
\* istr00mac takes a MAC whose last byte is zero for no MAC.
RepOnly == {i \in 1 .. Len(reps) : ~GaveHello(reps[i])}

\* Mutant: the switches that answered REP are not taken out.
HiddenBesidesRep ==
    {i \in 1 .. Len(hellos) : /\ hellos[i].uplink \notin ZeroMacs
                             /\ ~GaveHello(hellos[i].uplink)}

Hidden ==
    {i \in 1 .. Len(hellos) : /\ hellos[i].uplink \notin ZeroMacs
                             /\ ~GaveHello(hellos[i].uplink)
                             /\ ~Contains(reps, hellos[i].uplink)}

RepLine(i) == Row("rep", i, reps[i], NoMac, 0, FALSE, TRUE)
HiddenLine(i) == Row("hidden", i, hellos[i].uplink, NoMac, 0, FALSE, FALSE)

Table ==
    {HelloLine(i) : i \in 1 .. Len(hellos)}
        \cup {RepLine(i) : i \in RepOnly} \cup {HiddenLine(i) : i \in Hidden}

Report ==
    /\ pc = "report"
    /\ rows' = Table
    /\ pc' = "done"
    /\ UNCHANGED <<sent, age, lists, probe, air, history>>

(***************************************************************************)
(* The probe                                                               *)
(***************************************************************************)
NoReply == [kind |-> "none", src |-> NoMac]
Switches == {f.src : f \in Answers}

\* Mutant: the hello goes to everybody.
SendProbeToAll(m) ==
    /\ pc = "probe"
    /\ target' = m
    /\ Ask(HelloAnswers)
    /\ pc' = "await"
    /\ UNCHANGED <<sent, age, lists, rows, facing, history>>

SendProbe(m) ==
    /\ pc = "probe"
    /\ target' = m
    /\ Ask({f \in HelloAnswers : f.src = m})
    /\ pc' = "await"
    /\ UNCHANGED <<sent, age, lists, rows, facing, history>>

\* The first hello reply ends the probe, whatever switch it is from.
TakeReply(f) ==
    /\ pc = "await"
    /\ Arrives(f)
    /\ facing' = f
    /\ pc' = "done"
    /\ UNCHANGED <<sent, age, lists, rows, target, history>>

TakeOther ==
    /\ pc = "await"
    /\ ReceiveUseless(RepAnswers)
    /\ sent' = sent + 1
    /\ pc' = IF sent + 1 < ProbeTries THEN pc ELSE "done"
    /\ UNCHANGED <<age, lists, rows, probe, history>>

-----------------------------------------------------------------------------
Init ==
    /\ pc \in {"sendHello", "probe"}
    /\ sent = 0
    /\ age = 0
    /\ hellos = <<>>
    /\ reps = <<>>
    /\ rows = {}
    /\ target = NoMac
    /\ facing = NoReply
    /\ air \in [Answers -> 0 .. 1]
    /\ heard = {}
    /\ early = {f \in Answers : air[f] > 0}

Scan ==
    \/ SendHello \/ SendRep \/ Report
    \/ \E f \in HelloAnswers : HearNewHello(f) \/ HearKnownHello(f)
    \/ \E f \in RepAnswers : HearNewRep(f) \/ HearKnownRep(f)
    \/ HearOther \/ HearSilence \/ HearOtherRep \/ HearSilenceRep

Probe ==
    \/ \E m \in Switches : SendProbe(m)
    \/ \E f \in HelloAnswers : TakeReply(f)
    \/ TakeOther

Next == Scan \/ Probe \/ SendFails

Spec == Init /\ [][Next]_vars

\* The process runs: a receive returns within its 100 ms.
FairSpec == Spec /\ WF_vars(Next)
-----------------------------------------------------------------------------
(***************************************************************************)
(* Properties                                                              *)
(***************************************************************************)
\* The variables hold values of their kinds; in particular f_cnt passes a
\* limit by one receive at most.
TypeOK ==
    /\ pc \in {"sendHello", "hear", "sendRep", "hearRep", "report",
               "probe", "await", "done", "exited"}
    /\ sent \in 0 .. Retries + ProbeTries
    /\ age \in 0 .. (IF pc \in {"hear", "sendRep", "exited"} THEN HelloPatience
                                                   ELSE RepPatience) + QuietAge
    /\ hellos \in Seq(HelloAnswers)
    /\ reps \in Seq(RepMacs)
    /\ \A row \in rows : row.hello \in BOOLEAN /\ row.rep \in BOOLEAN
    /\ target \in Switches \cup {NoMac}
    /\ facing \in HelloAnswers \cup {NoReply}
    /\ air \in [Answers -> 0 .. Copies]
    /\ heard \subseteq Answers
    /\ early \subseteq Answers

HeardHello(m) == \E f \in heard : HelloReply(f) /\ f.src = m
HeardRep(m) == [kind |-> "rep", src |-> m] \in heard
Single(R) == R # {} /\ \A row, other \in R : row = other
Scanned == pc = "done" /\ target = NoMac

\* What the table of rtl83xx_scan says of a switch is true: a line with a
\* hello answer or a REP answer is about a switch that has given it, however
\* answers were lost, repeated and late; a line without a hello answer is
\* about one that has given none, and a line with neither is about an uplink
\* that somebody named and that was never heard.
ReportTrue ==
    Scanned => \A row \in rows :
        /\ row.hello <=> HeardHello(row.mac)
        /\ row.rep => HeardRep(row.mac)
        /\ ~row.hello /\ ~row.rep =>
              /\ ~HeardRep(row.mac)
              /\ \E f \in heard : HelloReply(f) /\ f.uplink = row.mac

\* The table leaves nothing out and says nothing twice: every hello answer
\* heard has its one line, every switch that answered REP has one line that
\* says so, and every uplink named has a line, but for MACs that istr00mac
\* takes for none.
ReportComplete ==
    Scanned => \A f \in heard :
        /\ HelloReply(f) =>
              /\ Single({row \in rows : /\ row.hello
                                       /\ <<row.mac, row.uplink, row.via>>
                                          = <<f.src, f.uplink, f.via>>})
              /\ f.uplink \notin ZeroMacs => \E row \in rows : row.mac = f.uplink
        /\ ~HelloReply(f) => Single({row \in rows : row.rep /\ row.mac = f.src})

\* Though the probe does not look at the source of the answer, the answer it
\* takes is from the switch it has asked, unless the answer to some other
\* host's tool was already on its way when it began.
ProbeAnswersTarget ==
    facing # NoReply => facing.src = target \/ facing \in early

\* The scan and the probe end although frames of others never stop.
ScanEnds == <>(pc \in {"done", "exited"})
=============================================================================
