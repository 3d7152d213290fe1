---------------------------- MODULE ToolSessions ----------------------------
(***************************************************************************)
(* Processes that change the configuration of one switch: commands of      *)
(* rtl83xx, which read, edit and write, and sessions of rrcpcli, which     *)
(* read once and then edit and write for each command.                     *)
(***************************************************************************)
EXTENDS SharedSwitch, RrcpCliCommands

CONSTANTS
    Sittings,      \* who is there: for each process its tool and its commands
    InitialHw,     \* what the registers may hold at first
    MaxCommands    \* commands given in a session of rrcpcli

ASSUME InitialHwAssumption == \A h \in InitialHw :
    DOMAIN h = Field /\ \A f \in Field : h[f] \in Legal(f)

ASSUME CommandsAssumption ==
    \A s \in Sittings, a \in Actor : \A c \in s[a].commands :
        /\ s[a].tool = "rtl83xx" => IsRtl83xx(c)
        /\ s[a].tool = "rrcpcli" => IsRrcpCli(c)

VARIABLES
    sitting,   \* the processes of this run
    cmd,       \* the command, or the last one of a session
    given,     \* commands given so far
    stage,     \* where a capture or a check is
    notes      \* what a capture or a check has noted; the verdict of a check

toolVars == <<sitting, cmd, given, stage, notes>>
vars == <<sharedVars, toolVars>>

Is(a, tool) == sitting[a].tool = tool

(***************************************************************************)
(* rtl83xx: one command.                                                   *)
(***************************************************************************)
Begin(a, c, job, s) ==
    /\ status[a] = "idle"
    /\ status' = [status EXCEPT ![a] = "running"]
    /\ cmd' = [cmd EXCEPT ![a] = c]
    /\ todo' = [todo EXCEPT ![a] = job.ops]
    /\ edit' = [edit EXCEPT ![a] = job.edit]
    /\ stage' = [stage EXCEPT ![a] = s]
    /\ UNCHANGED <<hw, copy, lost, foreign, sitting, given, notes>>

StartRtl83xx(a) ==
    /\ Is(a, "rtl83xx")
    /\ \E c \in sitting[a].commands, wraps \in BOOLEAN :
        Begin(a, c, Rtl83xxJob(c, wraps), "command")
    /\ UNCHANGED key

(***************************************************************************)
(* rrcpcli: it reads the configuration, then commands are given.           *)
(***************************************************************************)
CliJob(a, c) ==
    IF c.ports # {}
    THEN InterfaceCommandJob(c, [q \in PhysPorts |-> Value(a, Port("media", q))])
    ELSE GlobalCommandJob(c)

StartRrcpCli(a) ==
    /\ Is(a, "rrcpcli")
    /\ Begin(a, NoCmd, Job(ReadConfig, Keep), "command")
    /\ UNCHANGED key

Prompt(a) == Is(a, "rrcpcli") /\ Running(a) /\ todo[a] = <<>>

\* What a command sets comes over what the session has set before.
GiveCommand(a) ==
    /\ Prompt(a)
    /\ given[a] < MaxCommands
    /\ \E c \in sitting[a].commands :
        LET job == CliJob(a, c)
        IN /\ cmd' = [cmd EXCEPT ![a] = c]
           /\ todo' = [todo EXCEPT ![a] = job.ops]
           /\ edit' = [edit EXCEPT ![a] = job.edit ++ @]
    /\ given' = [given EXCEPT ![a] = @ + 1]
    /\ UNCHANGED <<hw, status, copy, key, lost, foreign, sitting, stage, notes>>

(***************************************************************************)
(* The accesses.  A read of rtl83xx or rrcpcli that gets no answer ends    *)
(* the process; so do a signal and the alarm of rtl83xx.                   *)
(***************************************************************************)
\* "vlan clear" has the number of its VLAN from the mode it has just read.
Refined(a) == IF cmd[a].word = "vlan clear" /\ Is(a, "rtl83xx")
              THEN [edit[a] EXCEPT ![Vid(0)] = copy'[a][Flag("dot1q")]]
              ELSE edit[a]

Access(a) ==
    \/ ReadReg(a) /\ edit' = [edit EXCEPT ![a] = Refined(a)] /\ UNCHANGED toolVars
    \/ WriteReg(a) /\ UNCHANGED toolVars
    \/ LoseWrite(a) /\ UNCHANGED toolVars
    \/ SkipWrite(a) /\ UNCHANGED toolVars

Exit(a, how) ==
    /\ Leave(a, how)
    /\ cmd' = [cmd EXCEPT ![a] = NoCmd]
    /\ given' = [given EXCEPT ![a] = 0]
    /\ stage' = [stage EXCEPT ![a] = "none"]
    /\ notes' = [notes EXCEPT ![a] = {}]
    /\ UNCHANGED sitting

AtEnd(a) == Running(a) /\ stage[a] = "command" /\ todo[a] = <<>>

Finish(a) == AtEnd(a) /\ Exit(a, "done")

EndInside(a) ==
    /\ Running(a)
    /\ todo[a] # <<>> \/ stage[a] = "loop"
    /\ Exit(a, "ended")
=============================================================================
