------------------------------ MODULE Rtlping ------------------------------
(***************************************************************************)
(* rtlping: rtl83xx_ping_ex of rrcp_io.c, which sends a hello or a REP     *)
(* frame, unless the caller hands it one already sent, and waits for an    *)
(* answer; and the main loop of rtlping.c, which makes one ping, or a      *)
(* hello ping and then a REP ping, and goes on receiving until WAIT is     *)
(* over, to print answers that come twice.                                 *)
(*                                                                         *)
(* The network loses frames, delays answers beyond any deadline and brings *)
(* them twice.  Time passes in ticks, several to a millisecond, and a      *)
(* process that waits may be woken late.                                   *)
(***************************************************************************)
EXTENDS Naturals

CONSTANTS
    Modes,      \* of "rrcp", "rep" and "rrcprep", those to consider
    MaxCount,   \* -c
    Wait,       \* -i, in ms (1000)
    Default,    \* DEFAULT_PING_TIME, in ms (500)
    PerMs,      \* ticks in a millisecond (1000)
    Late,       \* ticks by which a process may be woken late
    MaxErrors   \* receives that fail though nobody wants the process to end

ASSUME PingAssumption ==
    /\ Modes \subseteq {"rrcp", "rep", "rrcprep"}
    /\ {MaxCount, Wait, Default, PerMs} \subseteq Nat \ {0}
    /\ {Late, MaxErrors} \subseteq Nat

VARIABLES
    pc,       \* "begin" a round, "wait" in rtl83xx_ping_ex, "window",
              \* "done" or "exited"
    mode,
    call,     \* which call of rtl83xx_ping_ex: "first", "second" or "dup"
    cnt,      \* rounds finished, printed as "packets transmitted"
    recived,
    held,     \* *transmitted_packet
    now,      \* the time since starttime of main
    start,    \* starttime of rtl83xx_ping_ex
    curtime,  \* when rtl83xx_ping_ex began the receive it is in
    maxtime,
    rtt,      \* what the last rtl83xx_ping_ex has returned
    air,      \* answers on their way
    sent,     \* history: frames sent
    answered, \* history: REP frames that the switch has answered
    took,     \* history: the time the last accepted answer has taken
    errors    \* history: receives that failed

times == <<now, start, curtime, maxtime>>
result == <<rtt, took>>
vars == <<pc, mode, call, cnt, recived, held, times, result, air, sent, answered, errors>>

\* A frame stands for its answers, too.  Answers to a REP frame repeat its
\* cookies: they are those of the last REP frame sent, or others, of an older
\* frame or of another tool of this host.  Hello answers have no cookies.
None == "none"
Hello == "hello"
Rep == "rep"
OldRep == "old rep"

AtLeastOne(n) == IF n > 0 THEN n ELSE 1

(***************************************************************************)
(* rtl83xx_ping_ex                                                         *)
(***************************************************************************)
UseRep(c) == c = "second" \/ (c = "first" /\ mode = "rep")

\* The call c begins at time t; 0 ms stand for the default.
Enter(c, t, ms) ==
    /\ pc' = "wait"
    /\ call' = c
    /\ start' = t
    /\ curtime' = t
    /\ maxtime' = t + (IF ms = 0 THEN Default ELSE ms) * PerMs

\* More frames than MaxCount rounds and the failed receives can cause.
MaxSent == 2 * (MaxCount + MaxErrors) + 1
Capped(n) == IF n < MaxSent THEN n + 1 ELSE n

SendPing(c) ==
    LET f == IF UseRep(c) THEN Rep ELSE Hello
        older == IF UseRep(c) /\ Rep \in air THEN (air \ {Rep}) \cup {OldRep} ELSE air
    IN  /\ held' = f
        /\ sent' = Capped(sent)
        /\ \/ /\ air' = older \cup {f}
              /\ answered' = IF f = Rep THEN Capped(answered) ELSE answered
           \/ air' = older /\ UNCHANGED answered

\* Mutant: the cookies of a REP answer are not compared.
WantedKind(f) == IF UseRep(call) THEN f \in {Rep, OldRep} ELSE f = Hello

\* A hello answer has no cookies, so any will do.
Wanted(f) == IF UseRep(call) THEN f = Rep ELSE f = Hello

\* A frame is taken from the air, or will come again.
Take(f) == f \in air /\ air' \in {air, air \ {f}}

\* The time returned is that of the last look at the clock, which is before
\* the receive.
GotAnswer ==
    /\ pc = "wait"
    /\ \E f \in air : Wanted(f) /\ Take(f)
    /\ recived' = IF call = "dup" THEN recived ELSE recived + 1
    /\ rtt' = AtLeastOne(curtime - start)
    /\ took' = AtLeastOne(now - start)
    /\ pc' = "window"
    /\ UNCHANGED <<mode, call, cnt, held, times, sent, answered, errors>>

\* The call gives up: it frees the packet and returns 0.  A hello ping of
\* mode rrcprep is followed by a REP ping, with WAIT for itself.
GiveUp ==
    /\ rtt' = 0 /\ took' = 0
    /\ IF call = "first" /\ mode = "rrcprep"
       THEN /\ now' = 0
            /\ Enter("second", 0, Wait)
            /\ SendPing("second")
       ELSE /\ pc' = "window"
            /\ held' = None
            /\ UNCHANGED <<call, times, air, sent, answered>>
    /\ UNCHANGED <<mode, cnt, recived>>

\* A frame that is not wanted: the clock is looked at again.
GotOther ==
    /\ pc = "wait"
    /\ now < maxtime
    /\ \/ \E f \in air : ~Wanted(f) /\ Take(f)
       \/ UNCHANGED air
    /\ curtime' = now
    /\ UNCHANGED <<pc, mode, call, cnt, recived, held, now, start, maxtime, result,
                   sent, answered, errors>>

TimesOut ==
    /\ pc = "wait"
    /\ now >= maxtime
    /\ GiveUp
    /\ UNCHANGED errors

\* select or recvfrom fails, as select does when the process was stopped and
\* goes on; it is taken for SIGINT.
ReceiveFails ==
    /\ pc = "wait"
    /\ errors < MaxErrors
    /\ errors' = errors + 1
    /\ GiveUp

(***************************************************************************)
(* main of rtlping                                                         *)
(***************************************************************************)
BeginRound ==
    /\ pc = "begin"
    /\ cnt < MaxCount
    /\ now' = 0
    /\ Enter("first", 0, Wait)
    /\ SendPing("first")
    /\ UNCHANGED <<mode, cnt, recived, result, errors>>

\* A frame is due and sock_send cannot send it: the process ends.
SendFails ==
    /\ \/ pc = "begin" /\ cnt < MaxCount
       \/ pc = "wait" /\ call = "first" /\ mode = "rrcprep" /\ now >= maxtime
       \/ pc = "window" /\ held = None /\ now < Wait * PerMs
    /\ pc' = "exited"
    /\ UNCHANGED <<mode, call, cnt, recived, held, times, result, air, sent, answered,
                   errors>>

Finish ==
    /\ pc = "begin"
    /\ cnt = MaxCount
    /\ pc' = "done"
    /\ UNCHANGED <<mode, call, cnt, recived, held, times, result, air, sent, answered,
                   errors>>

Remain == Wait * PerMs - now

\* Mutant: rounded down.
WindowRoundedDown == Remain \div PerMs

\* Milliseconds to wait for answers that come twice, rounded up.
Window == Remain \div PerMs + 1

\* Mutant: the packet of the ping is not handed on.
ReceiveDupsNoPacket ==
    /\ pc = "window"
    /\ now < Wait * PerMs
    /\ Enter("dup", now, Window)
    /\ SendPing("dup")
    /\ rtt' = 0 /\ took' = 0
    /\ UNCHANGED <<mode, cnt, recived, now, errors>>

\* The window waits for hello answers in every mode, and sends a hello only
\* when the call before it has freed the packet.
ReceiveDups ==
    /\ pc = "window"
    /\ now < Wait * PerMs
    /\ Enter("dup", now, Window)
    /\ IF held = None
       THEN SendPing("dup")
       ELSE UNCHANGED <<held, sent, air, answered>>
    /\ rtt' = 0 /\ took' = 0
    /\ UNCHANGED <<mode, cnt, recived, now, errors>>

\* The locals of a call are gone.
Forget ==
    /\ call' = "first"
    /\ now' = 0
    /\ start' = 0
    /\ curtime' = 0
    /\ maxtime' = 0

\* Mutant: only rounds with an answer are counted.
EndRoundAnswered ==
    /\ pc = "window"
    /\ now >= Wait * PerMs
    /\ cnt' = recived
    /\ held' = None
    /\ rtt' = 0 /\ took' = 0
    /\ pc' = "begin"
    /\ Forget
    /\ UNCHANGED <<mode, recived, air, sent, answered, errors>>

EndRound ==
    /\ pc = "window"
    /\ now >= Wait * PerMs
    /\ cnt' = cnt + 1
    /\ held' = None
    /\ rtt' = 0 /\ took' = 0
    /\ pc' = "begin"
    /\ Forget
    /\ UNCHANGED <<mode, recived, air, sent, answered, errors>>

\* Mutant: SIGINT leaves the loop from the window as from the ping.
InterruptUncounted ==
    /\ pc \in {"begin", "wait", "window"}
    /\ pc' = "done"
    /\ held' = None
    /\ UNCHANGED <<mode, call, cnt, recived, times, result, air, sent, answered, errors>>

\* SIGINT: a round is counted when it has reached its window.
Interrupt ==
    /\ pc \in {"begin", "wait", "window"}
    /\ pc' = "done"
    /\ cnt' = IF pc = "window" \/ (pc = "wait" /\ call = "dup") THEN cnt + 1 ELSE cnt
    /\ held' = None
    /\ UNCHANGED <<mode, call, recived, times, result, air, sent, answered, errors>>

Tick ==
    /\ \/ pc = "wait" /\ now < maxtime + Late
       \/ pc = "window" /\ now < Wait * PerMs + Late
    /\ now' = now + 1
    /\ UNCHANGED <<pc, mode, call, cnt, recived, held, start, curtime, maxtime, result,
                   air, sent, answered, errors>>

-----------------------------------------------------------------------------
Init ==
    /\ pc = "begin"
    /\ mode \in Modes
    /\ call = "first"
    /\ cnt = 0
    /\ recived = 0
    /\ held = None
    /\ now = 0
    /\ start = 0
    /\ curtime = 0
    /\ maxtime = 0
    /\ rtt = 0 /\ took = 0
    /\ air \in SUBSET {Hello, OldRep}
    /\ sent = 0
    /\ answered = 0
    /\ errors = 0

Receive == GotAnswer \/ GotOther \/ TimesOut \/ ReceiveFails
Main == SendFails \/ BeginRound \/ ReceiveDups \/ EndRound \/ Finish

Next == Receive \/ Main \/ Interrupt \/ Tick

Spec == Init /\ [][Next]_vars

\* The clock goes on and the process runs; no frame need come.
FairSpec == Spec /\ WF_vars(Tick) /\ WF_vars(TimesOut) /\ WF_vars(Main)
-----------------------------------------------------------------------------
(***************************************************************************)
(* Properties                                                              *)
(***************************************************************************)
\* The variables hold values of their kinds; no call waits longer than WAIT
\* and the rest of a millisecond.
TypeOK ==
    /\ pc \in {"begin", "wait", "window", "done", "exited"}
    /\ mode \in Modes
    /\ call \in {"first", "second", "dup"}
    /\ cnt \in 0 .. MaxCount
    /\ recived \in 0 .. MaxCount
    /\ held \in {None, Hello, Rep}
    /\ start <= curtime /\ curtime <= now
    /\ maxtime \in 0 .. (Wait + 1) * PerMs
    /\ now <= maxtime + Late
    /\ rtt \in Nat
    /\ took \in Nat
    /\ air \subseteq {Hello, Rep, OldRep}
    /\ sent \in 0 .. MaxSent - 1
    /\ answered \in 0 .. sent
    /\ errors \in 0 .. MaxErrors

\* The round under way has sent its first frame and is not yet counted.
Uncounted == IF pc \in {"wait", "window"} THEN 1 ELSE 0

\* What rtlping prints as "packets transmitted" is what it has sent: a round
\* of the modes rrcp and rep sends one frame, and a round of rrcprep one or
\* two, though the window for answers that come twice calls the function
\* that sends pings again and again.  Except for a round that SIGINT has cut
\* short, and after a receive that failed.
SentOncePerRound ==
    errors = 0 =>
        LET rounds == cnt + Uncounted
        IN  /\ sent >= rounds
            /\ sent <= (IF mode = "rrcprep" THEN 2 ELSE 1)
                          * (IF pc \in {"done", "exited"} THEN rounds + 1 ELSE rounds)

\* In mode rep, "packets received" counts no answer twice and no answer to
\* another round or another tool: it is at most the frames that the switch
\* has answered.
RepCountTrue ==
    mode = "rep" => recived <= answered

\* The statistics never tell of more answers than frames, a loss below zero,
\* in any mode: a round counts one answer at most, though in the modes rrcp and
\* rrcprep late and repeated hello answers count for a ping they are not an
\* answer to, and a round that SIGINT ends in its window is counted with the
\* answer it got.
LossNotNegative == pc = "done" => recived <= cnt

\* rtlping makes its rounds and ends, however often answers are repeated and
\* whatever else is on the network.
PingingEnds == <>(pc \in {"done", "exited"})

\* What rtl83xx_ping_ex says of its result: it is the round-trip time.
RttTrue == rtt = took
=============================================================================
