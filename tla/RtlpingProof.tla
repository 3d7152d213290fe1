---------------------------- MODULE RtlpingProof ----------------------------
(***************************************************************************)
(* Proofs about Rtlping, for any number of rounds and of failed receives,  *)
(* any waiting times and any fineness of the clock.                        *)
(***************************************************************************)
EXTENDS Rtlping, TLAPS

(***************************************************************************)
(* The inductive invariant.                                                *)
(***************************************************************************)
\* The clock of a call, and of the window behind it, runs out after WAIT.
Clock ==
    /\ start \in Nat /\ curtime \in Nat /\ now \in Nat
    /\ pc \in {"wait", "window"} => Wait * PerMs <= maxtime

\* A round under way is one of those asked for; a call that waits has a packet.
RoundOpen ==
    /\ pc \in {"wait", "window"} => cnt < MaxCount
    /\ pc = "wait" => held # None
    /\ pc = "wait" /\ call = "second" => mode = "rrcprep"

\* What n whole rounds send at most.
Frames(n) == IF mode = "rrcprep" THEN 2 * n ELSE n

\* A receive that failed frees the packet before WAIT is over, and the window
\* sends another: at most one for each failure.
Resend == pc = "window" /\ held = None /\ now < Wait * PerMs

Counted ==
    /\ cnt + Uncounted <= sent
    /\ sent <= 2 * MaxCount + errors
    /\ pc = "begin" => sent <= Frames(cnt) + errors
    /\ pc = "wait" /\ call = "first" => sent <= Frames(cnt) + 1 + errors
    /\ pc = "wait" /\ call # "first" => sent <= Frames(cnt + 1) + errors
    /\ pc = "window" => sent <= Frames(cnt + 1) + errors
    /\ Resend => sent + 1 <= Frames(cnt + 1) + errors
    /\ pc \in {"done", "exited"} => sent <= Frames(cnt + 1) + errors

\* A round counts one answer, and none before it is there.
Received ==
    /\ pc = "begin" => recived <= cnt
    /\ pc = "wait" /\ call # "dup" => recived <= cnt
    /\ pc = "window" \/ (pc = "wait" /\ call = "dup") => recived <= cnt + 1
    /\ pc = "done" => recived <= cnt

\* An answer with the cookies of the frame last sent is to a frame that no
\* counted answer was to.
Unanswered ==
    mode = "rep" =>
        /\ recived <= answered
        /\ pc = "wait" /\ call = "first" /\ Rep \in air => recived + 1 <= answered

IInv == TypeOK /\ Clock /\ RoundOpen /\ Counted /\ Received /\ Unanswered
-----------------------------------------------------------------------------
(***************************************************************************)
(* Numbers                                                                 *)
(***************************************************************************)
LEMMA Numbers ==
    /\ MaxCount \in Nat \ {0} /\ Wait \in Nat \ {0} /\ PerMs \in Nat \ {0}
    /\ Late \in Nat /\ MaxErrors \in Nat
    /\ Wait * PerMs \in Nat \ {0}
    /\ (Wait + 1) * PerMs = Wait * PerMs + PerMs
    /\ MaxSent = 2 * MaxCount + 2 * MaxErrors + 1
<1>1. /\ MaxCount \in Nat \ {0} /\ Wait \in Nat \ {0} /\ PerMs \in Nat \ {0}
      /\ Late \in Nat /\ MaxErrors \in Nat
  BY PingAssumption
<1>2. \A m, n \in Nat : m * n \in Nat /\ (m + 1) * n = m * n + n
  OBVIOUS
<1>3. \A m, n \in Nat : m # 0 /\ n # 0 => m * n # 0
  OBVIOUS
<1>4. MaxSent = 2 * MaxCount + 2 * MaxErrors + 1
  BY <1>1 DEF MaxSent
<1> QED
  BY <1>1, <1>2, <1>3, <1>4

\* A whole division leaves less than the divisor.
LEMMA DivisionBounds ==
    ASSUME NEW a \in Nat, NEW b \in Nat \ {0}
    PROVE  /\ a \div b \in Nat
           /\ (a \div b + 1) * b <= a + b
           /\ a < (a \div b + 1) * b
OBVIOUS

\* The window asks for a millisecond at least, and for no more than is left of
\* WAIT and a millisecond.
LEMMA WindowBounds ==
    ASSUME now \in Nat, now < Wait * PerMs
    PROVE  /\ Window \in Nat \ {0}
           /\ now + Window * PerMs \in Nat
           /\ Wait * PerMs <= now + Window * PerMs
           /\ now + Window * PerMs <= (Wait + 1) * PerMs
<1>1. Remain \in Nat /\ now + Remain = Wait * PerMs
  BY Numbers DEF Remain
<1>2. /\ Remain \div PerMs \in Nat
      /\ (Remain \div PerMs + 1) * PerMs <= Remain + PerMs
      /\ Remain < (Remain \div PerMs + 1) * PerMs
  BY <1>1, Numbers, DivisionBounds
<1>3. Window \in Nat \ {0} /\ Window * PerMs \in Nat
  BY <1>2, Numbers DEF Window
<1> QED
  BY <1>1, <1>2, <1>3, Numbers DEF Window

\* The bound of the counters is never met: they count.
LEMMA SendCounts ==
    ASSUME TypeOK, NEW c \in {"first", "second", "dup"}, SendPing(c)
    PROVE  /\ sent' = sent + 1
           /\ held' = (IF UseRep(c) THEN Rep ELSE Hello) /\ held' # None
           /\ air' \subseteq {Hello, Rep, OldRep}
           /\ \/ answered' = answered /\ (UseRep(c) => Rep \notin air')
              \/ answered' = answered + 1 /\ UseRep(c)
           /\ answered' \in 0 .. sent'
<1>1. sent \in Nat /\ sent < MaxSent /\ answered \in Nat /\ answered <= sent
  BY Numbers DEF TypeOK
<1>2. Capped(sent) = sent + 1 /\ Capped(answered) = answered + 1
  BY <1>1, Numbers DEF Capped
<1>3. Hello # Rep /\ Rep # OldRep /\ None # Rep /\ None # Hello
  BY DEF Hello, Rep, OldRep, None
<1>4. air \subseteq {Hello, Rep, OldRep}
  BY DEF TypeOK
<1> QED
  BY <1>1, <1>2, <1>3, <1>4 DEF SendPing


-----------------------------------------------------------------------------
(***************************************************************************)
(* The call gives up, in its two ways: after the hello ping of a round of  *)
(* two pings the second is sent, after any other call the packet is freed. *)
(***************************************************************************)
SecondPing ==
    /\ call = "first" /\ mode = "rrcprep"
    /\ now' = 0
    /\ Enter("second", 0, Wait)
    /\ SendPing("second")

Freed ==
    /\ ~(call = "first" /\ mode = "rrcprep")
    /\ pc' = "window"
    /\ held' = None
    /\ UNCHANGED <<call, times, air, sent, answered>>

\* A call gives up when its time is over, or after a receive that failed.
LEMMA GivesUp ==
    ASSUME TypeOK, TimesOut \/ ReceiveFails
    PROVE  /\ pc = "wait"
           /\ UNCHANGED <<mode, cnt, recived>>
           /\ rtt' = 0 /\ took' = 0
           /\ SecondPing \/ Freed
           /\ \/ errors' = errors /\ now >= maxtime
              \/ errors' = errors + 1 /\ errors < MaxErrors
BY DEF TimesOut, ReceiveFails, GiveUp, SecondPing, Freed

-----------------------------------------------------------------------------
(***************************************************************************)
(* Types and the clock                                                     *)
(***************************************************************************)
LEMMA ClockStep ==
    ASSUME IInv, [Next]_vars
    PROVE  /\ Clock'
           /\ start' <= curtime' /\ curtime' <= now'
           /\ maxtime' \in 0 .. (Wait + 1) * PerMs
           /\ now' <= maxtime' + Late
<1>0. /\ start \in Nat /\ curtime \in Nat /\ now \in Nat /\ maxtime \in Nat
      /\ start <= curtime /\ curtime <= now /\ now <= maxtime + Late
      /\ maxtime <= (Wait + 1) * PerMs
      /\ pc \in {"wait", "window"} => Wait * PerMs <= maxtime
  BY Numbers DEF IInv, TypeOK, Clock
<1> USE DEF Clock
<1>1. CASE BeginRound
  <2>1. now' = 0 /\ start' = 0 /\ curtime' = 0 /\ maxtime' = 0 + Wait * PerMs
    BY <1>1, Numbers DEF BeginRound, Enter
  <2> QED
    BY <2>1, Numbers
<1>2. CASE TimesOut \/ ReceiveFails
  <2>1. CASE SecondPing
    <3>1. now' = 0 /\ start' = 0 /\ curtime' = 0 /\ maxtime' = 0 + Wait * PerMs
      BY <2>1, Numbers DEF SecondPing, Enter
    <3> QED
      BY <3>1, Numbers
  <2>2. CASE Freed
    <3>1. pc = "wait"
      BY <1>2, GivesUp DEF IInv
    <3> QED
      BY <1>0, <2>2, <3>1, Numbers DEF Freed, times
  <2> QED
    BY <1>2, <2>1, <2>2, GivesUp DEF IInv
<1>3. CASE ReceiveDups
  <2>1. now < Wait * PerMs /\ now' = now /\ start' = now /\ curtime' = now
    BY <1>3 DEF ReceiveDups, Enter
  <2>2. maxtime' = now + Window * PerMs
    BY <1>0, <1>3, <2>1, WindowBounds DEF ReceiveDups, Enter
  <2> QED
    BY <1>0, <2>1, <2>2, WindowBounds, Numbers
<1>4. CASE EndRound
  <2>1. now' = 0 /\ start' = 0 /\ curtime' = 0 /\ maxtime' = 0 /\ pc' = "begin"
    BY <1>4 DEF EndRound, Forget
  <2> QED
    BY <2>1, Numbers
<1>5. CASE Tick
  <2>1. now' = now + 1 /\ UNCHANGED <<pc, start, curtime, maxtime>>
    BY <1>5 DEF Tick
  <2>2. now + 1 <= maxtime + Late
    BY <1>0, <1>5, Numbers DEF Tick
  <2> QED
    BY <1>0, <2>1, <2>2, Numbers
<1>6. CASE GotOther
  <2>1. curtime' = now /\ UNCHANGED <<pc, start, now, maxtime>>
    BY <1>6 DEF GotOther
  <2> QED
    BY <1>0, <2>1, Numbers
<1>7. CASE UNCHANGED times /\ (pc \in {"wait", "window"} \/ pc' \notin {"wait", "window"})
  BY <1>0, <1>7, Numbers DEF times
<1>8. CASE UNCHANGED vars
  BY <1>0, <1>8, Numbers DEF vars, times
<1> QED
  BY <1>1, <1>2, <1>3, <1>4, <1>5, <1>6, <1>7, <1>8
  DEF Next, Receive, Main, GotAnswer, SendFails, Finish, Interrupt

LEMMA RoundStep ==
    ASSUME IInv, [Next]_vars
    PROVE  RoundOpen'
<1> USE DEF RoundOpen
<1>0. TypeOK /\ cnt \in Nat /\ cnt <= MaxCount /\ RoundOpen /\ (cnt # MaxCount => cnt < MaxCount)
  BY Numbers DEF IInv, TypeOK
<1>1. CASE BeginRound
  <2>1. pc' = "wait" /\ call' = "first" /\ cnt' = cnt /\ cnt < MaxCount
    BY <1>1 DEF BeginRound, Enter
  <2>2. held' # None
    BY <1>0, <1>1, SendCounts DEF BeginRound
  <2> QED
    BY <2>1, <2>2
<1>2. CASE TimesOut \/ ReceiveFails
  <2>1. CASE SecondPing
    <3>1. pc' = "wait" /\ call' = "second" /\ held' # None /\ mode = "rrcprep"
      BY <1>0, <2>1, SendCounts DEF SecondPing, Enter
    <3> QED
      BY <1>0, <1>2, <3>1, GivesUp
  <2>2. CASE Freed
    BY <1>0, <1>2, <2>2, GivesUp DEF Freed
  <2> QED
    BY <1>0, <1>2, <2>1, <2>2, GivesUp
<1>3. CASE ReceiveDups
  <2>1. pc = "window" /\ pc' = "wait" /\ call' = "dup" /\ cnt' = cnt
    BY <1>3 DEF ReceiveDups, Enter
  <2>2. held' # None
    BY <1>0, <1>3, SendCounts DEF ReceiveDups
  <2> QED
    BY <1>0, <2>1, <2>2
<1>4. CASE EndRound \/ Interrupt \/ SendFails \/ Finish
  BY <1>4 DEF EndRound, Interrupt, SendFails, Finish
<1>5. CASE GotAnswer \/ GotOther \/ Tick \/ UNCHANGED vars
  BY <1>0, <1>5 DEF GotAnswer, GotOther, Tick, vars
<1> QED
  BY <1>1, <1>2, <1>3, <1>4, <1>5 DEF Next, Receive, Main

-----------------------------------------------------------------------------
(***************************************************************************)
(* What is sent                                                            *)
(***************************************************************************)
LEMMA FramesGrow ==
    ASSUME NEW n \in Nat
    PROVE  /\ Frames(n) \in Nat /\ Frames(n + 1) \in Nat
           /\ Frames(n) + 1 <= Frames(n + 1)
           /\ mode = "rrcprep" => Frames(n) + 2 = Frames(n + 1)
           /\ n < MaxCount => Frames(n + 1) <= 2 * MaxCount
           /\ n <= MaxCount => Frames(n) <= 2 * MaxCount
BY Numbers DEF Frames

LEMMA ModeStays ==
    ASSUME [Next]_vars
    PROVE  mode' = mode
BY DEF Next, Receive, Main, GotAnswer, GotOther, TimesOut, ReceiveFails, GiveUp, BeginRound,
   SendFails, ReceiveDups, EndRound, Finish, Interrupt, Tick, vars

LEMMA CountedStep ==
    ASSUME IInv, [Next]_vars
    PROVE  Counted'
<1> DEFINE whole == Frames(cnt)
           more == Frames(cnt + 1)
<1>1. /\ TypeOK /\ RoundOpen
      /\ cnt \in Nat /\ sent \in Nat /\ errors \in Nat /\ now \in Nat
      /\ cnt <= MaxCount /\ (cnt # MaxCount => cnt < MaxCount) /\ MaxCount \in Nat
  BY Numbers DEF IInv, TypeOK, Clock
<1>2. /\ whole \in Nat /\ more \in Nat /\ whole + 1 <= more /\ whole <= 2 * MaxCount
      /\ cnt < MaxCount => more <= 2 * MaxCount
      /\ mode = "rrcprep" => whole + 2 = more
  BY <1>1, FramesGrow
<1>3. /\ cnt' = cnt => whole' = whole /\ more' = more
      /\ cnt' = cnt + 1 => whole' = more /\ more' \in Nat /\ more <= more'
  BY <1>1, ModeStays DEF Frames
<1>4. /\ cnt + Uncounted <= sent
      /\ sent <= 2 * MaxCount + errors
      /\ pc = "begin" => sent <= whole + errors
      /\ pc = "wait" /\ call = "first" => sent <= whole + 1 + errors
      /\ pc = "wait" /\ call # "first" => sent <= more + errors
      /\ pc = "window" => sent <= more + errors
      /\ Resend => sent + 1 <= more + errors
      /\ pc \in {"done", "exited"} => sent <= more + errors
  BY DEF IInv, Counted
<1>5. SUFFICES /\ cnt' + Uncounted' <= sent'
               /\ sent' <= 2 * MaxCount + errors'
               /\ pc' = "begin" => sent' <= whole' + errors'
               /\ pc' = "wait" /\ call' = "first" => sent' <= whole' + 1 + errors'
               /\ pc' = "wait" /\ call' # "first" => sent' <= more' + errors'
               /\ pc' = "window" => sent' <= more' + errors'
               /\ Resend' => sent' + 1 <= more' + errors'
               /\ pc' \in {"done", "exited"} => sent' <= more' + errors'
  BY DEF Counted
<1> HIDE DEF whole, more
<1> USE DEF Uncounted
<1>6. CASE BeginRound
  <2>1. /\ pc = "begin" /\ pc' = "wait" /\ call' = "first" /\ cnt' = cnt /\ errors' = errors
        /\ cnt < MaxCount
    BY <1>6 DEF BeginRound, Enter
  <2>2. sent' = sent + 1
    BY <1>1, <1>6, SendCounts DEF BeginRound
  <2>3. ~Resend'
    BY <2>1 DEF Resend
  <2> QED
    BY <1>1, <1>2, <1>3, <1>4, <2>1, <2>2, <2>3
<1>7. CASE TimesOut \/ ReceiveFails
  <2>1. /\ pc = "wait" /\ cnt' = cnt
        /\ SecondPing \/ Freed
        /\ \/ errors' = errors + 1
           \/ errors' = errors /\ now >= maxtime
    BY <1>1, <1>7, GivesUp
  <2>2. CASE SecondPing
    <3>1. pc' = "wait" /\ call' = "second" /\ sent' = sent + 1 /\ call = "first" /\ mode = "rrcprep"
      BY <1>1, <2>2, SendCounts DEF SecondPing, Enter
    <3>2. cnt < MaxCount /\ ~Resend'
      BY <1>1, <2>1, <3>1 DEF RoundOpen, Resend
    <3> QED
      BY <1>1, <1>2, <1>3, <1>4, <2>1, <3>1, <3>2
  <2>3. CASE Freed
    <3>1. pc' = "window" /\ sent' = sent /\ now' = now
      BY <2>3 DEF Freed, times
    <3>2. cnt < MaxCount /\ sent <= more + errors
      BY <1>1, <1>2, <1>4, <2>1 DEF RoundOpen
    <3>3. Resend' => errors' = errors + 1
      <4>1. errors' = errors => now >= Wait * PerMs
        BY <2>1, Numbers DEF IInv, Clock, TypeOK
      <4> QED
        BY <1>1, <2>1, <3>1, <4>1, Numbers DEF Resend
    <3> QED
      BY <1>1, <1>2, <1>3, <1>4, <2>1, <3>1, <3>2, <3>3
  <2> QED
    BY <2>1, <2>2, <2>3
<1>8. CASE ReceiveDups
  <2>1. /\ pc = "window" /\ pc' = "wait" /\ call' = "dup" /\ cnt' = cnt /\ errors' = errors
        /\ cnt < MaxCount /\ now < Wait * PerMs
    BY <1>1, <1>8 DEF ReceiveDups, Enter, RoundOpen
  <2>2. \/ sent' = sent
        \/ sent' = sent + 1 /\ Resend
    BY <1>1, <1>8, <2>1, SendCounts DEF ReceiveDups, Resend
  <2>3. ~Resend'
    BY <2>1 DEF Resend
  <2> QED
    BY <1>1, <1>2, <1>3, <1>4, <2>1, <2>2, <2>3
<1>9. CASE EndRound
  <2>1. pc = "window" /\ pc' = "begin" /\ cnt' = cnt + 1 /\ UNCHANGED <<sent, errors>> /\ ~Resend'
    BY <1>9 DEF EndRound, Resend
  <2> QED
    BY <1>1, <1>2, <1>3, <1>4, <2>1
<1>10. CASE GotAnswer \/ GotOther
  <2>1. /\ pc = "wait" /\ UNCHANGED <<call, cnt, held, sent, errors>> /\ held # None
        /\ pc' \in {"wait", "window"} /\ cnt < MaxCount
    BY <1>1, <1>10 DEF GotAnswer, GotOther, RoundOpen
  <2>2. ~Resend'
    BY <2>1 DEF Resend
  <2> QED
    BY <1>1, <1>2, <1>3, <1>4, <2>1, <2>2
<1>11. CASE Tick
  <2>1. UNCHANGED <<pc, call, cnt, held, sent, errors>> /\ now' = now + 1
    BY <1>11 DEF Tick
  <2>2. Resend' => Resend
    BY <1>1, <2>1, Numbers DEF Resend
  <2> QED
    BY <1>1, <1>2, <1>3, <1>4, <2>1, <2>2
<1>12. CASE SendFails \/ Finish \/ Interrupt
  <2>1. /\ pc' \in {"done", "exited"} /\ UNCHANGED <<sent, errors>> /\ ~Resend'
        /\ pc \in {"begin", "wait", "window"}
        /\ cnt' = cnt \/ (cnt' = cnt + 1 /\ pc \in {"wait", "window"})
    BY <1>12 DEF SendFails, Finish, Interrupt, Resend
  <2>2. sent <= more + errors
    BY <1>1, <1>2, <1>4, <2>1
  <2> QED
    BY <1>1, <1>2, <1>3, <1>4, <2>1, <2>2
<1>13. CASE UNCHANGED vars
  <2>1. UNCHANGED <<pc, call, cnt, held, now, sent, errors>>
    BY <1>13 DEF vars, times
  <2>2. Resend' = Resend
    BY <2>1 DEF Resend
  <2> QED
    BY <1>1, <1>2, <1>3, <1>4, <2>1, <2>2
<1> QED
  BY <1>6, <1>7, <1>8, <1>9, <1>10, <1>11, <1>12, <1>13 DEF Next, Receive, Main


-----------------------------------------------------------------------------
(***************************************************************************)
(* What is counted as received                                             *)
(***************************************************************************)
LEMMA ReceivedStep ==
    ASSUME IInv, [Next]_vars
    PROVE  Received'
<1>1. TypeOK /\ recived \in Nat /\ cnt \in Nat /\ Received
  BY Numbers DEF IInv, TypeOK
<1> USE DEF Received
<1>2. CASE BeginRound
  BY <1>1, <1>2 DEF BeginRound, Enter
<1>3. CASE TimesOut \/ ReceiveFails
  BY <1>1, <1>3, GivesUp DEF SecondPing, Freed, Enter
<1>4. CASE ReceiveDups
  BY <1>1, <1>4 DEF ReceiveDups, Enter
<1>5. CASE GotAnswer \/ GotOther
  BY <1>1, <1>5 DEF GotAnswer, GotOther, TypeOK
<1>6. CASE EndRound \/ Interrupt \/ SendFails \/ Finish
  BY <1>1, <1>6 DEF EndRound, Interrupt, SendFails, Finish
<1>7. CASE Tick \/ UNCHANGED vars
  BY <1>1, <1>7 DEF Tick, vars
<1> QED
  BY <1>2, <1>3, <1>4, <1>5, <1>6, <1>7 DEF Next, Receive, Main

LEMMA UnansweredStep ==
    ASSUME IInv, [Next]_vars
    PROVE  Unanswered'
<1>1. /\ TypeOK /\ recived \in Nat /\ answered \in Nat
      /\ pc = "wait" => call # "second" \/ mode # "rep"
  BY Numbers DEF IInv, TypeOK, RoundOpen
<1> SUFFICES ASSUME mode = "rep"
             PROVE  /\ recived' <= answered'
                    /\ pc' = "wait" /\ call' = "first" /\ Rep \in air' => recived' + 1 <= answered'
  BY ModeStays DEF Unanswered
<1>2. /\ recived <= answered
      /\ pc = "wait" /\ call = "first" /\ Rep \in air => recived + 1 <= answered
  BY DEF IInv, Unanswered
<1>3. CASE BeginRound
  <2>1. UseRep("first") /\ recived' = recived /\ SendPing("first")
    BY <1>3 DEF BeginRound, UseRep
  <2>2. \/ answered' = answered /\ Rep \notin air'
        \/ answered' = answered + 1
    BY <1>1, <2>1, SendCounts
  <2> QED
    BY <1>1, <1>2, <2>1, <2>2
<1>4. CASE TimesOut \/ ReceiveFails
  <2>1. Freed /\ recived' = recived
    BY <1>1, <1>4, GivesUp DEF SecondPing
  <2> QED
    BY <1>2, <2>1 DEF Freed
<1>5. CASE ReceiveDups
  <2>1. call' = "dup" /\ recived' = recived /\ ~UseRep("dup")
    BY <1>5 DEF ReceiveDups, Enter, UseRep
  <2>2. answered' = answered
    BY <1>1, <1>5, <2>1, SendCounts DEF ReceiveDups
  <2> QED
    BY <1>2, <2>1, <2>2
<1>6. CASE GotAnswer
  <2>1. pc = "wait" /\ pc' = "window" /\ answered' = answered
    BY <1>6 DEF GotAnswer
  <2>2. CASE call = "dup"
    BY <1>2, <1>6, <2>1, <2>2 DEF GotAnswer
  <2>3. CASE call = "first"
    <3>1. Rep \in air /\ recived' = recived + 1
      BY <1>6, <2>3 DEF GotAnswer, Wanted, UseRep, Take
    <3> QED
      BY <1>2, <2>1, <2>3, <3>1
  <2> QED
    BY <1>1, <2>1, <2>2, <2>3 DEF TypeOK
<1>7. CASE GotOther
  <2>1. /\ UNCHANGED <<pc, call, recived, answered>>
        /\ air' \subseteq air
    BY <1>7 DEF GotOther, Take
  <2> QED
    BY <1>2, <2>1
<1>8. CASE EndRound \/ Interrupt \/ SendFails \/ Finish
  BY <1>2, <1>8 DEF EndRound, Interrupt, SendFails, Finish
<1>9. CASE Tick \/ UNCHANGED vars
  BY <1>2, <1>9 DEF Tick, vars
<1> QED
  BY <1>3, <1>4, <1>5, <1>6, <1>7, <1>8, <1>9 DEF Next, Receive, Main

LEMMA TypeStep ==
    ASSUME IInv, [Next]_vars
    PROVE  TypeOK'
<1>1. TypeOK /\ cnt \in Nat /\ sent \in Nat /\ errors \in Nat /\ recived \in Nat /\ MaxCount \in Nat
  BY Numbers DEF IInv, TypeOK
<1>2. /\ start' <= curtime' /\ curtime' <= now'
      /\ maxtime' \in 0 .. (Wait + 1) * PerMs
      /\ now' <= maxtime' + Late
  BY ClockStep
<1>3. errors' \in 0 .. MaxErrors
  BY <1>1, Numbers DEF TypeOK, Next, Receive, Main, GotAnswer, GotOther, TimesOut, ReceiveFails,
     BeginRound, SendFails, ReceiveDups, EndRound, Finish, Interrupt, Tick, vars
<1>4. cnt' \in 0 .. MaxCount
  <2>1. cnt' = cnt \/ (cnt' = cnt + 1 /\ pc \in {"wait", "window"})
    BY DEF Next, Receive, Main, GotAnswer, GotOther, TimesOut, ReceiveFails, GiveUp, BeginRound,
       SendFails, ReceiveDups, EndRound, Finish, Interrupt, Tick, vars
  <2> QED
    BY <1>1, <2>1 DEF IInv, RoundOpen, TypeOK
<1>5. recived' \in 0 .. MaxCount
  <2>1. \/ recived' = recived
        \/ recived' = recived + 1 /\ pc = "wait" /\ call # "dup"
    BY DEF Next, Receive, Main, GotAnswer, GotOther, TimesOut, ReceiveFails, GiveUp, BeginRound,
       SendFails, ReceiveDups, EndRound, Finish, Interrupt, Tick, vars
  <2>2. pc = "wait" /\ call # "dup" => recived + 1 <= MaxCount
    BY <1>1 DEF IInv, Received, RoundOpen
  <2> QED
    BY <1>1, <2>1, <2>2 DEF TypeOK
<1>6. /\ sent' \in 0 .. MaxSent - 1 /\ answered' \in 0 .. sent'
      /\ held' \in {None, Hello, Rep} /\ air' \subseteq {Hello, Rep, OldRep}
  <2>1. /\ sent' \in Nat /\ answered' \in 0 .. sent'
        /\ held' \in {None, Hello, Rep} /\ air' \subseteq {Hello, Rep, OldRep}
    <3>1. CASE SendPing("first") \/ SendPing("second") \/ SendPing("dup")
      <4>1. PICK c \in {"first", "second", "dup"} : SendPing(c)
        BY <3>1
      <4>2. sent' = sent + 1 /\ held' = (IF UseRep(c) THEN Rep ELSE Hello)
            /\ air' \subseteq {Hello, Rep, OldRep} /\ answered' \in 0 .. sent'
        BY <1>1, <4>1, SendCounts
      <4> QED
        BY <1>1, <4>2
    <3>2. CASE UNCHANGED <<sent, answered>> /\ held' \in {held, None} /\ air' \subseteq air
      BY <1>1, <3>2 DEF TypeOK
    <3>3. CASE TimesOut \/ ReceiveFails
      BY <1>1, <3>1, <3>2, <3>3, GivesUp DEF SecondPing, Freed
    <3>4. CASE BeginRound \/ ReceiveDups
      BY <3>1, <3>2, <3>4 DEF BeginRound, ReceiveDups
    <3>5. CASE GotAnswer \/ GotOther
      BY <3>2, <3>5 DEF GotAnswer, GotOther, Take
    <3>6. CASE SendFails \/ EndRound \/ Finish \/ Interrupt \/ Tick \/ UNCHANGED vars
      BY <3>2, <3>6 DEF SendFails, EndRound, Finish, Interrupt, Tick, vars
    <3> QED
      BY <3>3, <3>4, <3>5, <3>6 DEF Next, Receive, Main
  <2>2. sent' <= 2 * MaxCount + errors'
    BY CountedStep DEF Counted
  <2>3. sent' \in 0 .. MaxSent - 1
    <3>1. errors' \in Nat /\ errors' <= MaxErrors /\ sent' \in Nat
      BY <1>3, <2>1, Numbers
    <3>2. \A n, e \in Nat : n <= 2 * MaxCount + e /\ e <= MaxErrors => n \in 0 .. MaxSent - 1
      BY Numbers
    <3> QED
      BY <2>2, <3>1, <3>2
  <2> QED
    BY <2>1, <2>3
<1>7. /\ pc' \in {"begin", "wait", "window", "done", "exited"} /\ mode' \in Modes
      /\ call' \in {"first", "second", "dup"}
  <2>1. pc' \in {"begin", "wait", "window", "done", "exited"} /\ call' \in {"first", "second", "dup"}
    BY <1>1, GivesUp DEF TypeOK, Next, Receive, Main, GotAnswer, GotOther, BeginRound, SendFails,
       ReceiveDups, EndRound, Finish, Interrupt, Tick, vars, SecondPing, Freed, Enter, Forget
  <2> QED
    BY <1>1, <2>1, ModeStays DEF TypeOK
<1>8. rtt' \in Nat /\ took' \in Nat
  <2>1. CASE GotAnswer
    <3>1. curtime - start \in Nat /\ now - start \in Nat
      BY DEF IInv, TypeOK, Clock
    <3> QED
      BY <2>1, <3>1 DEF GotAnswer, AtLeastOne
  <2>2. CASE UNCHANGED result \/ (rtt' = 0 /\ took' = 0)
    BY <1>1, <2>2 DEF TypeOK, result
  <2> QED
    BY <1>1, <2>1, <2>2, GivesUp DEF Next, Receive, Main, GotOther, BeginRound, SendFails,
       ReceiveDups, EndRound, Finish, Interrupt, Tick, vars
<1> QED
  BY <1>2, <1>3, <1>4, <1>5, <1>6, <1>7, <1>8 DEF TypeOK

-----------------------------------------------------------------------------
(***************************************************************************)
(* The theorems                                                            *)
(***************************************************************************)
LEMMA InvInit == Init => IInv
<1> SUFFICES ASSUME Init PROVE IInv
  OBVIOUS
<1>1. TypeOK
  BY Numbers DEF Init, TypeOK
<1>2. Clock /\ RoundOpen /\ Received /\ Unanswered
  BY DEF Init, Clock, RoundOpen, Received, Unanswered
<1>3. Counted
  BY Numbers DEF Init, Counted, Uncounted, Resend, Frames
<1> QED
  BY <1>1, <1>2, <1>3 DEF IInv

LEMMA InvStep == IInv /\ [Next]_vars => IInv'
BY TypeStep, ClockStep, RoundStep, CountedStep, ReceivedStep, UnansweredStep DEF IInv

LEMMA InvHolds == Spec => []IInv
BY InvInit, InvStep, PTL DEF Spec

\* The variables hold values of their kinds: no call waits longer than WAIT
\* and a millisecond, no more rounds are made or answers counted than asked
\* for, and no more frames sent than the rounds and the failed receives cause.
THEOREM TypeCorrect == Spec => []TypeOK
<1>1. IInv => TypeOK
  BY DEF IInv
<1> QED
  BY <1>1, InvHolds, PTL

\* Without a failed receive, each round has sent its one frame, or in mode
\* rrcprep one or two, and the window for answers that come twice none.
THEOREM SentOncePerRoundHolds == Spec => []SentOncePerRound
<1>1. IInv => SentOncePerRound
  <2> SUFFICES ASSUME IInv, errors = 0
               PROVE  /\ sent >= cnt + Uncounted
                      /\ sent <= (IF mode = "rrcprep" THEN 2 ELSE 1)
                           * (IF pc \in {"done", "exited"} THEN cnt + Uncounted + 1 ELSE cnt + Uncounted)
    BY DEF SentOncePerRound
  <2>1. cnt \in Nat /\ sent \in Nat /\ cnt + Uncounted <= sent
    BY Numbers DEF IInv, TypeOK, Counted
  <2>2. sent <= Frames(IF pc \in {"done", "exited"} THEN cnt + Uncounted + 1 ELSE cnt + Uncounted)
    <3>1. Frames(cnt) + 1 <= Frames(cnt + 1) /\ Frames(cnt) \in Nat /\ Frames(cnt + 1) \in Nat
      BY <2>1, FramesGrow
    <3>2. pc \in {"begin", "wait", "window", "done", "exited"}
      BY DEF IInv, TypeOK
    <3>3. /\ pc = "begin" => sent <= Frames(cnt)
          /\ pc # "begin" => sent <= Frames(cnt + 1)
      BY <2>1, <3>1, <3>2 DEF IInv, Counted
    <3>4. CASE pc = "begin"
      BY <2>1, <3>3, <3>4 DEF Uncounted
    <3>5. CASE pc \in {"wait", "window"}
      BY <2>1, <3>3, <3>5 DEF Uncounted
    <3>6. CASE pc \in {"done", "exited"}
      <4>1. cnt + Uncounted + 1 = cnt + 1
        BY <2>1, <3>6 DEF Uncounted
      <4> QED
        BY <3>3, <3>6, <4>1
    <3> QED
      BY <3>2, <3>4, <3>5, <3>6
  <2> QED
    BY <2>1, <2>2 DEF Frames, Uncounted
<1> QED
  BY <1>1, InvHolds, PTL

\* In mode rep no answer is counted twice, nor one to an older frame or to
\* another tool: the answers counted are at most the frames answered.
THEOREM RepCountTrueHolds == Spec => []RepCountTrue
<1>1. IInv => RepCountTrue
  BY DEF IInv, Unanswered, RepCountTrue
<1> QED
  BY <1>1, InvHolds, PTL

\* In every mode and however rtlping ends, it has counted a round for every
\* answer.
THEOREM LossNotNegativeHolds == Spec => []LossNotNegative
<1>1. IInv => LossNotNegative
  BY DEF IInv, Received, LossNotNegative
<1> QED
  BY <1>1, InvHolds, PTL

=============================================================================
