--------------------------- MODULE RrcpIoProof ---------------------------
(***************************************************************************)
(* Proofs about RrcpIo for any registers, values, cookies, numbers of      *)
(* tries and capacity of the wire.  The safety theorems assume that sendto *)
(* does not fail three times in a row: with ~SendErrors the process is     *)
(* never handed an unassigned value.                                       *)
(***************************************************************************)
EXTENDS RrcpIo, SequenceTheorems, TLAPS

(***************************************************************************)
(* The inductive invariant.                                                *)
(***************************************************************************)
\* What the program counter says of the locals.
Locals ==
    /\ pc = "idle" => op = NoCall /\ cnt = 0
    /\ pc = "sendSet" => op.kind = "Set" /\ setKey \in Vals /\ cnt < SetTries
    /\ pc \in {"sendGet", "wait"} =>
          /\ op.kind \in {"Read", "Set"}
          /\ op.reg \in Readable
          /\ Verifying => setKey \in Vals
          /\ Verifying /\ op.reg = AuthReg => prevAuth \in Vals
    /\ pc # "ended" => tries < ReadTries
    /\ pc = "wait" <=> cookie \in Cookies

\* A SET in flight is one of the call being made, or asks for a reset.
OnlyOwnSets ==
    \A i \in 1 .. Len(toSwitch) :
        toSwitch[i].kind = "SET" =>
            \/ toSwitch[i].reg = ResetReg /\ resetAsked
            \/ /\ op.kind = "Set"
               /\ toSwitch[i].reg = op.reg
               /\ toSwitch[i].val = op.val
               /\ op.reg # ResetReg

\* The GET waited for is behind every other request.
CurrentGetIsLast ==
    pc = "wait" =>
        \A i \in 1 .. Len(toSwitch) :
            toSwitch[i].cookie = cookie =>
                i = Len(toSwitch) /\ toSwitch[i].reg = op.reg

\* An answer to it says what the registers still hold, and no request that
\* could change them is behind it.
AnswerIsCurrent ==
    pc = "wait" =>
        \A i \in 1 .. Len(toClient) :
            toClient[i].cookie = cookie =>
                /\ toClient[i].reg = op.reg
                /\ toClient[i].val = reg[op.reg]
                /\ toClient[i].key = reg[AuthReg]
                /\ \A j \in 1 .. Len(toSwitch) : toSwitch[j].cookie = cookie

\* A write about to be reported failed has failed for good.
FailureIsFinal ==
    Reporting /\ pc \in {"sendGet", "wait"} =>
        /\ op.reg \in Writable
        /\ reg[op.reg] # op.val
        /\ \A i \in 1 .. Len(toSwitch) : toSwitch[i].kind # "SET"

\* A change of the key is verified in its first round, under the new key,
\* or not at all.
Rekeying == op.kind = "Set" /\ op.reg = AuthReg
KeyChange ==
    /\ Rekeying => cnt = 0
    /\ Rekeying /\ pc \in {"sendGet", "wait"} => authkey = op.val
    /\ ~Rekeying /\ ~resetAsked => authkey = reg[AuthReg]

IInv ==
    /\ TypeOK
    /\ Locals
    /\ OnlyOwnSets
    /\ CurrentGetIsLast
    /\ AnswerIsCurrent
    /\ FailureIsFinal
    /\ KeyChange

-----------------------------------------------------------------------------
(***************************************************************************)
(* The wire.                                                               *)
(***************************************************************************)
\* What is left of a wire when its first frame goes.
LEMMA WireTail ==
    ASSUME NEW S, NEW w \in Seq(S), w # <<>>
    PROVE  /\ Head(w) \in S /\ Head(w) = w[1]
           /\ Len(w) \in Nat \ {0}
           /\ Tail(w) \in Seq(S)
           /\ Len(Tail(w)) = Len(w) - 1
           /\ \A i \in 1 .. Len(Tail(w)) : i + 1 \in 1 .. Len(w) /\ Tail(w)[i] = w[i + 1]
<1>1. Len(w) \in Nat /\ Len(w) # 0
  BY LenProperties, EmptySeq
<1>2. /\ Tail(w) \in Seq(S)
      /\ Len(Tail(w)) = Len(w) - 1
      /\ \A i \in 1 .. Len(Tail(w)) : Tail(w)[i] = w[i + 1]
  BY HeadTailProperties
<1>3. Head(w) \in S
  BY HeadTailProperties
<1>4. Head(w) = w[1]
  OBVIOUS
<1> QED
  BY <1>1, <1>2, <1>3, <1>4

\* What a wire holds after a frame has been put on it.
LEMMA WirePut ==
    ASSUME NEW S, NEW w \in Seq(S), NEW m \in S
    PROVE  /\ Put(w, m) \in Seq(S)
           /\ \A i \in 1 .. Len(Put(w, m)) :
                 \/ i \in 1 .. Len(w) /\ Put(w, m)[i] = w[i]
                 \/ i = Len(Put(w, m)) /\ Put(w, m)[i] = m
<1>1. Len(w) \in Nat
  BY LenProperties
<1>2. CASE Len(w) < WireCap
  <2>1. Put(w, m) = Append(w, m)
    BY <1>2 DEF Put
  <2> QED
    BY <1>1, <2>1, AppendProperties
<1>3. CASE ~(Len(w) < WireCap)
  BY <1>1, <1>3 DEF Put
<1> QED
  BY <1>2, <1>3

-----------------------------------------------------------------------------
(***************************************************************************)
(* Type correctness, send errors or not.                                   *)
(***************************************************************************)
LEMMA CallTypes ==
    ASSUME TypeOK
    PROVE  /\ op.reg \in Regs
           /\ op.kind = "Set" => op.val \in Vals
           /\ op.kind = "Read" => op.reg \in Readable
           /\ op.kind \in {"none", "Read", "Set"}
           /\ op.kind = "none" => op = NoCall
           /\ AuthReg \in Readable
           /\ Readable \subseteq Regs
           /\ ResetReg \notin Readable
<1>1. op \in [kind : {"Read"}, reg : Readable, val : {NoVal}] \/
      op \in [kind : {"Set"}, reg : Regs, val : Vals] \/ op = NoCall
  BY DEF TypeOK, Calls
<1>2. Readable \subseteq Regs /\ AuthReg \in Readable /\ ResetReg \in Regs
  BY DEF Regs, Readable, Writable
<1>3. ResetReg \notin Readable
  BY RegsAssumption DEF Readable
<1>4. CASE op \in [kind : {"Read"}, reg : Readable, val : {NoVal}]
  BY <1>2, <1>3, <1>4
<1>5. CASE op \in [kind : {"Set"}, reg : Regs, val : Vals]
  BY <1>2, <1>3, <1>5
<1>6. CASE op = NoCall
  BY <1>2, <1>3, <1>6 DEF NoCall
<1> QED
  BY <1>1, <1>4, <1>5, <1>6

\* The steps a value read can lead to keep the client's variables typed.
ClientTypes ==
    /\ pc \in {"idle", "sendSet", "sendGet", "wait", "ended"}
    /\ op \in Calls \cup {NoCall}
    /\ cnt \in 0 .. SetTries
    /\ tries \in 0 .. ReadTries
    /\ authkey \in Vals
    /\ prevAuth \in Vals \cup {NoVal}
    /\ setKey \in Vals \cup {NoVal}
    /\ ret \in Vals \cup {"none", "sent", "set", "failed"}

LEMMA ReadGivesTypes ==
    ASSUME TypeOK, Locals, pc \in {"sendGet", "wait"}, NEW v \in Vals, ReadGives(v),
           cookie' = NoCookie
    PROVE  ClientTypes' /\ Locals'
<1>1. /\ op.reg \in Regs
      /\ cookie' \notin Cookies
      /\ SetTries \in Nat \ {0} /\ ReadTries \in Nat \ {0}
      /\ cnt \in 0 .. SetTries
  BY CallTypes, BoundsAssumption, ValsAssumption DEF TypeOK
<1>2. ASSUME NEW o \in Vals \cup {"set", "failed"}, Return(o), UNCHANGED authkey
      PROVE  ClientTypes' /\ Locals'
  <2>1. ClientTypes'
   <3>1. (pc \in {"idle", "sendSet", "sendGet", "wait", "ended"})'
     BY <1>2 DEF Return
   <3>2. (op \in Calls \cup {NoCall})'
     BY <1>2 DEF Return
   <3>3. (cnt \in 0 .. SetTries)'
     BY <1>1, <1>2 DEF Return
   <3>4. (tries \in 0 .. ReadTries)'
     BY <1>1, <1>2 DEF Return
   <3>5. (authkey \in Vals)'
     BY <1>2 DEF TypeOK
   <3>6. (prevAuth \in Vals \cup {NoVal})'
     BY <1>2 DEF Return
   <3>7. (setKey \in Vals \cup {NoVal})'
     BY <1>2 DEF Return
   <3>8. (ret \in Vals \cup {"none", "sent", "set", "failed"})'
     BY <1>2 DEF Return
   <3> QED BY <3>1, <3>2, <3>3, <3>4, <3>5, <3>6, <3>7, <3>8 DEF ClientTypes
  <2>2. Locals'
    BY <1>1, <1>2 DEF Locals, Return
  <2> QED
    BY <2>1, <2>2
<1>3. ASSUME Verifying,
             authkey' = (IF op.reg = AuthReg THEN prevAuth ELSE authkey),
             cnt' = cnt + 1,
             tries' = 0,
             pc' = (IF cnt + 1 < SetTries THEN "sendSet" ELSE "sendGet"),
             UNCHANGED <<op, ret, prevAuth, setKey>>
      PROVE  ClientTypes' /\ Locals'
  <2>1. /\ op.kind = "Set" /\ setKey \in Vals /\ op.reg \in Readable
        /\ op.reg = AuthReg => prevAuth \in Vals
    BY <1>3 DEF Locals, Verifying
  <2>2. cnt' \in 1 .. SetTries /\ (cnt + 1 < SetTries <=> cnt' < SetTries)
    BY <1>1, <1>3 DEF Verifying
  <2>3. \/ pc' = "sendSet" /\ cnt' < SetTries
        \/ pc' = "sendGet" /\ ~(cnt' < SetTries)
    BY <1>3, <2>2
  <2>4. authkey' \in Vals
    BY <1>3, <2>1 DEF TypeOK
  <2>5. (op \in Calls \cup {NoCall})'
    BY <1>3 DEF TypeOK
  <2>6. (cnt \in 0 .. SetTries /\ tries \in 0 .. ReadTries)'
    BY <1>1, <1>3, <2>2
  <2>7. (/\ prevAuth \in Vals \cup {NoVal}
         /\ setKey \in Vals \cup {NoVal}
         /\ ret \in Vals \cup {"none", "sent", "set", "failed"})'
    BY <1>3 DEF TypeOK
  <2>8. ClientTypes'
    BY <2>3, <2>4, <2>5, <2>6, <2>7 DEF ClientTypes
  <2>9. Locals'
    BY <1>1, <1>3, <2>1, <2>2, <2>3 DEF Locals, Verifying
  <2> QED
    BY <2>8, <2>9
<1> QED
  BY <1>2, <1>3 DEF ReadGives

\* The two kinds of request.
LEMMA RequestKinds ==
    ASSUME NEW m \in Requests
    PROVE  /\ m.key \in Vals /\ m.reg \in Regs
           /\ \/ m.kind = "GET" /\ m.reg \in Readable /\ m.cookie \in Cookies
              \/ m.kind = "SET" /\ m.val \in Vals /\ m.cookie = NoCookie
<1>1. CASE m \in [kind : {"GET"}, reg : Readable, val : {NoVal},
                  key : Vals, cookie : Cookies]
  BY <1>1 DEF Regs
<1>2. CASE m \in [kind : {"SET"}, reg : Regs, val : Vals,
                  key : Vals, cookie : {NoCookie}]
  BY <1>2
<1> QED
  BY <1>1, <1>2 DEF Requests

\* The frames the client makes are frames.
LEMMA FramesMade ==
    ASSUME TypeOK, Locals
    PROVE  /\ pc = "sendSet" => SetFrame \in Requests
           /\ \A c \in Cookies : pc = "sendGet" =>
                 [kind |-> "GET", reg |-> op.reg, val |-> NoVal,
                  key |-> authkey, cookie |-> c] \in Requests
<1>1. ASSUME pc = "sendSet"
      PROVE  SetFrame \in Requests
  BY <1>1, CallTypes DEF Locals, SetFrame, Requests
<1>2. ASSUME NEW c \in Cookies, pc = "sendGet"
      PROVE  [kind |-> "GET", reg |-> op.reg, val |-> NoVal,
              key |-> authkey, cookie |-> c] \in Requests
  BY <1>2 DEF TypeOK, Locals, Requests
<1> QED
  BY <1>1, <1>2

\* Steps that leave the client alone keep its part of the invariant.
LEMMA ClientStands ==
    ASSUME TypeOK, Locals, UNCHANGED clientVars,
           reg' \in [Readable -> Vals],
           toSwitch' \in Seq(Requests),
           toClient' \in Seq(Replies)
    PROVE  TypeOK' /\ Locals'
<1>1. Locals'
  BY DEF Locals, clientVars, Verifying
<1>2. ClientTypes'
  BY DEF ClientTypes, TypeOK, clientVars
<1>3. TypeOK'
  BY <1>2 DEF ClientTypes, TypeOK, clientVars
<1> QED
  BY <1>1, <1>3

LEMMA TypesInit == Init => TypeOK /\ Locals
<1> SUFFICES ASSUME Init PROVE TypeOK /\ Locals
  OBVIOUS
<1>1. AuthReg \in Readable
  BY DEF Readable, Writable
<1>2. authkey \in Vals
  BY <1>1 DEF Init
<1>3. TypeOK
  <2>1. cnt \in 0 .. SetTries /\ tries \in 0 .. ReadTries
    BY BoundsAssumption DEF Init
  <2>2. toSwitch \in Seq(Requests) /\ toClient \in Seq(Replies)
    BY EmptySeq DEF Init
  <2> QED
    BY <1>2, <2>1, <2>2 DEF Init, TypeOK
<1>4. Locals
  BY ValsAssumption, BoundsAssumption DEF Init, Locals
<1> QED
  BY <1>3, <1>4

\* One step of the client.
LEMMA TypesClient ==
    ASSUME TypeOK, Locals, Client
    PROVE  TypeOK' /\ Locals'
<1> USE BoundsAssumption, ValsAssumption
<1>1. ASSUME NEW r \in Readable, CallRead(r)
      PROVE  TypeOK' /\ Locals'
  <2>1. op' \in Calls
    BY <1>1 DEF CallRead, Calls
  <2>2. TypeOK'
    BY <1>1, <2>1 DEF CallRead, TypeOK
  <2>3. Locals'
    BY <1>1 DEF CallRead, Locals, Verifying
  <2> QED
    BY <2>2, <2>3
<1>2. ASSUME NEW r \in Regs, NEW v \in Vals, CallSet(r, v)
      PROVE  TypeOK' /\ Locals'
  <2>1. op' \in Calls
    BY <1>2 DEF CallSet, Calls
  <2>2. TypeOK'
    BY <1>2, <2>1 DEF CallSet, TypeOK
  <2>3. cnt = 0 /\ authkey \in Vals
    BY <1>2 DEF CallSet, Locals, TypeOK
  <2>4. Locals'
    BY <1>2, <2>3 DEF CallSet, Locals, Verifying
  <2> QED
    BY <2>2, <2>4
<1>3. CASE SendSet
  <2>1. toSwitch' \in Seq(Requests)
    BY <1>3, FramesMade, WirePut DEF SendSet, TypeOK
  <2>2. /\ op.kind = "Set" /\ op.val \in Vals
        /\ op.reg \in Readable
    BY <1>3, CallTypes DEF SendSet, Locals, Regs
  <2>3. authkey' \in Vals /\ prevAuth' \in Vals \cup {NoVal}
    BY <1>3, <2>2 DEF SendSet, TypeOK
  <2>4. TypeOK'
    BY <1>3, <2>1, <2>3 DEF SendSet, TypeOK
  <2>5. op.reg = AuthReg => prevAuth' \in Vals
    BY <1>3 DEF SendSet, TypeOK
  <2>6. Locals'
    BY <1>3, <2>2, <2>5 DEF SendSet, Locals, Verifying
  <2> QED
    BY <2>4, <2>6
<1>4. CASE SendReset
  <2>1. toSwitch' \in Seq(Requests)
    BY <1>4, FramesMade, WirePut DEF SendReset, TypeOK
  <2>2. TypeOK'
    <3>1. (cnt \in 0 .. SetTries /\ tries \in 0 .. ReadTries)'
      BY <1>4 DEF SendReset, Return
    <3> QED
      BY <1>4, <2>1, <3>1 DEF SendReset, Return, TypeOK
  <2>3. Locals'
    BY <1>4 DEF SendReset, Return, Locals
  <2> QED
    BY <2>2, <2>3
<1>5. CASE SendSetFails
  <2>1. TypeOK'
    BY <1>5 DEF SendSetFails, Exit, TypeOK
  <2>2. Locals'
    BY <1>5 DEF SendSetFails, Exit, Locals
  <2> QED
    BY <2>1, <2>2
<1>6. CASE SendGet
  <2>1. PICK c \in Cookies :
           /\ cookie' = c
           /\ toSwitch' = Put(toSwitch, [kind |-> "GET", reg |-> op.reg, val |-> NoVal,
                                         key |-> authkey, cookie |-> c])
    BY <1>6 DEF SendGet
  <2>2. toSwitch' \in Seq(Requests)
    BY <1>6, <2>1, FramesMade, WirePut DEF SendGet, TypeOK
  <2>3. TypeOK'
    BY <1>6, <2>1, <2>2 DEF SendGet, TypeOK
  <2>4. Locals'
    BY <1>6, <2>1 DEF SendGet, Locals, Verifying
  <2> QED
    BY <2>3, <2>4
<1>7. CASE SendGetFails
  <2>1. PICK garbage \in Vals : ReadGives(garbage)
    BY <1>7 DEF SendGetFails
  <2>2. pc \in {"sendGet", "wait"} /\ cookie' = NoCookie
    BY <1>7 DEF SendGetFails, Locals, TypeOK
  <2>3. ClientTypes' /\ Locals'
    BY <2>1, <2>2, ReadGivesTypes
  <2>4. TypeOK'
    BY <1>7, <2>2, <2>3 DEF SendGetFails, ClientTypes, TypeOK
  <2> QED
    BY <2>3, <2>4
<1>8. CASE ReceiveAnswer
  <2>1. Head(toClient) \in Replies /\ toClient' \in Seq(Replies)
    BY <1>8, WireTail DEF ReceiveAnswer, TypeOK
  <2>2. Head(toClient).val \in Vals
    BY <2>1 DEF Replies
  <2>3. pc \in {"sendGet", "wait"} /\ cookie' = NoCookie
    BY <1>8 DEF ReceiveAnswer
  <2>4. ClientTypes' /\ Locals'
    BY <1>8, <2>2, <2>3, ReadGivesTypes DEF ReceiveAnswer
  <2>5. TypeOK'
    BY <1>8, <2>1, <2>3, <2>4 DEF ReceiveAnswer, ClientTypes, TypeOK
  <2> QED
    BY <2>4, <2>5
<1>9. CASE ReceiveOther
  <2>1. toClient' \in Seq(Replies)
    BY <1>9, WireTail DEF ReceiveOther, TypeOK
  <2> QED
    BY <1>9, <2>1, ClientStands DEF ReceiveOther, TypeOK
<1>10. CASE ReadTimesOut
  <2>1. /\ tries < ReadTries /\ tries' = tries + 1 /\ cookie' = NoCookie
        /\ \/ tries + 1 < ReadTries /\ pc' = "sendGet" /\ message' = message
           \/ pc' = "ended" /\ message' = "Can't send"
    BY <1>10 DEF ReadTimesOut, Locals, Exit
  <2>2. tries' \in 0 .. ReadTries
    <3>1. tries \in 0 .. ReadTries /\ ReadTries \in Nat
      BY DEF TypeOK
    <3>2. tries < ReadTries /\ tries' = tries + 1
      BY <2>1
    <3> QED
      BY <3>1, <3>2
  <2>3. TypeOK'
    BY <1>10, <2>1, <2>2 DEF ReadTimesOut, TypeOK
  <2>4. Locals'
    BY <1>10, <2>1 DEF ReadTimesOut, Locals, Verifying
  <2> QED
    BY <2>3, <2>4
<1> QED
  BY <1>1, <1>2, <1>3, <1>4, <1>5, <1>6, <1>7, <1>8, <1>9, <1>10
  DEF Client, Call, InCall

\* What the switch and the wire do to the frames and the registers.
LEMMA TypesElsewhere ==
    ASSUME TypeOK, Locals, Switch \/ Wire
    PROVE  TypeOK' /\ Locals'
<1> SUFFICES /\ UNCHANGED clientVars
             /\ reg' \in [Readable -> Vals]
             /\ toSwitch' \in Seq(Requests)
             /\ toClient' \in Seq(Replies)
  BY ClientStands
<1>1. CASE SwitchIgnores \/ LoseRequest
  BY <1>1, WireTail DEF SwitchIgnores, LoseRequest, TypeOK
<1>2. CASE LoseReply
  BY <1>2, WireTail DEF LoseReply, TypeOK
<1>3. ASSUME (SwitchGet \/ SwitchSet) \/ SwitchReset
      PROVE  /\ Head(toSwitch) \in Requests
             /\ toSwitch' \in Seq(Requests)
             /\ UNCHANGED clientVars
  <2>1. toSwitch \in Seq(Requests)
    BY DEF TypeOK
  <2>2. toSwitch # <<>> /\ toSwitch' \in {toSwitch, Tail(toSwitch)}
        /\ UNCHANGED clientVars
    BY <1>3 DEF SwitchGet, SwitchSet, SwitchReset, TakeRequest
  <2> QED
    BY <2>1, <2>2, WireTail
<1>4. CASE SwitchGet
  <2>1. PICK m \in Requests : m = Head(toSwitch)
    BY <1>3, <1>4
  <2>2. [reg |-> m.reg, val |-> reg[m.reg], key |-> m.key, cookie |-> m.cookie] \in Replies
    BY <1>4, <2>1, RequestKinds DEF SwitchGet, TypeOK, Replies
  <2> QED
    BY <1>3, <1>4, <2>1, <2>2, WirePut DEF SwitchGet, TypeOK
<1>5. CASE SwitchSet
  <2>1. PICK m \in Requests : m = Head(toSwitch)
    BY <1>3, <1>5
  <2>2. m.val \in Vals
    BY <1>5, <2>1, RequestKinds DEF SwitchSet
  <2> QED
    BY <1>3, <1>5, <2>1, <2>2 DEF SwitchSet, TypeOK
<1>6. CASE SwitchReset
  BY <1>3, <1>6, ValsAssumption DEF SwitchReset, TypeOK
<1> QED
  BY <1>1, <1>2, <1>4, <1>5, <1>6 DEF Switch, Wire

LEMMA TypesStep == TypeOK /\ Locals /\ [Next]_vars => TypeOK' /\ Locals'
<1> SUFFICES ASSUME TypeOK, Locals, [Next]_vars
             PROVE  TypeOK' /\ Locals'
  OBVIOUS
<1>1. CASE Client
  BY <1>1, TypesClient
<1>2. CASE Switch \/ Wire
  BY <1>2, TypesElsewhere
<1>3. CASE UNCHANGED vars
  BY <1>3, ClientStands DEF vars, clientVars, TypeOK
<1> QED
  BY <1>1, <1>2, <1>3 DEF Next

\* The variables of the client, the wire and the switch keep their kinds in
\* every behaviour, whether or not sends fail.
THEOREM TypeCorrect == Spec => []TypeOK
<1>1. Init => TypeOK /\ Locals
  BY TypesInit
<1>2. TypeOK /\ Locals /\ [Next]_vars => (TypeOK /\ Locals)'
  BY TypesStep
<1> QED
  BY <1>1, <1>2, PTL DEF Spec

-----------------------------------------------------------------------------
(***************************************************************************)
(* The invariant of the wire.                                              *)
(***************************************************************************)
WireInv == OnlyOwnSets /\ CurrentGetIsLast /\ AnswerIsCurrent /\ FailureIsFinal

\* A frame in flight is a frame.
LEMMA InFlightTypes ==
    ASSUME TypeOK
    PROVE  /\ Len(toSwitch) \in Nat /\ Len(toClient) \in Nat
           /\ \A i \in 1 .. Len(toSwitch) : toSwitch[i] \in Requests
           /\ \A i \in 1 .. Len(toClient) : toClient[i] \in Replies
BY LenProperties, ElementOfSeq DEF TypeOK

\* The answer the client accepts tells the present state of the switch, and
\* leaves nothing in flight that could change it.
LEMMA AcceptedAnswer ==
    ASSUME TypeOK, Locals, WireInv, ReceiveAnswer
    PROVE  /\ Head(toClient).val = reg[op.reg]
           /\ authkey = reg[AuthReg]
           /\ \A i \in 1 .. Len(toSwitch) : toSwitch[i].kind # "SET"
<1>1. /\ 1 \in 1 .. Len(toClient) /\ Head(toClient) = toClient[1]
      /\ Expected(toClient[1]) /\ pc = "wait"
  <2>1. toClient \in Seq(Replies) /\ toClient # <<>> /\ pc = "wait"
        /\ Expected(Head(toClient))
    BY DEF ReceiveAnswer, TypeOK
  <2>2. Head(toClient) = toClient[1] /\ Len(toClient) \in Nat \ {0}
    BY <2>1, WireTail
  <2> QED
    BY <2>1, <2>2
<1>2. cookie \in Cookies
  BY <1>1 DEF Locals
<1>3. /\ toClient[1].val = reg[op.reg] /\ toClient[1].key = reg[AuthReg]
      /\ \A j \in 1 .. Len(toSwitch) : toSwitch[j].cookie = cookie
  BY <1>1 DEF WireInv, AnswerIsCurrent, Expected
<1>4. ASSUME NEW i \in 1 .. Len(toSwitch)
      PROVE  toSwitch[i].kind # "SET"
  <2>1. toSwitch[i] \in Requests /\ toSwitch[i].cookie \in Cookies
    BY <1>2, <1>3, <1>4, InFlightTypes
  <2> QED
    BY <2>1, RequestKinds, ValsAssumption
<1> QED
  BY <1>1, <1>3, <1>4 DEF Expected

LEMMA WireInvInit == Init => WireInv
<1> SUFFICES ASSUME Init PROVE WireInv
  OBVIOUS
<1>1. toSwitch = <<>> /\ toClient = <<>> /\ Len(toSwitch) = 0 /\ pc = "idle"
  BY DEF Init
<1> QED
  BY <1>1 DEF WireInv, OnlyOwnSets, CurrentGetIsLast, AnswerIsCurrent, FailureIsFinal

LEMMA WireInvClient ==
    ASSUME ~SendErrors, TypeOK, Locals, WireInv, Client
    PROVE  WireInv'
<1>0. SetTries \in Nat \ {0}
  BY BoundsAssumption
<1>1. ASSUME NEW r \in Readable, CallRead(r)
      PROVE  WireInv'
  BY <1>1 DEF CallRead, Locals, NoCall, WireInv, OnlyOwnSets, CurrentGetIsLast,
              AnswerIsCurrent, FailureIsFinal, Reporting
<1>2. ASSUME NEW r \in Regs, NEW v \in Vals, CallSet(r, v)
      PROVE  WireInv'
  <2>1. op.kind # "Set" /\ pc' = "sendSet" /\ UNCHANGED <<toSwitch, resetAsked>>
    BY <1>2 DEF CallSet, Locals, NoCall
  <2>2. OnlyOwnSets'
    BY <2>1 DEF WireInv, OnlyOwnSets
  <2> QED
    BY <2>1, <2>2 DEF WireInv, CurrentGetIsLast, AnswerIsCurrent, FailureIsFinal
<1>3. CASE SendSet
  <2>1. \A i \in 1 .. Len(toSwitch') :
           \/ i \in 1 .. Len(toSwitch) /\ toSwitch'[i] = toSwitch[i]
           \/ toSwitch'[i] = SetFrame
    BY <1>3, FramesMade, WirePut DEF SendSet, TypeOK
  <2>2. SetFrame.reg = op.reg /\ SetFrame.val = op.val /\ op.kind = "Set"
        /\ op.reg # ResetReg /\ cnt < SetTries
    BY <1>3 DEF SendSet, SetFrame, Locals
  <2>3. OnlyOwnSets'
    BY <1>3, <2>1, <2>2 DEF SendSet, WireInv, OnlyOwnSets
  <2>4. cnt # SetTries
    <3>1. cnt \in 0 .. SetTries /\ cnt < SetTries
      BY <2>2 DEF TypeOK
    <3> QED
      BY <1>0, <3>1
  <2> QED
    BY <1>3, <2>3, <2>4 DEF SendSet, WireInv, CurrentGetIsLast, AnswerIsCurrent,
                            FailureIsFinal, Reporting
<1>4. CASE SendReset
  <2>1. \A i \in 1 .. Len(toSwitch') :
           \/ i \in 1 .. Len(toSwitch) /\ toSwitch'[i] = toSwitch[i]
           \/ toSwitch'[i] = SetFrame
    BY <1>4, FramesMade, WirePut DEF SendReset, TypeOK
  <2>2. SetFrame.reg = ResetReg
    BY <1>4 DEF SendReset, SetFrame
  <2>3. OnlyOwnSets'
    BY <1>4, <2>1, <2>2 DEF SendReset, WireInv, OnlyOwnSets
  <2> QED
    BY <1>4, <2>3 DEF SendReset, Return, WireInv, CurrentGetIsLast, AnswerIsCurrent,
                      FailureIsFinal
<1>5. CASE SendGet
  <2>1. PICK c \in Cookies :
           /\ ~InFlight(c)
           /\ cookie' = c
           /\ toSwitch' = Put(toSwitch, [kind |-> "GET", reg |-> op.reg, val |-> NoVal,
                                         key |-> authkey, cookie |-> c])
    BY <1>5 DEF SendGet
  <2> DEFINE get == [kind |-> "GET", reg |-> op.reg, val |-> NoVal,
                     key |-> authkey, cookie |-> c]
  <2>2. \A i \in 1 .. Len(toSwitch') :
           \/ i \in 1 .. Len(toSwitch) /\ toSwitch'[i] = toSwitch[i]
           \/ i = Len(toSwitch') /\ toSwitch'[i] = get
    <3>1. toSwitch \in Seq(Requests) /\ get \in Requests
      BY <1>5, <2>1, FramesMade DEF SendGet, TypeOK
    <3> HIDE DEF get
    <3>2. toSwitch' = Put(toSwitch, get)
      BY <2>1 DEF get
    <3> QED
      BY <3>1, <3>2, WirePut
  <2>3. get.kind = "GET" /\ get.reg = op.reg /\ get.cookie = c
    OBVIOUS
  <2>4. OnlyOwnSets'
    BY <1>5, <2>2, <2>3 DEF SendGet, WireInv, OnlyOwnSets
  <2>5. CurrentGetIsLast'
    BY <1>5, <2>1, <2>2, <2>3 DEF SendGet, InFlight, CurrentGetIsLast
  <2>6. AnswerIsCurrent'
    <3>1. \A i \in 1 .. Len(toClient) : toClient[i].cookie # c
      BY <2>1 DEF InFlight
    <3> QED
      BY <1>5, <2>1, <3>1 DEF SendGet, AnswerIsCurrent
  <2>7. FailureIsFinal'
    BY <1>5, <2>2, <2>3 DEF SendGet, WireInv, FailureIsFinal, Reporting
  <2> QED
    BY <2>4, <2>5, <2>6, <2>7 DEF WireInv
<1>6. CASE ReceiveAnswer
  <2> DEFINE v == Head(toClient).val
  <2>1. /\ v = reg[op.reg]
        /\ \A i \in 1 .. Len(toSwitch) : toSwitch[i].kind # "SET"
        /\ UNCHANGED <<toSwitch, reg>> /\ pc' # "wait"
    BY <1>6, AcceptedAnswer DEF ReceiveAnswer, ReadGives, Return
  <2>2. OnlyOwnSets' /\ CurrentGetIsLast' /\ AnswerIsCurrent'
    BY <2>1 DEF OnlyOwnSets, CurrentGetIsLast, AnswerIsCurrent
  <2>3. FailureIsFinal'
    <3>1. CASE pc' = "idle"
      BY <3>1 DEF FailureIsFinal
    <3>2. CASE /\ Masked(op.reg, v) # Masked(op.reg, op.val)
               /\ UNCHANGED op
      <4>1. op.reg \in Writable /\ reg[op.reg] # op.val
        BY <2>1, <3>2 DEF Masked
      <4> QED
        BY <2>1, <3>2, <4>1 DEF FailureIsFinal
    <3> QED
      BY <1>6, <3>1, <3>2 DEF ReceiveAnswer, ReadGives, Return
  <2> QED
    BY <2>2, <2>3 DEF WireInv
<1>7. CASE ReceiveOther
  <2>1. \A i \in 1 .. Len(toClient') :
           i + 1 \in 1 .. Len(toClient) /\ toClient'[i] = toClient[i + 1]
    BY <1>7, WireTail DEF ReceiveOther, TypeOK
  <2>2. AnswerIsCurrent'
    BY <1>7, <2>1 DEF ReceiveOther, clientVars, WireInv, AnswerIsCurrent
  <2> QED
    BY <1>7, <2>2 DEF ReceiveOther, clientVars, WireInv, OnlyOwnSets, CurrentGetIsLast,
                      FailureIsFinal, Reporting
<1>8. CASE ReadTimesOut
  BY <1>8 DEF ReadTimesOut, Exit, WireInv, OnlyOwnSets, CurrentGetIsLast,
              AnswerIsCurrent, FailureIsFinal, Reporting
<1> QED
  BY <1>1, <1>2, <1>3, <1>4, <1>5, <1>6, <1>7, <1>8
  DEF Client, Call, InCall, SendSetFails, SendGetFails

\* What is taken from the wire to the switch is at most its first frame.
LEMMA RequestsShrink ==
    ASSUME TypeOK, toSwitch # <<>>, TakeRequest
    PROVE  /\ 1 \in 1 .. Len(toSwitch) /\ Head(toSwitch) = toSwitch[1]
           /\ Head(toSwitch) \in Requests
           /\ \E k \in {0, 1} :
                 /\ Len(toSwitch') = Len(toSwitch) - k
                 /\ \A i \in 1 .. Len(toSwitch') :
                       i + k \in 1 .. Len(toSwitch) /\ toSwitch'[i] = toSwitch[i + k]
<1>1. /\ toSwitch \in Seq(Requests) /\ Len(toSwitch) \in Nat \ {0}
      /\ Head(toSwitch) \in Requests /\ Head(toSwitch) = toSwitch[1]
  BY WireTail DEF TypeOK
<1>2. CASE toSwitch' = toSwitch
  BY <1>1, <1>2
<1>3. CASE toSwitch' = Tail(toSwitch)
  BY <1>1, <1>3, WireTail
<1> QED
  BY <1>1, <1>2, <1>3 DEF TakeRequest

\* Taking requests from the wire, with no change of registers or answers,
\* keeps the invariant.
LEMMA WireInvTake ==
    ASSUME TypeOK, WireInv, toSwitch # <<>>, TakeRequest,
           UNCHANGED <<clientVars, reg, toClient>>
    PROVE  WireInv'
<1>1. PICK k \in {0, 1} :
         /\ Len(toSwitch') = Len(toSwitch) - k
         /\ \A i \in 1 .. Len(toSwitch') :
               i + k \in 1 .. Len(toSwitch) /\ toSwitch'[i] = toSwitch[i + k]
  BY RequestsShrink
<1>2. Len(toSwitch) \in Nat
  BY InFlightTypes
<1>3. OnlyOwnSets'
  BY <1>1 DEF WireInv, OnlyOwnSets, clientVars
<1>4. CurrentGetIsLast'
  BY <1>1, <1>2 DEF WireInv, CurrentGetIsLast, clientVars
<1>5. AnswerIsCurrent'
  BY <1>1 DEF WireInv, AnswerIsCurrent, clientVars
<1>6. FailureIsFinal'
  BY <1>1 DEF WireInv, FailureIsFinal, Reporting, clientVars
<1> QED
  BY <1>3, <1>4, <1>5, <1>6 DEF WireInv

LEMMA WireInvElsewhere ==
    ASSUME TypeOK, Locals, WireInv, Switch \/ Wire
    PROVE  WireInv'
<1>1. CASE SwitchIgnores \/ LoseRequest
  BY <1>1, WireInvTake DEF SwitchIgnores, LoseRequest, TakeRequest
<1>2. CASE LoseReply
  <2>1. \A i \in 1 .. Len(toClient') :
           i + 1 \in 1 .. Len(toClient) /\ toClient'[i] = toClient[i + 1]
    BY <1>2, WireTail DEF LoseReply, TypeOK
  <2>2. AnswerIsCurrent'
    BY <1>2, <2>1 DEF LoseReply, clientVars, WireInv, AnswerIsCurrent
  <2> QED
    BY <1>2, <2>2 DEF LoseReply, clientVars, WireInv, OnlyOwnSets, CurrentGetIsLast,
                      FailureIsFinal, Reporting
<1>3. ASSUME (SwitchGet \/ SwitchSet) \/ SwitchReset
      PROVE  /\ toSwitch # <<>> /\ TakeRequest /\ UNCHANGED clientVars
             /\ Head(toSwitch) \in Requests /\ Head(toSwitch) = toSwitch[1]
             /\ 1 \in 1 .. Len(toSwitch)
             /\ Authentic(Head(toSwitch))
  <2>1. /\ toSwitch # <<>> /\ TakeRequest /\ UNCHANGED clientVars
        /\ Authentic(Head(toSwitch))
    BY <1>3 DEF SwitchGet, SwitchSet, SwitchReset
  <2> QED
    BY <2>1, RequestsShrink
<1>4. ASSUME SwitchGet \/ (SwitchSet \/ SwitchReset)
      PROVE  OnlyOwnSets' /\ CurrentGetIsLast'
  <2>1. PICK k \in {0, 1} :
           /\ Len(toSwitch') = Len(toSwitch) - k
           /\ \A i \in 1 .. Len(toSwitch') :
                 i + k \in 1 .. Len(toSwitch) /\ toSwitch'[i] = toSwitch[i + k]
    BY <1>3, <1>4, RequestsShrink
  <2>2. Len(toSwitch) \in Nat
    BY InFlightTypes
  <2>3. UNCHANGED clientVars
    BY <1>3, <1>4
  <2>4. OnlyOwnSets'
    BY <2>1, <2>3 DEF WireInv, OnlyOwnSets, clientVars
  <2>5. CurrentGetIsLast'
    BY <2>1, <2>2, <2>3 DEF WireInv, CurrentGetIsLast, clientVars
  <2> QED
    BY <2>4, <2>5
<1>5. CASE SwitchGet
  <2>1. PICK m \in Requests :
           /\ m = Head(toSwitch) /\ m = toSwitch[1] /\ m.kind = "GET"
           /\ m.key = reg[AuthReg]
    BY <1>3, <1>5 DEF SwitchGet, Authentic
  <2> DEFINE answer == [reg |-> m.reg, val |-> reg[m.reg], key |-> m.key,
                        cookie |-> m.cookie]
  <2>2. /\ UNCHANGED <<reg, clientVars>>
        /\ toClient' = Put(toClient, answer)
        /\ answer \in Replies
    BY <1>5, <2>1, RequestKinds DEF SwitchGet, TypeOK, Replies
  <2>3. \A i \in 1 .. Len(toClient') :
           \/ i \in 1 .. Len(toClient) /\ toClient'[i] = toClient[i]
           \/ toClient'[i] = answer
    BY <2>2, WirePut DEF TypeOK
  <2>4. \A j \in 1 .. Len(toSwitch') : \E i \in 1 .. Len(toSwitch) : toSwitch'[j] = toSwitch[i]
    <3>1. PICK k \in {0, 1} :
             \A i \in 1 .. Len(toSwitch') :
                 i + k \in 1 .. Len(toSwitch) /\ toSwitch'[i] = toSwitch[i + k]
      BY <1>3, <1>5, RequestsShrink
    <3> QED
      BY <3>1
  <2>5. ASSUME pc = "wait", m.cookie = cookie
        PROVE  /\ m.reg = op.reg
               /\ \A i \in 1 .. Len(toSwitch) : toSwitch[i].cookie = cookie
    <3>1. Len(toSwitch) = 1 /\ m.reg = op.reg
      BY <1>3, <1>5, <2>1, <2>5 DEF WireInv, CurrentGetIsLast
    <3>2. \A i \in 1 .. 1 : i = 1
      OBVIOUS
    <3>3. toSwitch[1].cookie = cookie
      BY <2>1, <2>5
    <3>4. ASSUME NEW i \in 1 .. Len(toSwitch) PROVE toSwitch[i].cookie = cookie
      <4>1. i = 1
        BY <3>1, <3>2
      <4> QED
        BY <3>3, <4>1
    <3> QED
      BY <3>1, <3>4
  <2>6. AnswerIsCurrent'
    <3> SUFFICES ASSUME pc = "wait",
                        NEW i \in 1 .. Len(toClient'), toClient'[i].cookie = cookie
                 PROVE  /\ toClient'[i].reg = op.reg
                        /\ toClient'[i].val = reg[op.reg]
                        /\ toClient'[i].key = reg[AuthReg]
                        /\ \A j \in 1 .. Len(toSwitch') : toSwitch'[j].cookie = cookie
      BY <2>2 DEF AnswerIsCurrent, clientVars
    <3>1. CASE i \in 1 .. Len(toClient) /\ toClient'[i] = toClient[i]
      BY <2>4, <3>1 DEF WireInv, AnswerIsCurrent
    <3>2. CASE toClient'[i] = answer
      <4>1. m.cookie = cookie
        BY <3>2
      <4>2. m.reg = op.reg /\ \A j \in 1 .. Len(toSwitch') : toSwitch'[j].cookie = cookie
        BY <2>4, <2>5, <4>1
      <4> QED
        BY <2>1, <3>2, <4>2
    <3> QED
      BY <2>3, <3>1, <3>2
  <2>7. FailureIsFinal'
    BY <2>2, <2>4 DEF WireInv, FailureIsFinal, Reporting, clientVars
  <2> QED
    BY <1>4, <1>5, <2>6, <2>7 DEF WireInv
<1>6. CASE SwitchSet \/ SwitchReset
  <2>1. toSwitch[1].kind = "SET" /\ toSwitch[1] \in Requests /\ 1 \in 1 .. Len(toSwitch)
        /\ UNCHANGED <<toClient, clientVars>>
    BY <1>3, <1>6 DEF SwitchSet, SwitchReset
  <2>2. toSwitch[1].cookie = NoCookie
    BY <2>1, RequestKinds
  <2>3. AnswerIsCurrent'
    <3>1. ASSUME pc = "wait", NEW i \in 1 .. Len(toClient), toClient[i].cookie = cookie
          PROVE  FALSE
      <4>1. toSwitch[1].cookie = cookie /\ cookie \in Cookies
        BY <2>1, <3>1 DEF WireInv, AnswerIsCurrent, Locals
      <4> QED
        BY <2>2, <4>1, ValsAssumption
    <3> QED
      BY <2>1, <3>1 DEF AnswerIsCurrent, clientVars
  <2>4. FailureIsFinal'
    BY <2>1 DEF WireInv, FailureIsFinal, Reporting, clientVars
  <2> QED
    BY <1>4, <1>6, <2>3, <2>4 DEF WireInv
<1> QED
  BY <1>1, <1>2, <1>5, <1>6 DEF Switch, Wire

LEMMA WireInvStep ==
    ASSUME ~SendErrors, TypeOK, Locals, WireInv, [Next]_vars
    PROVE  WireInv'
<1>1. CASE Client
  BY <1>1, WireInvClient
<1>2. CASE Switch \/ Wire
  BY <1>2, WireInvElsewhere
<1>3. CASE UNCHANGED vars
  BY <1>3 DEF vars, WireInv, OnlyOwnSets, CurrentGetIsLast, AnswerIsCurrent,
              FailureIsFinal, Reporting
<1> QED
  BY <1>1, <1>2, <1>3 DEF Next

-----------------------------------------------------------------------------
(***************************************************************************)
(* The authentication key.                                                 *)
(***************************************************************************)
LEMMA KeyChangeInit == Init => KeyChange
BY DEF Init, KeyChange, Rekeying, NoCall

\* An answer to the read-back of register 0x209 is given under the new key,
\* so it holds the new key: the round never fails, and the revert of authkey
\* in rtl83xx_setreg32 is never taken.
LEMMA RekeyingNeverReverts ==
    ASSUME TypeOK, Locals, WireInv, KeyChange, ReceiveAnswer, Rekeying
    PROVE  Masked(op.reg, Head(toClient).val) = Masked(op.reg, op.val)
<1>1. pc = "wait"
  BY DEF ReceiveAnswer
<1>2. Head(toClient).val = reg[AuthReg] /\ authkey = reg[AuthReg]
  BY AcceptedAnswer DEF Rekeying
<1>3. authkey = op.val
  BY <1>1 DEF KeyChange
<1> QED
  BY <1>2, <1>3

LEMMA KeyChangeStep ==
    ASSUME ~SendErrors, TypeOK, Locals, WireInv, KeyChange, [Next]_vars
    PROVE  KeyChange'
<1>0. SetTries \in Nat \ {0}
  BY BoundsAssumption
<1>1. ASSUME NEW r \in Readable, CallRead(r)
      PROVE  KeyChange'
  BY <1>1 DEF CallRead, Locals, NoCall, KeyChange, Rekeying
<1>2. ASSUME NEW r \in Regs, NEW v \in Vals, CallSet(r, v)
      PROVE  KeyChange'
  BY <1>2 DEF CallSet, Locals, NoCall, KeyChange, Rekeying
<1>3. CASE SendSet
  BY <1>3 DEF SendSet, Locals, KeyChange, Rekeying
<1>4. CASE SendReset
  BY <1>4 DEF SendReset, Return, NoCall, KeyChange, Rekeying
<1>5. CASE SendGet
  BY <1>5 DEF SendGet, KeyChange, Rekeying
<1>6. CASE ReceiveAnswer
  <2>1. authkey = reg[AuthReg] /\ UNCHANGED reg
    BY <1>6, AcceptedAnswer DEF ReceiveAnswer
  <2>2. CASE op' = NoCall /\ UNCHANGED authkey
    BY <2>1, <2>2 DEF KeyChange, Rekeying, NoCall
  <2>3. CASE Verifying /\ UNCHANGED op
             /\ Masked(op.reg, Head(toClient).val) # Masked(op.reg, op.val)
             /\ authkey' = (IF op.reg = AuthReg THEN prevAuth ELSE authkey)
    <3>1. ~Rekeying
      BY <1>6, <2>3, RekeyingNeverReverts
    <3> QED
      BY <2>1, <2>3, <3>1 DEF KeyChange, Rekeying, Verifying
  <2> QED
    BY <1>6, <2>2, <2>3 DEF ReceiveAnswer, ReadGives, Return
<1>7. CASE ReceiveOther \/ ReadTimesOut
  BY <1>7 DEF ReceiveOther, ReadTimesOut, Exit, clientVars, KeyChange, Rekeying
<1>8. CASE (SwitchIgnores \/ SwitchGet) \/ (Wire \/ UNCHANGED vars)
  BY <1>8 DEF SwitchIgnores, SwitchGet, Wire, LoseRequest, LoseReply, vars, clientVars,
              KeyChange, Rekeying
<1>9. ASSUME SwitchSet \/ SwitchReset
      PROVE  /\ toSwitch[1] = Head(toSwitch) /\ 1 \in 1 .. Len(toSwitch)
             /\ toSwitch[1].kind = "SET" /\ UNCHANGED clientVars
  BY <1>9, RequestsShrink DEF SwitchSet, SwitchReset
<1>10. CASE SwitchSet
  <2>1. op.kind = "Set" /\ Head(toSwitch).reg = op.reg
    BY <1>9, <1>10 DEF SwitchSet, WireInv, OnlyOwnSets
  <2>2. ~Rekeying => reg'[AuthReg] = reg[AuthReg]
    <3>1. AuthReg \in Readable /\ reg \in [Readable -> Vals]
      BY CallTypes DEF TypeOK
    <3> QED
      BY <1>10, <2>1, <3>1 DEF SwitchSet, Rekeying
  <2> QED
    BY <1>9, <1>10, <2>2 DEF clientVars, KeyChange, Rekeying
<1>11. CASE SwitchReset
  <2>1. resetAsked
    BY <1>9, <1>11 DEF SwitchReset, WireInv, OnlyOwnSets
  <2> QED
    BY <1>9, <1>11, <2>1 DEF clientVars, KeyChange, Rekeying
<1> QED
  BY <1>1, <1>2, <1>3, <1>4, <1>5, <1>6, <1>7, <1>8, <1>10, <1>11
  DEF Next, Client, Call, InCall, SendSetFails, SendGetFails, Switch

-----------------------------------------------------------------------------
(***************************************************************************)
(* The safety theorems.                                                    *)
(***************************************************************************)
THEOREM InductiveInvariant == ASSUME ~SendErrors PROVE Spec => []IInv
<1>1. Init => IInv
  BY TypesInit, WireInvInit, KeyChangeInit DEF IInv, WireInv
<1>2. IInv /\ [Next]_vars => IInv'
  <2> SUFFICES ASSUME IInv, [Next]_vars
               PROVE  IInv'
    OBVIOUS
  <2>1. TypeOK /\ Locals /\ WireInv /\ KeyChange
    BY DEF IInv, WireInv
  <2>2. TypeOK' /\ Locals'
    BY <2>1, TypesStep
  <2>3. WireInv'
    BY <2>1, WireInvStep
  <2>4. KeyChange'
    BY <2>1, KeyChangeStep
  <2> QED
    BY <2>2, <2>3, <2>4 DEF IInv, WireInv
<1> QED
  BY <1>1, <1>2, PTL DEF Spec

\* When a call of rtl83xx_setreg32 or rtl83xx_readreg32 has returned, none of
\* its SETs can still reach the switch.
THEOREM NoLateWriteHolds == ASSUME ~SendErrors PROVE Spec => []NoLateWrite
<1>1. IInv => NoLateWrite
  BY DEF IInv, Locals, NoCall, OnlyOwnSets, NoLateWrite
<1> QED
  BY <1>1, InductiveInvariant, PTL

\* Between calls the client stamps its frames with the switch's own key.
THEOREM KeyAgreementHolds == ASSUME ~SendErrors PROVE Spec => []KeyAgreement
<1>1. IInv => KeyAgreement
  BY DEF IInv, Locals, NoCall, KeyChange, Rekeying, KeyAgreement
<1> QED
  BY <1>1, InductiveInvariant, PTL

-----------------------------------------------------------------------------
(***************************************************************************)
(* RrcpIo implements RegisterService.                                      *)
(***************************************************************************)
LEMMA ServiceInit == Init => Service!SInit
BY DEF Init, Service!SInit, Service!NoCall, NoCall, Phase

\* A step that moves no variable of the service is a stutter of it.
LEMMA ServiceStutter ==
    ASSUME UNCHANGED <<reg, op, ret, resetAsked>>, Phase' = Phase
    PROVE  UNCHANGED Service!avars
BY DEF Service!avars

LEMMA PhaseIs ==
    /\ pc = "idle" <=> Phase = "idle"
    /\ pc = "ended" <=> Phase = "ended"
    /\ (pc # "idle" /\ pc # "ended") <=> Phase = "busy"
BY DEF Phase

LEMMA PhaseIsNext ==
    /\ pc' = "idle" <=> Phase' = "idle"
    /\ pc' = "ended" <=> Phase' = "ended"
    /\ (pc' # "idle" /\ pc' # "ended") <=> Phase' = "busy"
BY DEF Phase

LEMMA ServiceClient ==
    ASSUME ~SendErrors, IInv, Client
    PROVE  [Service!SNext]_(Service!avars)
<1> USE PhaseIs, PhaseIsNext
<1>0. TypeOK /\ Locals /\ WireInv
  BY DEF IInv, WireInv
<1>1. ASSUME NEW r \in Readable, CallRead(r)
      PROVE  Service!SCall
  <2>1. op' \in Service!Calls
    BY <1>1 DEF CallRead, Service!Calls
  <2> QED
    BY <1>1, <2>1 DEF CallRead, Service!SCall
<1>2. ASSUME NEW r \in Regs, NEW v \in Vals, CallSet(r, v)
      PROVE  Service!SCall
  <2>1. op' \in Service!Calls
    BY <1>2 DEF CallSet, Service!Calls, Regs
  <2> QED
    BY <1>2, <2>1 DEF CallSet, Service!SCall
<1>3. CASE SendSet \/ SendGet
  <2>1. UNCHANGED <<reg, op, ret, resetAsked>> /\ Phase' = Phase
    BY <1>3 DEF SendSet, SendGet
  <2> QED
    BY <2>1, ServiceStutter
<1>4. CASE SendReset
  <2>1. op.kind = "Set"
    BY <1>0, <1>4 DEF SendReset, Locals
  <2>2. Service!SAskReset
    BY <1>4, <2>1 DEF SendReset, Return, NoCall, Service!SAskReset, Service!NoCall
  <2> QED
    BY <2>2 DEF Service!SNext
<1>5. CASE ReceiveAnswer
  <2> DEFINE v == Head(toClient).val
  <2>1. /\ v = reg[op.reg] /\ pc = "wait" /\ op.reg \in Readable
        /\ UNCHANGED <<reg, resetAsked>>
    BY <1>0, <1>5, AcceptedAnswer DEF ReceiveAnswer, Locals
  <2>2. ASSUME NEW o, Return(o)
        PROVE  Service!SReturn(o)
    BY <2>1, <2>2 DEF Return, Service!SReturn, NoCall, Service!NoCall
  <2>3. CASE op.kind = "Read" /\ Return(v)
    <3>1. Service!SReturnRead
      BY <2>1, <2>2, <2>3 DEF Service!SReturnRead
    <3> QED
      BY <3>1 DEF Service!SNext
  <2>4. CASE Verifying /\ Masked(op.reg, v) = Masked(op.reg, op.val) /\ Return("set")
    <3>1. op.kind = "Set" /\ (op.reg \in Writable => reg[op.reg] = op.val)
      BY <2>1, <2>4 DEF Verifying, Masked
    <3>2. Service!SReturnSet
      BY <2>2, <2>4, <3>1 DEF Service!SReturnSet
    <3> QED
      BY <3>2 DEF Service!SNext
  <2>5. CASE Reporting /\ Return("failed")
    <3>1. op.kind = "Set" /\ op.reg \in Writable /\ reg[op.reg] # op.val
      BY <1>0, <2>1, <2>5 DEF WireInv, FailureIsFinal, Reporting
    <3>2. Service!SReturnFailed
      BY <2>2, <2>5, <3>1 DEF Service!SReturnFailed
    <3> QED
      BY <3>2 DEF Service!SNext
  <2>6. CASE UNCHANGED <<op, ret>> /\ pc' \in {"sendSet", "sendGet"}
    BY <2>1, <2>6, ServiceStutter
  <2> QED
    BY <1>5, <2>3, <2>4, <2>5, <2>6 DEF ReceiveAnswer, ReadGives
<1>6. CASE ReceiveOther
  <2>1. UNCHANGED <<reg, op, ret, resetAsked>> /\ Phase' = Phase
    BY <1>6 DEF ReceiveOther, clientVars
  <2> QED
    BY <2>1, ServiceStutter
<1>7. CASE ReadTimesOut
  <2>1. UNCHANGED <<reg, op, ret, resetAsked>> /\ pc = "wait"
    BY <1>7 DEF ReadTimesOut
  <2>2. CASE pc' = "sendGet"
    BY <2>1, <2>2, ServiceStutter
  <2>3. CASE pc' = "ended"
    BY <2>1, <2>3 DEF Service!SEnd, Service!SNext
  <2> QED
    BY <1>7, <2>2, <2>3 DEF ReadTimesOut, Exit
<1> QED
  BY <1>1, <1>2, <1>3, <1>4, <1>5, <1>6, <1>7
  DEF Client, Call, InCall, SendSetFails, SendGetFails, Service!SNext

LEMMA ServiceElsewhere ==
    ASSUME IInv, (Switch \/ Wire) \/ UNCHANGED vars
    PROVE  [Service!SNext]_(Service!avars)
<1> USE PhaseIs, PhaseIsNext
<1>0. TypeOK /\ Locals /\ WireInv
  BY DEF IInv, WireInv
<1>1. ASSUME UNCHANGED <<clientVars, reg>>
      PROVE  [Service!SNext]_(Service!avars)
  <2>1. UNCHANGED <<reg, op, ret, resetAsked>> /\ Phase' = Phase
    BY <1>1 DEF clientVars, Phase
  <2> QED
    BY <2>1, ServiceStutter
<1>2. CASE (SwitchIgnores \/ SwitchGet) \/ (Wire \/ UNCHANGED vars)
  BY <1>1, <1>2 DEF SwitchIgnores, SwitchGet, Wire, LoseRequest, LoseReply, vars, clientVars
<1>3. ASSUME SwitchSet \/ SwitchReset
      PROVE  /\ toSwitch[1] = Head(toSwitch) /\ 1 \in 1 .. Len(toSwitch)
             /\ toSwitch[1].kind = "SET" /\ UNCHANGED clientVars
  BY <1>0, <1>3, RequestsShrink DEF SwitchSet, SwitchReset
<1>4. CASE SwitchSet
  <2>1. /\ op.kind = "Set" /\ Head(toSwitch).reg = op.reg
        /\ Head(toSwitch).val = op.val
    BY <1>0, <1>3, <1>4 DEF SwitchSet, WireInv, OnlyOwnSets
  <2>2. CASE op.reg \in Writable
    <3>1. pc # "idle"
      BY <1>0, <2>1 DEF Locals, NoCall
    <3>2. reg' = [reg EXCEPT ![op.reg] = op.val]
      BY <1>4, <2>1, <2>2 DEF SwitchSet
    <3>3. UNCHANGED <<op, ret, resetAsked>> /\ Phase' = Phase
      BY <1>3, <1>4 DEF clientVars, Phase
    <3>4. Service!SWrite
      BY <2>1, <2>2, <3>1, <3>2, <3>3 DEF Service!SWrite
    <3> QED
      BY <3>4 DEF Service!SNext
  <2>3. CASE op.reg \notin Writable
    BY <1>1, <1>3, <1>4, <2>1, <2>3 DEF SwitchSet
  <2> QED
    BY <2>2, <2>3
<1>5. CASE SwitchReset
  <2>1. resetAsked
    BY <1>0, <1>3, <1>5 DEF SwitchReset, WireInv, OnlyOwnSets
  <2>2. UNCHANGED <<op, ret, resetAsked>> /\ Phase' = Phase
    BY <1>3, <1>5 DEF clientVars, Phase
  <2>3. CASE reg' = reg
    BY <1>1, <1>3, <1>5, <2>3
  <2>4. CASE reg' = BootRegs
    BY <2>1, <2>2, <2>4 DEF Service!SReset, Service!SNext
  <2> QED
    BY <1>5, <2>3, <2>4 DEF SwitchReset
<1> QED
  BY <1>2, <1>4, <1>5 DEF Switch

\* rrcp_io.c gives the tools an atomic register service: reads return what the
\* switch holds, writes reported done are done and writes reported failed are
\* not, over a wire that loses, delays and repeats frames.
THEOREM Refinement == ASSUME ~SendErrors PROVE Spec => ServiceSpec
<1>1. Init => Service!SInit
  BY ServiceInit
<1>2. IInv /\ [Next]_vars => [Service!SNext]_(Service!avars)
  BY ServiceClient, ServiceElsewhere DEF Next
<1> QED
  BY <1>1, <1>2, InductiveInvariant, PTL DEF Spec, ServiceSpec, Service!SSpec
=============================================================================
