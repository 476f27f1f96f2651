-------------------------- MODULE StandaloneProofs ---------------------------
(***************************************************************************)
(* Theorems about the standalone application, for every value of the       *)
(* constants.                                                              *)
(***************************************************************************)
EXTENDS Standalone, TLAPS

LEMMA RankValues ==
  /\ Rank["low_head"] = 1 /\ Rank["low_tail"] = 2
  /\ Rank["high_head"] = 3 /\ Rank["high_tail"] = 4
  BY DEF Rank, Rsts

LEMMA TypeInit == Init => TypeOK
  <1> SUFFICES ASSUME Init PROVE TypeOK
    OBVIOUS
  <1>1. stamp \in [Rsts -> Stamps] /\ \A s \in Rsts : ~Timed(s)
    BY DEF Init, Stamps, Timed
  <1>2. <<>> \in Seq(Rsts \cup {"other", "stranger"})
    OBVIOUS
  <1> QED
    BY <1>1, <1>2 DEF Init, TypeOK, Rsts

-----------------------------------------------------------------------------
(***************************************************************************)
(* Types.                                                                  *)
(***************************************************************************)

\* The four steps that send a SYN.
LEMMA SendSynTyped ==
  ASSUME TypeOK, NEW rst \in Rsts, NEW next \in (Rsts \cup {"join"}),
         NEW rest \in SUBSET Nat, SendSyn(rst, next, rest)
  PROVE  TypeOK'
  <1>1. flight' \in SUBSET [rst: Rsts, age: 0..MaxDelay]
    BY StandaloneAssumption DEF TypeOK, SendSyn
  <1>2. mtimer' \in Nat /\ mpc' \in Rsts \cup {"join"} /\ mpc \in Rsts
    BY DEF SendSyn
  <1> QED
    BY <1>1, <1>2 DEF TypeOK, SendSyn, threadVars, Timed, Rsts

\* The segment a RST's timestamp is for goes where the flags say.
LEMMA ReceiveRstTyped ==
  ASSUME TypeOK, ReceiveRst
  PROVE  TypeOK'
  <1> USE DEF ReceiveRst, ReceiveRstThen, Taken
  <1>1. /\ rawbuf' \in Seq(Rsts \cup {"other", "stranger"})
        /\ Head(rawbuf) \in Rsts \cup {"stranger"}
    BY DEF TypeOK, IsRst
  <1>2. Slot \in Rsts
    BY DEF Slot, Rsts
  <1>3. [at |-> now, rst |-> Head(rawbuf)] \in Stamps
    BY <1>1 DEF TypeOK, Stamps
  <1>4. stamp' \in [Rsts -> Stamps]
    BY <1>2, <1>3 DEF TypeOK
  <1>5. \A s \in Rsts : Timed(s)' <=> Timed(s) \/ s = Slot
    BY <1>1, <1>2 DEF TypeOK, Timed, Rsts
  <1>6. CASE Slot = "high_tail"
    BY <1>1, <1>4, <1>5, <1>6 DEF TypeOK, Slot, mainVars, Rsts
  <1>7. CASE Slot # "high_tail"
    BY <1>1, <1>4, <1>5, <1>7 DEF TypeOK, Slot, mainVars, Rsts
  <1> QED
    BY <1>6, <1>7

LEMMA TypeStep == TypeOK /\ [Next]_vars => TypeOK'
  <1> SUFFICES ASSUME TypeOK, [Next]_vars PROVE TypeOK'
    OBVIOUS
  <1> USE DEF pathVars, mainVars, threadVars
  <1>1. CASE StartThread
    BY <1>1 DEF StartThread, TypeOK, Timed, Rsts
  <1>2. CASE SendLowHead \/ SendLowTail \/ SendHighHead \/ SendHighTail
    <2>1. 0..MaxTrain \in SUBSET Nat /\ {InterTime} \in SUBSET Nat /\ {0} \in SUBSET Nat
      BY StandaloneAssumption
    <2> QED
      BY <1>2, <2>1, SendSynTyped
      DEF SendLowHead, SendLowTail, SendHighHead, SendHighTail, Rsts
  <1>3. CASE Join
    BY <1>3 DEF Join, TypeOK, Timed
  <1>4. CASE Begin
    BY <1>4 DEF Begin, TypeOK, Timed
  <1>5. CASE Test
    BY <1>5 DEF Test, TypeOK, Timed
  <1>6. CASE ReceiveOther
    BY <1>6 DEF ReceiveOther, ReceiveOtherAt, Taken, TypeOK, Timed
  <1>7. CASE ReceiveRst
    BY <1>7, ReceiveRstTyped
  <1>8. CASE Conclude
    BY <1>8 DEF Conclude, ConcludeIf, TypeOK, Timed, Verdicts
  <1>9. CASE Deliver
    <2>1. PICK p \in flight : Arrive(p) \/ Lose(p)
      BY <1>9 DEF Deliver
    <2>2. p.rst \in Rsts
      BY <2>1 DEF TypeOK
    <2>3. Append(rawbuf, p.rst) \in Seq(Rsts \cup {"other", "stranger"})
      BY <2>2 DEF TypeOK
    <2>4. /\ rawbuf' \in Seq(Rsts \cup {"other", "stranger"})
          /\ flight' \in SUBSET [rst: Rsts, age: 0..MaxDelay]
          /\ lost' \in BOOLEAN
      BY <2>1, <2>3 DEF Arrive, Lose, TypeOK
    <2> QED
      BY <1>9, <2>4 DEF Deliver, TypeOK, Timed
  <1>10. CASE Chat
    BY <1>10 DEF Chat, Chatter, TypeOK, Timed
  <1>11. CASE Tick
    <2>1. \A p \in flight : [p EXCEPT !.age = @ + 1] \in [rst: Rsts, age: 0..MaxDelay]
      <3>1. TAKE p \in flight
      <3>2. p \in [rst: Rsts, age: 0..MaxDelay] /\ p.age < MaxDelay
        BY <1>11, <3>1 DEF Tick, TypeOK
      <3>3. p.age + 1 \in 0..MaxDelay
        BY <3>2, StandaloneAssumption
      <3> QED
        BY <3>2, <3>3
    <2>2. now' \in Nat /\ mtimer' \in Nat
      BY <1>11 DEF Tick, TypeOK
    <2> QED
      BY <1>11, <2>1, <2>2 DEF Tick, TypeOK, Timed
  <1>12. CASE MainFails \/ ThreadNotCreated
    BY <1>12 DEF MainFails, ThreadNotCreated, TypeOK, Timed, Rsts
  <1>13. CASE ReceiveFails
    BY <1>13 DEF ReceiveFails, TypeOK, Timed
  <1>14. CASE UNCHANGED vars
    BY <1>14 DEF vars, TypeOK, Timed
  <1> QED
    BY <1>1, <1>2, <1>3, <1>4, <1>5, <1>6, <1>7, <1>8, <1>9, <1>10, <1>11,
       <1>12, <1>13, <1>14
    DEF Next, Main, Thread, Finished

\* Every variable keeps its type, and the two flags of the receive thread tell
\* exactly which of its four timestamps are initialised: for every path, other
\* traffic, timing and failure.
THEOREM StandaloneTypeCorrect == Spec => []TypeOK
  <1> QED
    BY TypeInit, TypeStep, PTL DEF Spec

-----------------------------------------------------------------------------
(***************************************************************************)
(* How the loop is left, and the refinement.                               *)
(***************************************************************************)

LEMMA LoopExitInit == Init => LoopExit
  <1> SUFFICES ASSUME Init PROVE LoopExit
    OBVIOUS
  <1>1. ~Timed("high_tail")
    BY DEF Init, Timed, Rsts
  <1> QED
    BY <1>1
    DEF Init, LoopExit, Verdicts, Detected, Undetected

\* A step that leaves the thread alone, unless it ends the process.
LEMMA ThreadKept ==
  ASSUME LoopExit, UNCHANGED <<rpc, stamp, beg, curr, result, printed>>,
         mpc' = "done" <=> mpc = "done"
  PROVE  LoopExit'
  BY DEF LoopExit, TimedOut, Timed

LEMMA ReceiveRstExits ==
  ASSUME TypeOK, LoopExit, ReceiveRst
  PROVE  LoopExit'
  <1> USE DEF ReceiveRst, ReceiveRstThen, Taken
  <1>1. result = "none" /\ ~TimedOut /\ mpc # "done"
    BY DEF LoopExit
  <1>2. Slot \in Rsts /\ Head(rawbuf) # "none"
    BY DEF Slot, Rsts, TypeOK
  <1>3. UNCHANGED <<result, mpc, printed>>
    BY DEF mainVars
  <1>4. result' \notin Verdicts
    BY <1>1, <1>3 DEF Verdicts, Detected, Undetected
  <1>5. CASE Slot = "high_tail"
    <2>1. Timed("high_tail")' /\ ~TimedOut' /\ rpc' = "result"
      BY <1>1, <1>2, <1>5 DEF TypeOK, Timed, TimedOut
    <2> QED
      BY <1>1, <1>3, <1>4, <2>1 DEF LoopExit
  <1>6. CASE Slot # "high_tail"
    BY <1>1, <1>3, <1>4, <1>6 DEF LoopExit
  <1> QED
    BY <1>5, <1>6

LEMMA LoopExitStep == TypeOK /\ LoopExit /\ [Next]_vars => LoopExit'
  <1> SUFFICES ASSUME TypeOK, LoopExit, [Next]_vars PROVE LoopExit'
    OBVIOUS
  <1> USE DEF pathVars, mainVars, threadVars
  <1>1. CASE StartThread
    <2>1. result = "none" /\ printed = "none"
      BY <1>1 DEF StartThread, TypeOK, LoopExit
    <2> QED
      BY <1>1, <2>1 DEF StartThread, LoopExit, Verdicts, Detected, Undetected
  <1>2. CASE SendLowHead \/ SendLowTail \/ SendHighHead \/ SendHighTail
    <2>1. mpc # "done" /\ mpc' # "done" /\ UNCHANGED <<printed, threadVars>>
      BY <1>2
      DEF SendLowHead, SendLowTail, SendHighHead, SendHighTail, SendSyn
    <2> QED
      BY <2>1, ThreadKept
  <1>3. CASE Join
    BY <1>3 DEF Join, LoopExit, TimedOut, Timed
  <1>4. CASE Begin
    <2>1. ~Timed("high_tail") /\ UNCHANGED <<stamp, result>> /\ result = "none"
      BY <1>4 DEF Begin, TypeOK, LoopExit
    <2> QED
      BY <1>4, <2>1 DEF Begin, LoopExit, Timed
  <1>5. CASE Test
    <2>1. ~Timed("high_tail") /\ result = "none"
      BY <1>5 DEF Test, TypeOK, LoopExit
    <2> QED
      BY <1>5, <2>1 DEF Test, LoopExit, TimedOut, Timed
  <1>6. CASE ReceiveOther
    BY <1>6 DEF ReceiveOther, ReceiveOtherAt, Taken, LoopExit, Timed
  <1>7. CASE ReceiveRst
    BY <1>7, ReceiveRstExits
  <1>8. CASE Conclude
    <2>1. \/ result' = Insufficient /\ ~Timed("high_tail")
          \/ result' \in Verdicts /\ Timed("high_tail")
      BY <1>8 DEF Conclude, ConcludeIf, LoopExit, Verdicts
    <2>2. Insufficient \notin Verdicts \cup {"none"} /\ "none" \notin Verdicts
      BY DEF Insufficient, Verdicts, Detected, Undetected
    <2> QED
      BY <1>8, <2>1, <2>2 DEF Conclude, ConcludeIf, LoopExit, Timed
  <1>9. CASE Deliver \/ Chat \/ Tick \/ UNCHANGED vars
    BY <1>9, ThreadKept DEF Deliver, Chat, Tick, vars
  <1>10. CASE MainFails \/ ThreadNotCreated \/ ReceiveFails
    BY <1>10 DEF MainFails, ThreadNotCreated, ReceiveFails, LoopExit, Timed
  <1> QED
    BY <1>1, <1>2, <1>3, <1>4, <1>5, <1>6, <1>7, <1>8, <1>9, <1>10
    DEF Next, Main, Thread, Finished

LEMMA InitRefines == Init => Detector!Init
  BY DEF Init, Detector!Init, Stage

LEMMA StutterRefines ==
  ASSUME UNCHANGED <<printed, threadVars>>
  PROVE  UNCHANGED Detector!vars
  BY DEF Detector!vars, Stage, Timed, threadVars

\* Until the thread concludes, its stage is that of its flags.
LEMMA CollectingStage ==
  ASSUME TypeOK, LoopExit, rpc \in {"begin", "test", "recv", "result"}
  PROVE  /\ printed = "none" /\ result = "none"
         /\ Stage = IF Timed("high_tail") THEN "measured"
                    ELSE IF high_e_train THEN "high" ELSE "low"
  BY DEF TypeOK, LoopExit, Stage

LEMMA ThreadStepRefines ==
  ASSUME TypeOK, LoopExit, TypeOK', LoopExit', Thread
  PROVE  Detector!Next \/ UNCHANGED Detector!vars
  <1> USE DEF mainVars
  <1>1. CASE Begin \/ Test \/ ReceiveOther
    <2>1. /\ rpc \in {"begin", "test", "recv"} /\ rpc' \in {"test", "recv", "result"}
          /\ UNCHANGED <<stamp, high_e_train, result, printed>>
      BY <1>1 DEF Begin, Test, ReceiveOther, ReceiveOtherAt, Taken
    <2>2. Stage' = Stage
      BY <2>1, CollectingStage DEF Stage, Timed
    <2> QED
      BY <2>1, <2>2 DEF Detector!vars
  <1>2. CASE ReceiveRst
    <2>1. /\ rpc = "recv" /\ UNCHANGED <<result, printed>>
          /\ rpc' \in {"test", "result"}
      BY <1>2 DEF ReceiveRst, ReceiveRstThen, Taken
    <2>2. ~Timed("high_tail")
      BY <2>1 DEF TypeOK
    <2>3. /\ printed' = "none" /\ result' = "none"
          /\ Stage' = IF Timed("high_tail")' THEN "measured"
                      ELSE IF high_e_train' THEN "high" ELSE "low"
      BY <2>1, CollectingStage DEF Stage
    <2>4. CASE Slot = "high_tail"
      <3>1. Stage = "high"
        BY <2>1, <2>2, <2>4, CollectingStage DEF Slot
      <3>2. Timed("high_tail")'
        BY <1>2, <2>4 DEF ReceiveRst, ReceiveRstThen, Taken, TypeOK, Timed, Rsts
      <3> QED
        BY <2>1, <2>3, <3>1, <3>2 DEF Detector!Next, Detector!MeasureHigh
    <2>5. CASE Slot # "high_tail"
      <3>1. ~Timed("high_tail")' /\ high_e_train' = (high_e_train \/ tail)
        BY <1>2, <2>2, <2>5
        DEF ReceiveRst, ReceiveRstThen, Taken, TypeOK, Timed, Slot, Rsts
      <3>2. CASE high_e_train' = high_e_train
        BY <2>1, <2>2, <2>3, <3>1, <3>2, CollectingStage DEF Detector!vars
      <3>3. CASE ~high_e_train /\ high_e_train'
        BY <2>1, <2>2, <2>3, <3>1, <3>3, CollectingStage
        DEF Detector!Next, Detector!MeasureLow
      <3> QED
        BY <3>1, <3>2, <3>3 DEF TypeOK
    <2> QED
      BY <2>4, <2>5
  <1>3. CASE Conclude
    <2>1. rpc = "result" /\ UNCHANGED <<stamp, printed>>
      BY <1>3 DEF Conclude, ConcludeIf
    <2>2. printed = "none" /\ printed' = "none"
      BY <2>1, CollectingStage
    <2>3. \/ result' = Insufficient /\ ~Timed("high_tail")
          \/ result' \in Verdicts /\ Timed("high_tail")
      BY <1>3 DEF Conclude, ConcludeIf, LoopExit, Verdicts
    <2>4. result' # "none"
      BY <2>3 DEF Insufficient, Verdicts, Detected, Undetected
    <2>5. Stage' = "decided"
      BY <2>2, <2>4 DEF Stage
    <2>6. CASE Timed("high_tail")
      BY <2>1, <2>2, <2>3, <2>5, <2>6, CollectingStage
      DEF Detector!Next, Detector!Decide
    <2>7. CASE ~Timed("high_tail")
      BY <2>1, <2>2, <2>3, <2>5, <2>7, CollectingStage
      DEF Detector!Next, Detector!GiveUp
    <2> QED
      BY <2>6, <2>7
  <1> QED
    BY <1>1, <1>2, <1>3 DEF Thread

LEMMA StepRefines ==
  /\ TypeOK /\ LoopExit /\ TypeOK' /\ LoopExit'
  /\ [Next]_vars
  => [Detector!Next]_(Detector!vars)
  <1> SUFFICES ASSUME TypeOK, LoopExit, TypeOK', LoopExit', [Next]_vars
               PROVE  Detector!Next \/ UNCHANGED Detector!vars
    OBVIOUS
  <1> USE DEF pathVars, threadVars
  <1>1. CASE StartThread \/ ThreadNotCreated
    <2>1. /\ rpc = "off" /\ rpc' # "off" /\ ~high_e_train /\ ~high_e_train'
          /\ ~Timed("high_tail")'
          /\ printed = "none" /\ printed' = "none" /\ result = "none" /\ result' = "none"
      BY <1>1 DEF StartThread, ThreadNotCreated, TypeOK, LoopExit, Timed
    <2>2. Stage = "idle" /\ Stage' = "low"
      BY <2>1 DEF Stage
    <2> QED
      BY <2>1, <2>2 DEF Detector!Next, Detector!Start
  <1>2. CASE SendLowHead \/ SendLowTail \/ SendHighHead \/ SendHighTail
    BY <1>2, StutterRefines
    DEF SendLowHead, SendLowTail, SendHighHead, SendHighTail, SendSyn
  <1>3. CASE Join
    <2>1. /\ printed = "none" /\ printed' = result
          /\ UNCHANGED threadVars
      BY <1>3 DEF Join, LoopExit
    <2>2. CASE result = "none"
      BY <2>1, <2>2, StutterRefines
    <2>3. CASE result # "none"
      <3>1. Stage = "decided" /\ Stage' = "shown"
        BY <2>1, <2>3 DEF Stage
      <3> QED
        BY <2>1, <3>1 DEF Detector!Next, Detector!Show
    <2> QED
      BY <2>2, <2>3
  <1>4. CASE Thread
    BY <1>4, ThreadStepRefines
  <1>5. CASE Deliver \/ Chat \/ Tick \/ UNCHANGED vars
    BY <1>5, StutterRefines DEF Deliver, Chat, Tick, vars, mainVars
  <1>6. CASE MainFails \/ ReceiveFails
    <2>1. mpc = "start" <=> rpc = "off"
      BY DEF TypeOK
    <2>2. /\ rpc # "off" /\ rpc' = "ended"
          /\ UNCHANGED <<printed, result, high_e_train, stamp>>
      BY <1>6, <2>1 DEF MainFails, ReceiveFails, mainVars
    <2> QED
      BY <2>2 DEF Detector!vars, Stage, Timed
  <1> QED
    BY <1>1, <1>2, <1>3, <1>4, <1>5, <1>6 DEF Next, Main, Finished

\* Whatever segments reach the host and whatever call fails, the standalone
\* application implements the abstract detector: it decides from four RSTs,
\* gives up only with fewer, and shows what it decided.
THEOREM StandaloneImplementsDetector == Spec => ImplementsDetector
  <1>1. TypeOK /\ LoopExit /\ TypeOK' /\ LoopExit' /\ [Next]_vars
           => [Detector!Next]_(Detector!vars)
    BY StepRefines
  <1> QED
    BY <1>1, InitRefines, LoopExitInit, LoopExitStep, StandaloneTypeCorrect, PTL
    DEF Spec, ImplementsDetector, Detector!Spec

-----------------------------------------------------------------------------
(***************************************************************************)
(* The order of the RSTs.                                                  *)
(***************************************************************************)

LEMMA RankTyped == \A s \in Rsts : Rank[s] \in Nat
  BY RankValues DEF Rsts

LEMMA InOrderInit == Init => InOrder
  <1> SUFFICES ASSUME Init PROVE InOrder
    OBVIOUS
  <1>1. \A s \in Rsts : ~Timed(s)
    BY DEF Init, Timed
  <1>2. flight = {} /\ \A i \in 1..Len(rawbuf) : FALSE
    BY DEF Init
  <1> QED
    BY <1>1, <1>2 DEF InOrder

\* A step of main that sends nothing, or ends.
LEMMA MainMovesInOrder ==
  ASSUME InOrder, UNCHANGED <<flight, rawbuf, stamp>>,
         mpc' = mpc \/ mpc = "start" \/ mpc' \in {"done", "failed"},
         mpc' # "start"
  PROVE  InOrder'
  <1>1. \A x : Ahead(x, mpc) /\ mpc # "start" => Ahead(x, mpc')
    BY DEF Ahead, Rsts
  <1> QED
    BY <1>1 DEF InOrder, Timed, Ahead

LEMMA SendSynInOrder ==
  ASSUME TypeOK, InOrder, NEW rst \in Rsts, NEW next \in Rsts \cup {"join"},
         next \in Rsts => Rank[rst] < Rank[next],
         NEW rest, SendSyn(rst, next, rest)
  PROVE  InOrder'
  <1> USE DEF SendSyn
  <1>1. mpc = rst /\ mpc' = next /\ mpc # "start" /\ mpc' # "start"
    BY DEF Rsts
  <1>2. \A x : Ahead(x, mpc) => Ahead(x, mpc')
    BY <1>1, RankTyped DEF Ahead
  <1>3. Ahead(rst, mpc')
    BY <1>1 DEF Ahead
  <1>4. \A p \in flight' : p \in flight \/ p = [rst |-> rst, age |-> 0]
    OBVIOUS
  <1>5. \A p \in flight : p.rst \in Rsts /\ p.rst # rst
    BY <1>1, RankTyped DEF InOrder, Ahead, TypeOK
  <1>6. \A p, q \in flight' : p.rst = q.rst => p = q
    BY <1>4, <1>5 DEF InOrder
  <1>7. \A p \in flight' : Ahead(p.rst, mpc')
    BY <1>2, <1>3, <1>4 DEF InOrder
  <1>8. \A i \in 1..Len(rawbuf) :
           Ahead(rawbuf[i], mpc') /\ \A p \in flight' : Ahead(rawbuf[i], p.rst)
    BY <1>1, <1>2, <1>4 DEF InOrder
  <1>9. \A s \in Rsts : Timed(s) =>
           Ahead(stamp[s].rst, mpc') /\ \A p \in flight' : Ahead(stamp[s].rst, p.rst)
    BY <1>1, <1>2, <1>4 DEF InOrder
  <1>10. UNCHANGED <<rawbuf, stamp>>
    BY DEF threadVars
  <1> QED
    BY <1>1, <1>6, <1>7, <1>8, <1>9, <1>10 DEF InOrder, Timed, Ahead

\* What arrives is behind everything that arrived before.
LEMMA DeliverInOrder ==
  ASSUME TypeOK, InOrder, Reorders = FALSE, Deliver
  PROVE  InOrder'
  <1> USE DEF Deliver
  <1>1. PICK p \in flight : Arrive(p) \/ Lose(p)
    OBVIOUS
  <1>2. flight' = flight \ {p} /\ UNCHANGED <<mpc, stamp>>
    BY <1>1 DEF Arrive, Lose, mainVars, threadVars
  <1>3. CASE UNCHANGED rawbuf
    BY <1>2, <1>3 DEF InOrder, Timed, Ahead
  <1>4. CASE Arrive(p)
    <2>1. p.rst \in Rsts /\ p.rst # "stranger"
      BY DEF TypeOK, Rsts
    <2>2. \A q \in flight' : Ahead(p.rst, q.rst)
      <3>1. TAKE q \in flight'
      <3>2. q \in flight /\ q # p
        BY <1>2, <3>1
      <3>3. q.rst # p.rst
        BY <1>1, <3>2 DEF InOrder
      <3>4. q.rst \in Rsts /\ Rank[p.rst] <= Rank[q.rst]
        BY <1>4, <3>2 DEF Arrive, InTurn, TypeOK
      <3>5. Rank[p.rst] # Rank[q.rst]
        BY <2>1, <3>3, <3>4, RankValues DEF Rsts
      <3> QED
        BY <2>1, <3>4, <3>5, RankTyped DEF Ahead
    <2>3. /\ rawbuf \in Seq(Rsts \cup {"other", "stranger"})
          /\ rawbuf' = Append(rawbuf, p.rst)
      BY <1>4 DEF Arrive, TypeOK
    <2>4. /\ Len(rawbuf') = Len(rawbuf) + 1 /\ Len(rawbuf) \in Nat
          /\ rawbuf'[Len(rawbuf) + 1] = p.rst
          /\ \A i \in 1..Len(rawbuf) : rawbuf'[i] = rawbuf[i]
      BY <2>3
    <2>5. Ahead(p.rst, mpc) /\ mpc # "start"
      BY <1>1 DEF InOrder
    <2>6. \A i \in 1..Len(rawbuf) : Ahead(rawbuf[i], p.rst)
      BY <1>1 DEF InOrder
    <2>7. \A i \in 1..Len(rawbuf') :
            /\ rawbuf'[i] # "stranger"
            /\ Ahead(rawbuf'[i], mpc)
            /\ \A q \in flight' : Ahead(rawbuf'[i], q.rst)
            /\ \A j \in i+1..Len(rawbuf') : Ahead(rawbuf'[i], rawbuf'[j])
      <3>1. TAKE i \in 1..Len(rawbuf')
      <3>2. CASE i = Len(rawbuf) + 1
        BY <2>1, <2>2, <2>4, <2>5, <3>2
      <3>3. CASE i \in 1..Len(rawbuf)
        <4>1. \A j \in i+1..Len(rawbuf') :
                j \in i+1..Len(rawbuf) \/ j = Len(rawbuf) + 1
          BY <2>4, <3>3
        <4>2. \A j \in i+1..Len(rawbuf) : rawbuf'[j] = rawbuf[j]
          BY <2>4, <3>3
        <4>3. \A j \in i+1..Len(rawbuf') : Ahead(rawbuf'[i], rawbuf'[j])
          BY <2>4, <2>6, <3>3, <4>1, <4>2 DEF InOrder
        <4> QED
          BY <1>2, <2>4, <3>3, <4>3 DEF InOrder
      <3> QED
        BY <2>4, <3>1, <3>2, <3>3
    <2>8. \A s \in Rsts : Timed(s) =>
            \A i \in 1..Len(rawbuf') : Ahead(stamp[s].rst, rawbuf'[i])
      <3>1. TAKE s \in Rsts
      <3>2. HAVE Timed(s)
      <3>3. Ahead(stamp[s].rst, p.rst)
        BY <1>1, <3>2 DEF InOrder
      <3>4. TAKE i \in 1..Len(rawbuf')
      <3>5. i \in 1..Len(rawbuf) \/ i = Len(rawbuf) + 1
        BY <2>4, <3>4
      <3> QED
        BY <2>4, <3>2, <3>3, <3>5 DEF InOrder
    <2> QED
      BY <1>2, <2>5, <2>7, <2>8 DEF InOrder, Timed, Ahead
  <1> QED
    BY <1>1, <1>3, <1>4 DEF Lose

LEMMA ChatInOrder ==
  ASSUME TypeOK, InOrder, Strangers = FALSE, Chat
  PROVE  InOrder'
  <1>1. rawbuf' = <<"other">> /\ mpc # "start" /\ UNCHANGED <<flight, mpc, stamp>>
    BY DEF Chat, Chatter, mainVars, threadVars
  <1>2. Len(rawbuf') = 1 /\ rawbuf'[1] = "other"
    BY <1>1
  <1>3. "other" \notin Rsts /\ \A i \in 1..1 : i = 1 /\ i+1..1 = {}
    BY DEF Rsts
  <1>4. \A i \in 1..Len(rawbuf') : rawbuf'[i] = "other" /\ i+1..Len(rawbuf') = {}
    BY <1>2, <1>3
  <1>5. \A x : Ahead(x, "other") /\ Ahead("other", x)
    BY <1>3 DEF Ahead
  <1> QED
    BY <1>1, <1>4, <1>5 DEF InOrder, Timed, Ahead

\* Taking the first segment from the buffer, which is timed or not.
LEMMA TakenInOrder ==
  ASSUME TypeOK, InOrder, Taken, UNCHANGED <<flight, mpc>>,
         \/ UNCHANGED stamp
         \/ /\ Slot \in Rsts
            /\ stamp' = [stamp EXCEPT ![Slot] = [at |-> now, rst |-> Head(rawbuf)]]
            /\ \A s \in Rsts : Timed(s) => s = Slot \/ Rank[s] < Rank[Slot]
  PROVE  InOrder'
  <1>1. /\ rawbuf \in Seq(Rsts \cup {"other", "stranger"}) /\ rawbuf # <<>>
        /\ rawbuf' = Tail(rawbuf)
    BY DEF TypeOK, Taken
  <1>2. /\ Len(rawbuf') = Len(rawbuf) - 1 /\ Len(rawbuf) \in Nat \ {0}
        /\ Head(rawbuf) = rawbuf[1]
        /\ \A i \in 1..Len(rawbuf') : i+1 \in 1..Len(rawbuf) /\ rawbuf'[i] = rawbuf[i+1]
    BY <1>1
  <1>3. \A i \in 1..Len(rawbuf') :
           /\ rawbuf'[i] # "stranger"
           /\ Ahead(rawbuf'[i], mpc) /\ mpc # "start"
           /\ \A p \in flight : Ahead(rawbuf'[i], p.rst)
           /\ \A j \in i+1..Len(rawbuf') : Ahead(rawbuf'[i], rawbuf'[j])
    <2>1. TAKE i \in 1..Len(rawbuf')
    <2>2. i+1 \in 1..Len(rawbuf) /\ rawbuf'[i] = rawbuf[i+1]
      BY <1>2
    <2>3. \A j \in i+1..Len(rawbuf') :
             j+1 \in (i+1)+1..Len(rawbuf) /\ rawbuf'[j] = rawbuf[j+1]
      BY <1>2
    <2> QED
      BY <2>2, <2>3 DEF InOrder
  <1>4. /\ rawbuf[1] # "stranger" /\ Ahead(rawbuf[1], mpc) /\ mpc # "start"
        /\ \A p \in flight : Ahead(rawbuf[1], p.rst)
        /\ \A i \in 1..Len(rawbuf') : Ahead(rawbuf[1], rawbuf'[i])
    <2>1. 1 \in 1..Len(rawbuf)
      BY <1>2
    <2>2. \A i \in 1..Len(rawbuf') : i+1 \in 1+1..Len(rawbuf)
      BY <1>2
    <2> QED
      BY <1>2, <2>1, <2>2 DEF InOrder
  <1>5. \A s \in Rsts : Timed(s) =>
          /\ stamp[s].rst # "stranger"
          /\ Ahead(stamp[s].rst, mpc) /\ mpc # "start"
          /\ \A p \in flight : Ahead(stamp[s].rst, p.rst)
          /\ \A i \in 1..Len(rawbuf') : Ahead(stamp[s].rst, rawbuf'[i])
          /\ Ahead(stamp[s].rst, rawbuf[1])
          /\ \A t \in Rsts : Timed(t) /\ Rank[s] < Rank[t] =>
                Ahead(stamp[s].rst, stamp[t].rst)
    <2>1. 1 \in 1..Len(rawbuf)
      BY <1>2
    <2> QED
      BY <1>2, <2>1 DEF InOrder
  <1>6. CASE UNCHANGED stamp
    BY <1>3, <1>5, <1>6 DEF InOrder, Timed, Ahead
  <1>7. CASE /\ Slot \in Rsts
             /\ stamp' = [stamp EXCEPT ![Slot] = [at |-> now, rst |-> Head(rawbuf)]]
             /\ \A s \in Rsts : Timed(s) => s = Slot \/ Rank[s] < Rank[Slot]
    <2>1. /\ stamp'[Slot].rst = rawbuf[1]
          /\ \A s \in Rsts \ {Slot} : stamp'[s] = stamp[s] /\ (Timed(s)' <=> Timed(s))
      BY <1>2, <1>7 DEF TypeOK, Timed
    <2>2. \A s, t \in Rsts : Timed(s)' /\ Timed(t)' /\ Rank[s] < Rank[t] =>
             Ahead(stamp'[s].rst, stamp'[t].rst)
      <3>1. SUFFICES ASSUME NEW s \in Rsts, NEW t \in Rsts,
                            Timed(s)', Timed(t)', Rank[s] < Rank[t]
                     PROVE  Ahead(stamp'[s].rst, stamp'[t].rst)
        OBVIOUS
      <3>2. s # Slot
        BY <1>7, <2>1, <3>1, RankTyped
      <3>3. CASE t = Slot
        BY <1>5, <2>1, <3>1, <3>2, <3>3
      <3>4. CASE t # Slot
        BY <1>5, <2>1, <3>1, <3>2, <3>4
      <3> QED
        BY <3>3, <3>4
    <2>3. \A s \in Rsts : Timed(s)' =>
             /\ stamp'[s].rst # "stranger"
             /\ Ahead(stamp'[s].rst, mpc) /\ mpc # "start"
             /\ \A p \in flight : Ahead(stamp'[s].rst, p.rst)
             /\ \A i \in 1..Len(rawbuf') : Ahead(stamp'[s].rst, rawbuf'[i])
      BY <1>4, <1>5, <1>7, <2>1
    <2> QED
      BY <1>3, <2>2, <2>3 DEF InOrder, Timed, Ahead
  <1> QED
    BY <1>6, <1>7

LEMMA TickInOrder ==
  ASSUME TypeOK, InOrder, Tick
  PROVE  InOrder'
  <1>1. /\ \A q \in flight' : \E p \in flight : q = [p EXCEPT !.age = @ + 1]
        /\ \A p \in flight : p \in [rst: Rsts, age: 0..MaxDelay]
        /\ UNCHANGED <<rawbuf, mpc, stamp>>
    BY DEF Tick, TypeOK, threadVars
  <1>2. \A q \in flight' : \E p \in flight : q = [p EXCEPT !.age = @ + 1] /\ q.rst = p.rst
    BY <1>1
  <1>3. \A p, q \in flight' : p.rst = q.rst => p = q
    BY <1>2 DEF InOrder
  <1>4. \A x : (\A p \in flight : Ahead(x, p.rst)) => \A q \in flight' : Ahead(x, q.rst)
    BY <1>2
  <1>5. \A q \in flight' : Ahead(q.rst, mpc) /\ mpc # "start"
    BY <1>2 DEF InOrder
  <1> QED
    BY <1>1, <1>3, <1>4, <1>5 DEF InOrder, Timed, Ahead

LEMMA InOrderStep ==
  /\ Reorders = FALSE /\ Strangers = FALSE
  /\ TypeOK /\ InOrder /\ [Next]_vars
  => InOrder'
  <1> SUFFICES ASSUME Reorders = FALSE, Strangers = FALSE,
                      TypeOK, InOrder, [Next]_vars
               PROVE  InOrder'
    OBVIOUS
  <1> USE DEF pathVars, mainVars, threadVars
  <1>1. CASE \/ StartThread \/ ThreadNotCreated \/ Join \/ MainFails \/ ReceiveFails
             \/ Begin \/ Test \/ Conclude
    <2>1. mpc' # "start"
      BY <1>1 DEF StartThread, ThreadNotCreated, Join, MainFails, ReceiveFails, Begin, Test,
                  Conclude, ConcludeIf, TypeOK
    <2> QED
      BY <1>1, <2>1, MainMovesInOrder
      DEF StartThread, ThreadNotCreated, Join, MainFails, ReceiveFails, Begin, Test, Conclude, ConcludeIf
  <1>2. CASE SendLowHead \/ SendLowTail \/ SendHighHead \/ SendHighTail
    BY <1>2, SendSynInOrder, RankValues
    DEF SendLowHead, SendLowTail, SendHighHead, SendHighTail, Rsts
  <1>3. CASE ReceiveOther
    BY <1>3, TakenInOrder DEF ReceiveOther, ReceiveOtherAt
  <1>4. CASE ReceiveRst
    <2>1. Slot \in Rsts
      BY DEF Slot, Rsts
    <2>2. \A s \in Rsts : Timed(s) => s = Slot \/ Rank[s] < Rank[Slot]
      BY RankValues DEF TypeOK, Slot, Rsts
    <2> QED
      BY <1>4, <2>1, <2>2, TakenInOrder DEF ReceiveRst, ReceiveRstThen
  <1>5. CASE Deliver
    BY <1>5, DeliverInOrder
  <1>6. CASE Chat
    BY <1>6, ChatInOrder
  <1>7. CASE Tick
    BY <1>7, TickInOrder
  <1>8. CASE UNCHANGED vars
    BY <1>8 DEF vars, InOrder, Timed, Ahead
  <1> QED
    BY <1>1, <1>2, <1>3, <1>4, <1>5, <1>6, <1>7, <1>8 DEF Next, Main, Thread, Finished

\* Four RSTs in their order are the four RSTs.
LEMMA FourInOrder ==
  ASSUME TypeOK, LoopExit, InOrder
  PROVE  OwnRsts
  <1> SUFFICES ASSUME result \in Verdicts PROVE \A s \in Rsts : stamp[s].rst = s
    BY DEF OwnRsts
  <1>1. \A s \in Rsts : Timed(s)
    BY DEF LoopExit, TypeOK, Rsts
  <1>2. \A s \in Rsts : stamp[s].rst \in Rsts
    BY <1>1 DEF InOrder, TypeOK, Stamps, Timed
  <1>3. \A s, t \in Rsts : Rank[s] < Rank[t] => Rank[stamp[s].rst] < Rank[stamp[t].rst]
    BY <1>1, <1>2 DEF InOrder, Ahead
  <1> DEFINE r(s) == Rank[stamp[s].rst]
  <1>4. r("low_head") < r("low_tail") /\ r("low_tail") < r("high_head")
        /\ r("high_head") < r("high_tail")
    BY <1>3, RankValues DEF Rsts
  <1>5. \A s \in Rsts : r(s) \in 1..4 /\ (r(s) = Rank[s] => stamp[s].rst = s)
    BY <1>2, RankValues DEF Rsts
  <1> HIDE DEF r
  <1>6. /\ r("low_head") \in 1..4 /\ r("low_tail") \in 1..4
        /\ r("high_head") \in 1..4 /\ r("high_tail") \in 1..4
    BY <1>5 DEF Rsts
  <1>7. /\ r("low_head") = 1 /\ r("low_tail") = 2
        /\ r("high_head") = 3 /\ r("high_tail") = 4
    BY <1>4, <1>6
  <1> QED
    BY <1>5, <1>7, RankValues DEF Rsts

\* If RSTs keep their order and are nobody else's, a verdict rests on the four
\* RSTs it should, whatever is lost on the way and whatever other segments the
\* host receives, though the code looks at no port number.
THEOREM RstsAreOwn ==
  Reorders = FALSE /\ Strangers = FALSE /\ Spec => []OwnRsts
  <1> SUFFICES ASSUME Reorders = FALSE, Strangers = FALSE
               PROVE  Spec => []OwnRsts
    OBVIOUS
  <1>1. TypeOK /\ InOrder /\ [Next]_vars => InOrder'
    BY InOrderStep
  <1>2. TypeOK /\ LoopExit /\ InOrder => OwnRsts
    BY FourInOrder
  <1> QED
    BY <1>1, <1>2, InOrderInit, LoopExitInit, LoopExitStep, StandaloneTypeCorrect, PTL
    DEF Spec

\* The loop is left by the timeout or with the fourth RST, and the result and
\* what is printed are set where they should be.
THEOREM LoopIsLeft == Spec => []LoopExit
  <1> QED
    BY LoopExitInit, LoopExitStep, StandaloneTypeCorrect, PTL DEF Spec

\* What was timed came before what is in the buffer, that before what is on
\* its way, and that before what main will send, if RSTs keep their order and
\* are nobody else's.
THEOREM RstsKeepOrder ==
  Reorders = FALSE /\ Strangers = FALSE /\ Spec => []InOrder
  <1> SUFFICES ASSUME Reorders = FALSE, Strangers = FALSE
               PROVE  Spec => []InOrder
    OBVIOUS
  <1>1. TypeOK /\ InOrder /\ [Next]_vars => InOrder'
    BY InOrderStep
  <1> QED
    BY <1>1, InOrderInit, StandaloneTypeCorrect, PTL DEF Spec

-----------------------------------------------------------------------------
(***************************************************************************)
(* How long a RST is waited for.  A thread that can run does so within the *)
(* tick, RSTs keep their order and are nobody else's.                      *)
(***************************************************************************)
Timely == Reorders = FALSE /\ Strangers = FALSE /\ Prompt = TRUE

\* The longest main rests before it sends the SYN of s.
Rest == [s \in Rsts |-> IF s = "low_head" THEN 0
                        ELSE IF s = "high_head" THEN InterTime ELSE MaxTrain]

Pace ==
    /\ mpc = "start" => mtimer = 0
    /\ mpc \in Rsts => mtimer <= Rest[mpc]

\* Since t no more time has passed than main's rest before s and, once the SYN
\* is out, its round trip account for.
Due(s, t) ==
    /\ mpc = s => mtimer + (now - t) <= Rest[s]
    /\ \A p \in flight : p.rst = s => now - t <= Rest[s] + p.age
    /\ \A i \in 1..Len(rawbuf) : rawbuf[i] = s => now - t <= Rest[s] + MaxDelay

LEMMA RestTyped == Rest \in [Rsts -> Nat]
  BY StandaloneAssumption DEF Rest

LEMMA RestValues ==
  /\ Rest["low_head"] = 0 /\ Rest["high_head"] = InterTime
  /\ Rest["low_tail"] = MaxTrain /\ Rest["high_tail"] = MaxTrain
  BY DEF Rest, Rsts

LEMMA PaceInit == Init => Pace
  BY DEF Init, Pace, Rsts

LEMMA PaceStep == TypeOK /\ Pace /\ [Next]_vars => Pace'
  <1> SUFFICES ASSUME TypeOK, Pace, [Next]_vars PROVE Pace'
    OBVIOUS
  <1> USE DEF pathVars, mainVars, threadVars
  <1>1. CASE StartThread \/ ThreadNotCreated
    BY <1>1, RestValues DEF StartThread, ThreadNotCreated, Pace
  <1>2. CASE SendLowHead \/ SendLowTail \/ SendHighHead \/ SendHighTail
    BY <1>2, RestValues, StandaloneAssumption
    DEF SendLowHead, SendLowTail, SendHighHead, SendHighTail, SendSyn, Pace, Rsts
  <1>3. CASE Join \/ MainFails
    BY <1>3 DEF Join, MainFails, Pace, Rsts
  <1>4. CASE Tick
    <2>1. mtimer' \in Nat /\ mtimer' <= mtimer /\ (mtimer = 0 => mtimer' = 0)
      BY <1>4 DEF Tick, TypeOK
    <2> QED
      BY <1>4, <2>1, RestTyped DEF Tick, Pace, TypeOK
  <1>5. CASE UNCHANGED <<mpc, mtimer>>
    BY <1>5 DEF Pace
  <1> QED
    BY <1>1, <1>2, <1>3, <1>4, <1>5
    DEF Next, Main, Thread, Finished, Begin, Test, ReceiveOther, ReceiveOtherAt, ReceiveRst,
        ReceiveRstThen, Conclude, ConcludeIf, ReceiveFails, Deliver, Chat, vars

\* From now on any RST is waited for as long as main rests at the most.
LEMMA DueNow ==
  ASSUME TypeOK, Pace, NEW s \in Rsts
  PROVE  Due(s, now)
  BY RestTyped, StandaloneAssumption DEF Due, Pace, TypeOK

LEMMA DueFrame ==
  ASSUME NEW s, NEW t, Due(s, t),
         UNCHANGED <<now, mtimer, flight, rawbuf>>, mpc' = mpc \/ mpc' # s
  PROVE  Due(s, t)'
  BY DEF Due

LEMMA DueSendSyn ==
  ASSUME TypeOK, NEW s \in Rsts, NEW t \in Nat, Due(s, t),
         NEW rst, NEW next, NEW rest, SendSyn(rst, next, rest), next # s
  PROVE  Due(s, t)'
  <1> USE DEF SendSyn
  <1>1. \A p \in flight' : p \in flight \/ (p.rst = rst /\ p.age = 0)
    OBVIOUS
  <1>2. rst = s => now - t <= Rest[s]
    BY DEF Due, TypeOK
  <1>3. \A p \in flight' : p.rst = s => now - t <= Rest[s] + p.age
    BY <1>1, <1>2, RestTyped DEF Due, TypeOK
  <1> QED
    BY <1>3 DEF Due, threadVars

LEMMA DueDeliver ==
  ASSUME TypeOK, NEW s \in Rsts, NEW t \in Nat, Due(s, t), Deliver
  PROVE  Due(s, t)'
  <1>1. PICK p \in flight : Arrive(p) \/ Lose(p)
    BY DEF Deliver
  <1>2. flight' = flight \ {p} /\ UNCHANGED <<now, mpc, mtimer>>
    BY <1>1 DEF Deliver, Arrive, Lose, mainVars
  <1>3. p.rst = s => now - t <= Rest[s] + MaxDelay
    <2>1. p.age \in Nat /\ p.age <= MaxDelay
      BY StandaloneAssumption DEF TypeOK
    <2> QED
      BY <2>1, RestTyped, StandaloneAssumption DEF Due, TypeOK
  <1>4. \A i \in 1..Len(rawbuf') :
           (i \in 1..Len(rawbuf) /\ rawbuf'[i] = rawbuf[i]) \/ rawbuf'[i] = p.rst
    BY <1>1 DEF Arrive, Lose, TypeOK
  <1> QED
    BY <1>2, <1>3, <1>4 DEF Due

LEMMA DueTaken ==
  ASSUME TypeOK, NEW s \in Rsts, NEW t \in Nat, Due(s, t), Taken,
         UNCHANGED <<now, mpc, mtimer, flight>>
  PROVE  Due(s, t)'
  <1>1. \A i \in 1..Len(rawbuf') : i+1 \in 1..Len(rawbuf) /\ rawbuf'[i] = rawbuf[i+1]
    BY DEF Taken, TypeOK
  <1> QED
    BY <1>1 DEF Due

LEMMA DueChat ==
  ASSUME Strangers = FALSE, NEW s \in Rsts, NEW t, Due(s, t), Chat
  PROVE  Due(s, t)'
  <1>1. rawbuf' = <<"other">> /\ s # "other"
    BY DEF Chat, Chatter, Rsts
  <1> QED
    BY <1>1 DEF Chat, mainVars, Due

\* Time passes only while the thread waits at an empty buffer and main rests
\* or waits for the thread.
LEMMA TickMeansWaiting ==
  ASSUME Prompt = TRUE, Tick, rpc \notin {"off", "ended"}, TypeOK
  PROVE  rpc = "recv" /\ rawbuf = <<>> /\ (mpc \in Rsts => mtimer > 0)
  BY DEF Tick, ThreadReady, MainReady, TypeOK

LEMMA DueTick ==
  ASSUME Prompt = TRUE, TypeOK, rpc \notin {"off", "ended"},
         NEW s \in Rsts, NEW t \in Nat, Due(s, t), Tick
  PROVE  Due(s, t)'
  <1>1. rawbuf = <<>> /\ UNCHANGED <<rawbuf, mpc>> /\ (mpc = s => mtimer > 0)
    BY TickMeansWaiting DEF Tick
  <1>2. mpc' = s => mtimer' + (now' - t) <= Rest[s]
    BY <1>1, RestTyped DEF Tick, Due, TypeOK
  <1>3. \A q \in flight' : q.rst = s => now' - t <= Rest[s] + q.age
    <2>1. SUFFICES ASSUME NEW p \in flight, p.rst = s
                   PROVE  now' - t <= Rest[s] + [p EXCEPT !.age = @ + 1].age
      BY DEF Tick, TypeOK
    <2>2. p.age \in Nat /\ [p EXCEPT !.age = @ + 1].age = p.age + 1
      BY StandaloneAssumption DEF TypeOK
    <2>3. now - t <= Rest[s] + p.age
      BY <2>1 DEF Due
    <2> QED
      BY <2>2, <2>3, RestTyped DEF Tick, TypeOK
  <1> QED
    BY <1>1, <1>2, <1>3 DEF Due


\* Main does not come to the SYN of a RST again once the one before was timed.
LEMMA NotAgain ==
  ASSUME TypeOK, InOrder, [Next]_vars, rpc # "off", NEW s \in Rsts,
         \/ s = "low_head"
         \/ \E r \in Rsts : Rank[s] = Rank[r] + 1 /\ Timed(r) /\ stamp[r].rst = r
  PROVE  mpc' = s => mpc = s
  <1> SUFFICES ASSUME mpc' = s, mpc # s PROVE FALSE
    OBVIOUS
  <1>1. mpc # "start" /\ mpc' \in Rsts
    BY DEF TypeOK
  <1>2. mpc \in Rsts /\ Rank[s] = Rank[mpc] + 1 /\ s # "low_head"
    BY <1>1, RankValues
    DEF Next, Main, Thread, Finished, StartThread, ThreadNotCreated, SendLowHead, SendLowTail,
        SendHighHead, SendHighTail, SendSyn, Join, MainFails, Begin, Test, ReceiveOther,
        ReceiveOtherAt, ReceiveRst, ReceiveRstThen, Conclude, ConcludeIf, ReceiveFails, Deliver,
        Chat, Tick, vars, mainVars, Rsts
  <1>3. PICK r \in Rsts : Rank[s] = Rank[r] + 1 /\ Timed(r) /\ stamp[r].rst = r
    BY <1>2
  <1>4. Rank[r] < Rank[mpc]
    BY <1>2, <1>3 DEF InOrder, Ahead
  <1> QED
    BY <1>2, <1>3, <1>4, RankTyped

LEMMA DueStep ==
  ASSUME Timely, TypeOK, [Next]_vars, rpc \notin {"off", "ended"}, rpc' # "ended",
         NEW s \in Rsts, NEW t \in Nat, Due(s, t), mpc' = s => mpc = s
  PROVE  Due(s, t)'
  <1> USE DEF pathVars, mainVars, threadVars, Timely
  <1>1. CASE SendLowHead \/ SendLowTail \/ SendHighHead \/ SendHighTail
    BY <1>1, DueSendSyn, RankValues
    DEF SendLowHead, SendLowTail, SendHighHead, SendHighTail, SendSyn
  <1>2. CASE Deliver
    BY <1>2, DueDeliver
  <1>3. CASE Chat
    BY <1>3, DueChat
  <1>4. CASE Tick
    BY <1>4, DueTick
  <1>5. CASE ReceiveOther \/ ReceiveRst
    BY <1>5, DueTaken DEF ReceiveOther, ReceiveOtherAt, ReceiveRst, ReceiveRstThen
  <1>6. CASE Begin \/ Test \/ UNCHANGED vars
    BY <1>6, DueFrame DEF Begin, Test, vars
  <1>7. CASE StartThread \/ ThreadNotCreated
    BY <1>7 DEF StartThread, ThreadNotCreated, TypeOK
  <1>8. CASE Join \/ MainFails \/ ReceiveFails \/ Conclude
    BY <1>8 DEF Join, MainFails, ReceiveFails, Conclude, ConcludeIf
  <1> QED
    BY <1>1, <1>2, <1>3, <1>4, <1>5, <1>6, <1>7, <1>8 DEF Next, Main, Thread, Finished

\* The instants the thread keeps are past, and in the order of their RSTs.
Instants ==
    /\ curr <= now /\ beg <= now
    /\ \A s \in Rsts : Timed(s) =>
         /\ stamp[s].at <= now
         /\ \A t \in Rsts : Timed(t) /\ Rank[s] < Rank[t] => stamp[s].at <= stamp[t].at

LEMMA InstantsInit == Init => Instants
  BY DEF Init, Instants, Timed

\* A RST is timed in the first timestamp that is not set.
LEMMA SlotIsNext ==
  ASSUME TypeOK, rpc \in {"begin", "test", "recv"}
  PROVE  /\ Slot \in Rsts /\ ~Timed(Slot)
         /\ \A s \in Rsts : Timed(s) <=> Rank[s] < Rank[Slot]
  <1>1. ~Timed("high_tail")
    BY DEF TypeOK
  <1> QED
    BY <1>1, RankValues DEF TypeOK, Slot, Rsts

LEMMA ReceiveRstStamps ==
  ASSUME TypeOK, ReceiveRst
  PROVE  /\ Slot \in Rsts /\ ~Timed(Slot)
         /\ \A s \in Rsts : Timed(s) <=> Rank[s] < Rank[Slot]
         /\ stamp'[Slot].at = now /\ stamp'[Slot].rst = Head(rawbuf)
         /\ \A s \in Rsts \ {Slot} : stamp'[s] = stamp[s]
         /\ \A s \in Rsts : Timed(s)' <=> Timed(s) \/ s = Slot
  <1> USE DEF ReceiveRst, ReceiveRstThen, Taken
  <1>1. Slot \in Rsts /\ ~Timed(Slot) /\ \A s \in Rsts : Timed(s) <=> Rank[s] < Rank[Slot]
    BY SlotIsNext
  <1>2. Head(rawbuf) # "none" /\ stamp \in [Rsts -> Stamps]
    BY DEF TypeOK, Rsts
  <1> QED
    BY <1>1, <1>2 DEF Timed

LEMMA InstantsStep == TypeOK /\ Instants /\ [Next]_vars => Instants'
  <1> SUFFICES ASSUME TypeOK, Instants, [Next]_vars PROVE Instants'
    OBVIOUS
  <1> USE DEF pathVars, mainVars, threadVars
  <1>1. CASE ReceiveRst
    <2> USE <1>1
    <2>1. UNCHANGED now /\ now \in Nat /\ curr' <= now' /\ beg' <= now'
      BY DEF ReceiveRst, ReceiveRstThen, Instants, TypeOK
    <2>2. \A s \in Rsts : Timed(s)' => stamp'[s].at <= now'
      BY <2>1, ReceiveRstStamps DEF Instants
    <2>3. \A s, t \in Rsts : Timed(s)' /\ Timed(t)' /\ Rank[s] < Rank[t] =>
             stamp'[s].at <= stamp'[t].at
      <3>1. SUFFICES ASSUME NEW s \in Rsts, NEW t \in Rsts,
                            Timed(s)', Timed(t)', Rank[s] < Rank[t]
                     PROVE  stamp'[s].at <= stamp'[t].at
        OBVIOUS
      <3>2. s # Slot /\ Timed(s)
        BY <3>1, ReceiveRstStamps, RankTyped
      <3> QED
        BY <3>1, <3>2, ReceiveRstStamps DEF Instants
    <2> QED
      BY <2>1, <2>2, <2>3 DEF Instants
  <1>2. CASE Tick
    <2>1. now' = now + 1 /\ UNCHANGED <<stamp, beg, curr>>
      BY <1>2 DEF Tick
    <2>2. \A s \in Rsts : stamp[s].at \in Nat
      BY DEF TypeOK, Stamps
    <2> QED
      BY <2>1, <2>2 DEF Instants, Timed, TypeOK
  <1>3. CASE Begin \/ ReceiveOther
    BY <1>3 DEF Begin, ReceiveOther, ReceiveOtherAt, Instants, Timed, TypeOK
  <1>4. CASE UNCHANGED <<now, stamp, beg, curr>>
    BY <1>4 DEF Instants, Timed
  <1> QED
    BY <1>1, <1>2, <1>3, <1>4
    DEF Next, Main, Thread, Finished, StartThread, ThreadNotCreated, SendLowHead, SendLowTail,
        SendHighHead, SendHighTail, SendSyn, Join, MainFails, Test, Conclude, ConcludeIf,
        ReceiveFails, Deliver, Chat, vars


-----------------------------------------------------------------------------
(***************************************************************************)
(* Dropping what is less than a second or a millisecond.                   *)
(***************************************************************************)
LEMMA DivAt ==
  ASSUME NEW a \in Nat, NEW d \in Nat \ {0}
  PROVE  /\ a \div d \in Nat
         /\ d * (a \div d) <= a
         /\ a < d * (a \div d) + d
  <1>1. a \div d \in Int
    OBVIOUS
  <1>2. a = d * (a \div d) + (a % d) /\ a % d \in 0..(d - 1)
    OBVIOUS
  <1> QED
    BY <1>1, <1>2

LEMMA LessFactor ==
  ASSUME NEW x \in Int, NEW y \in Int, NEW d \in Nat \ {0}, d * x < d * y
  PROVE  x < y
  <1> SUFFICES ASSUME y <= x PROVE FALSE
    OBVIOUS
  <1>1. d * (x - y) >= 0
    OBVIOUS
  <1> QED
    BY <1>1

\* Two instants at most n units apart are at most n apart when cut to units.
LEMMA DivDiff ==
  ASSUME NEW a \in Nat, NEW b \in Nat, NEW d \in Nat \ {0}, NEW n \in Int,
         a <= b + n * d
  PROVE  (a \div d) - (b \div d) <= n
  <1> DEFINE p == a \div d
             q == b \div d
  <1>1. p \in Nat /\ d * p <= a /\ q \in Nat /\ b < d * q + d
    BY DivAt
  <1> HIDE DEF p, q
  <1>2. d * p < d * (q + 1 + n)
    BY <1>1, Z3
  <1>3. p < q + 1 + n
    BY <1>1, <1>2, LessFactor
  <1> QED
    BY <1>1, <1>3 DEF p, q

-----------------------------------------------------------------------------
(***************************************************************************)
(* No false detection.                                                     *)
(***************************************************************************)

\* From the timing of the high head on, the high tail is due.
HighPaced ==
    /\ stamp["high_head"].rst = "high_head" /\ rpc # "ended" =>
         Due("high_tail", stamp["high_head"].at)
    /\ stamp["high_head"].rst = "high_head" /\ stamp["high_tail"].rst = "high_tail" =>
         stamp["high_tail"].at - stamp["high_head"].at <= MaxTrain + MaxDelay
    /\ result = Detected => HighDelta - LowDelta > Threshold

LEMMA HighPacedInit == Init => HighPaced
  BY DEF Init, HighPaced, Rsts, Detected

\* A step that times no RST.
LEMMA HighPacedFrame ==
  ASSUME Timely, TypeOK, InOrder, HighPaced, [Next]_vars, UNCHANGED stamp,
         rpc = "ended" => rpc' = "ended",
         result' = Detected => result = Detected \/ HighDelta - LowDelta > Threshold
  PROVE  HighPaced'
  <1>1. CASE stamp["high_head"].rst = "high_head" /\ rpc' # "ended"
    <2>1. "high_head" \in Rsts /\ Timed("high_head") /\ rpc \notin {"off", "begin", "ended"}
      BY <1>1 DEF Timed, TypeOK, Rsts
    <2>2. mpc' = "high_tail" => mpc = "high_tail"
      BY <1>1, <2>1, NotAgain, RankValues DEF Rsts
    <2>3. PICK t \in Nat : t = stamp["high_head"].at
      BY <2>1 DEF TypeOK, Stamps
    <2>4. Due("high_tail", t)
      BY <1>1, <2>1, <2>3 DEF HighPaced
    <2>5. Due("high_tail", t)'
      BY <1>1, <2>1, <2>2, <2>4, DueStep DEF Rsts
    <2> QED
      BY <2>3, <2>5 DEF HighPaced, HighDelta, LowDelta
  <1>2. CASE ~(stamp["high_head"].rst = "high_head" /\ rpc' # "ended")
    BY <1>2 DEF HighPaced, HighDelta, LowDelta
  <1> QED
    BY <1>1, <1>2

LEMMA HighPacedReceive ==
  ASSUME Timely, TypeOK, InOrder, LoopExit, Pace, HighPaced, [Next]_vars, ReceiveRst
  PROVE  HighPaced'
  <1> USE DEF ReceiveRst, ReceiveRstThen, Taken
  <1>1. result' # Detected
    BY DEF LoopExit, Detected, mainVars
  <1>2. {"high_head", "high_tail"} \subseteq Rsts /\ rpc = "recv" /\ rpc' # "ended"
    BY DEF Rsts
  <1>3. rawbuf # <<>> /\ 1 \in 1..Len(rawbuf) /\ Head(rawbuf) = rawbuf[1]
    BY DEF TypeOK
  <1>4. CASE Slot = "high_head"
    <2>1. stamp'["high_tail"].rst # "high_tail" /\ stamp'["high_head"].at = now
      BY <1>2, <1>4, ReceiveRstStamps, RankValues DEF Timed
    <2>2. PICK t \in Nat : t = now
      BY DEF TypeOK
    <2>3. Due("high_tail", t)
      BY <1>2, <2>2, DueNow
    <2>4. Due("high_tail", t)'
      BY <1>2, <2>2, <2>3, DueTaken DEF mainVars
    <2> QED
      BY <1>1, <2>1, <2>2, <2>4 DEF HighPaced
  <1>5. CASE Slot = "high_tail"
    <2>1. stamp'["high_head"] = stamp["high_head"] /\ Timed("high_head")
      BY <1>2, <1>5, ReceiveRstStamps, RankValues
    <2>2. CASE stamp["high_head"].rst = "high_head"
      <3>1. PICK t \in Nat : t = stamp["high_head"].at
        BY <1>2 DEF TypeOK, Stamps
      <3>2. Due("high_tail", t)
        BY <1>2, <2>2, <3>1 DEF HighPaced
      <3>3. Due("high_tail", t)'
        BY <1>2, <3>2, DueTaken DEF mainVars
      <3>4. stamp'["high_tail"].rst = "high_tail" =>
              stamp'["high_tail"].at - t <= MaxTrain + MaxDelay
        BY <1>3, <1>5, <3>2, ReceiveRstStamps, RestValues DEF Due
      <3> QED
        BY <1>1, <2>1, <3>1, <3>3, <3>4 DEF HighPaced
    <2> QED
      BY <1>1, <2>1, <2>2 DEF HighPaced
  <1>6. CASE Slot \in {"low_head", "low_tail"}
    <2>1. /\ stamp'["high_head"] = stamp["high_head"] /\ ~Timed("high_head")
          /\ stamp["high_head"].rst = "none"
      BY <1>2, <1>6, ReceiveRstStamps, RankValues DEF Rsts, Timed
    <2> QED
      BY <1>1, <2>1 DEF HighPaced
  <1> QED
    BY <1>4, <1>5, <1>6, ReceiveRstStamps DEF Rsts

LEMMA HighPacedStep ==
  Timely /\ TypeOK /\ InOrder /\ LoopExit /\ Pace /\ HighPaced /\ [Next]_vars => HighPaced'
  <1> SUFFICES ASSUME Timely, TypeOK, InOrder, LoopExit, Pace, HighPaced, [Next]_vars
               PROVE  HighPaced'
    OBVIOUS
  <1> USE DEF pathVars, mainVars, threadVars
  <1>1. CASE ReceiveRst
    BY <1>1, HighPacedReceive
  <1>2. CASE Conclude
    <2>1. Insufficient # Detected /\ Undetected # Detected
      BY DEF Insufficient, Detected, Undetected
    <2>2. result' = Detected => HighDelta - LowDelta > Threshold
      BY <1>2, <2>1 DEF Conclude, ConcludeIf
    <2> QED
      BY <1>2, <2>2, HighPacedFrame DEF Conclude, ConcludeIf
  <1>3. CASE ~ReceiveRst /\ ~Conclude
    <2>1. UNCHANGED <<stamp, result>> /\ (rpc = "ended" => rpc' = "ended")
      BY <1>3
      DEF Next, Main, Thread, Finished, StartThread, ThreadNotCreated, SendLowHead, SendLowTail,
          SendHighHead, SendHighTail, SendSyn, Join, MainFails, Begin, Test, ReceiveOther,
          ReceiveOtherAt, Taken, ReceiveFails, Deliver, Chat, Tick, vars, TypeOK
    <2> QED
      BY <2>1, HighPacedFrame
  <1> QED
    BY <1>1, <1>2, <1>3

LEMMA PacedDetectsNothing ==
  ASSUME TypeOK, LoopExit, OwnRsts, Instants, HighPaced
  PROVE  NoFalseDetection
  <1> SUFFICES ASSUME MaxTrain + MaxDelay <= Threshold * Milli, result = Detected
               PROVE  FALSE
    BY DEF NoFalseDetection
  <1> DEFINE at(s) == stamp[s].at
  <1>1. \A s \in Rsts : Timed(s) /\ stamp[s].rst = s /\ at(s) \in Nat
    BY DEF OwnRsts, LoopExit, Verdicts, TypeOK, Stamps, Rsts
  <1>2. /\ at("low_head") <= at("low_tail")
        /\ at("high_tail") - at("high_head") <= MaxTrain + MaxDelay
    BY <1>1, RankValues DEF Instants, HighPaced, Rsts
  <1>3. /\ at("low_head") \in Nat /\ at("low_tail") \in Nat
        /\ at("high_head") \in Nat /\ at("high_tail") \in Nat
    BY <1>1 DEF Rsts
  <1> HIDE DEF at
  <1>4. at("low_head") <= at("low_tail") + 0 * Milli
    BY <1>2, <1>3, StandaloneAssumption
  <1>5. (at("low_head") \div Milli) - (at("low_tail") \div Milli) <= 0
    BY <1>3, <1>4, DivDiff, StandaloneAssumption
  <1>6. at("high_tail") <= at("high_head") + Threshold * Milli
    BY <1>2, <1>3, StandaloneAssumption
  <1>7. (at("high_tail") \div Milli) - (at("high_head") \div Milli) <= Threshold
    BY <1>3, <1>6, DivDiff, StandaloneAssumption
  <1>8. \A s \in Rsts : Millis(stamp[s].at) = at(s) \div Milli /\ at(s) \div Milli \in Int
    BY <1>1, StandaloneAssumption, DivAt DEF Millis, at
  <1>9. HighDelta - LowDelta <= Threshold
    BY <1>5, <1>7, <1>8, StandaloneAssumption DEF HighDelta, LowDelta, Rsts
  <1>10. HighDelta \in Int /\ LowDelta \in Int /\ HighDelta - LowDelta > Threshold
    BY <1>8 DEF HighDelta, LowDelta, Rsts, HighPaced
  <1> QED
    BY <1>9, <1>10, StandaloneAssumption

\* A train of which the sending takes MaxTrain at the most, and round trips
\* that take MaxDelay at the most, are not called compression if the threshold
\* allows for both: whatever is lost, fails or comes in between, and though
\* the deltas are taken of instants cut to milliseconds.
THEOREM NothingDetectedFalsely == Timely /\ Spec => []NoFalseDetection
  <1> SUFFICES ASSUME Timely PROVE Spec => []NoFalseDetection
    OBVIOUS
  <1>1. Spec => []InOrder
    BY RstsKeepOrder DEF Timely
  <1>2. Spec => []OwnRsts
    BY RstsAreOwn DEF Timely
  <1>3. TypeOK /\ InOrder /\ LoopExit /\ Pace /\ HighPaced /\ [Next]_vars => HighPaced'
    BY HighPacedStep
  <1>4. TypeOK /\ LoopExit /\ OwnRsts /\ Instants /\ HighPaced => NoFalseDetection
    BY PacedDetectsNothing
  <1> QED
    BY <1>1, <1>2, <1>3, <1>4, StandaloneTypeCorrect, LoopIsLeft, PaceInit, PaceStep,
       InstantsInit, InstantsStep, HighPacedInit, PTL DEF Spec


-----------------------------------------------------------------------------
(***************************************************************************)
(* No false failure.                                                       *)
(***************************************************************************)
Waiting(s) == \E i \in 1..Len(rawbuf) : rawbuf[i] = s
Abroad(s)  == \E p \in flight : p.rst = s

\* As long as nothing is lost: what was timed is what it is taken for, every
\* RST of a SYN that was sent can be found somewhere, and since the timeout was
\* last restarted no more time has passed than the next RST may take.
Patient ==
    ~lost =>
      /\ result # Insufficient
      /\ rpc \in {"begin", "test", "recv"} =>
           /\ \A s \in Rsts : Timed(s) => stamp[s].rst = s
           /\ \A s \in Rsts : Ahead(s, mpc) => Timed(s) \/ Abroad(s) \/ Waiting(s)
      /\ rpc \in {"test", "recv"} => Due(Slot, beg)
      /\ rpc = "result" => Timed("high_tail")

LEMMA PatientInit == Init => Patient
  BY DEF Init, Patient, Insufficient

\* Main is at the SYN of the next RST or beyond.
LEMMA SlotReached ==
  ASSUME TypeOK, InOrder, Patient, ~lost, rpc \in {"test", "recv"}
  PROVE  mpc = Slot \/ Ahead(Slot, mpc)
  <1> SUFFICES ASSUME mpc \in Rsts, Rank[mpc] < Rank[Slot] PROVE FALSE
    BY SlotIsNext, RankValues DEF Ahead, Rsts
  <1>1. Timed(mpc) /\ stamp[mpc].rst = mpc
    BY SlotIsNext DEF Patient
  <1> QED
    BY <1>1, RankTyped DEF InOrder, Ahead

LEMMA NotTimedOut ==
  ASSUME TypeOK, InOrder, Instants, Patient, Patience, ~lost, rpc \in {"test", "recv"}
  PROVE  ~TimedOut
  <1>1. Slot \in Rsts /\ ~Timed(Slot) /\ Due(Slot, beg)
    BY SlotIsNext DEF Patient
  <1>2. mpc = Slot \/ Abroad(Slot) \/ Waiting(Slot)
    BY <1>1, SlotReached DEF Patient
  <1>3. now - beg <= Rest[Slot] + MaxDelay
    <2>1. CASE mpc = Slot
      BY <1>1, <2>1, RestTyped, StandaloneAssumption DEF Due, TypeOK
    <2>2. CASE Abroad(Slot)
      <3>1. PICK p \in flight : p.rst = Slot
        BY <2>2 DEF Abroad
      <3>2. p.age \in Nat /\ p.age <= MaxDelay
        BY StandaloneAssumption DEF TypeOK
      <3> QED
        BY <1>1, <3>1, <3>2, RestTyped, StandaloneAssumption DEF Due, TypeOK
    <2>3. CASE Waiting(Slot)
      BY <1>1, <2>3 DEF Due, Waiting
    <2> QED
      BY <1>2, <2>1, <2>2, <2>3
  <1>4. Rest[Slot] + MaxDelay <= RstTimeout * Second
    BY <1>1, RestValues, StandaloneAssumption DEF Patience, Rsts
  <1>5. curr \in Nat /\ beg \in Nat /\ curr <= beg + RstTimeout * Second
    BY <1>1, <1>3, <1>4, RestTyped, StandaloneAssumption DEF Instants, TypeOK
  <1>6. (curr \div Second) - (beg \div Second) <= RstTimeout
    BY <1>5, DivDiff, StandaloneAssumption
  <1>7. (curr \div Second) \in Nat /\ (beg \div Second) \in Nat
    BY <1>5, DivAt, StandaloneAssumption
  <1> QED
    BY <1>6, <1>7, StandaloneAssumption DEF TimedOut, Seconds

\* If nothing was lost the RST that is taken is the next one.
LEMMA TakenIsSlot ==
  ASSUME TypeOK, InOrder, Patient, ~lost, ReceiveRst
  PROVE  Head(rawbuf) = Slot
  <1> USE DEF ReceiveRst, ReceiveRstThen, Taken
  <1>1. 1 \in 1..Len(rawbuf) /\ Head(rawbuf) = rawbuf[1] /\ rawbuf[1] \in Rsts
    BY DEF TypeOK, IsRst, InOrder
  <1>2. Slot \in Rsts /\ ~Timed(Slot)
    BY SlotIsNext
  <1>3. ~(Rank[rawbuf[1]] < Rank[Slot])
    <2> SUFFICES ASSUME Rank[rawbuf[1]] < Rank[Slot] PROVE FALSE
      OBVIOUS
    <2>1. Timed(rawbuf[1]) /\ stamp[rawbuf[1]].rst = rawbuf[1]
      BY <1>1, SlotIsNext DEF Patient
    <2> QED
      BY <1>1, <2>1, RankTyped DEF InOrder, Ahead
  <1>4. ~(Rank[Slot] < Rank[rawbuf[1]])
    <2> SUFFICES ASSUME Rank[Slot] < Rank[rawbuf[1]] PROVE FALSE
      OBVIOUS
    <2>1. Ahead(Slot, mpc)
      BY <1>1, <1>2, RankTyped DEF InOrder, Ahead
    <2>2. Abroad(Slot) \/ Waiting(Slot)
      BY <1>2, <2>1 DEF Patient
    <2>3. CASE Abroad(Slot)
      BY <1>1, <1>2, <2>3, RankTyped DEF InOrder, Ahead, Abroad
    <2>4. CASE Waiting(Slot)
      <3>1. PICK i \in 1..Len(rawbuf) : rawbuf[i] = Slot
        BY <2>4 DEF Waiting
      <3>2. i # 1
        BY <1>1, <3>1, RankTyped
      <3>3. i \in 1+1..Len(rawbuf)
        BY <3>2
      <3> QED
        BY <1>1, <1>2, <3>1, <3>3, RankTyped DEF InOrder, Ahead
    <2> QED
      BY <2>2, <2>3, <2>4
  <1> QED
    BY <1>1, <1>2, <1>3, <1>4, RankValues DEF Rsts

\* Taking a segment from the buffer loses no other.
LEMMA TakenKeeps ==
  ASSUME TypeOK, Taken, NEW s, Waiting(s), Head(rawbuf) # s
  PROVE  Waiting(s)'
  <1>1. PICK i \in 1..Len(rawbuf) : rawbuf[i] = s
    BY DEF Waiting
  <1>2. /\ rawbuf \in Seq(Rsts \cup {"other", "stranger"}) /\ rawbuf # <<>>
        /\ rawbuf' = Tail(rawbuf)
    BY DEF Taken, TypeOK
  <1>3. i # 1
    BY <1>1, <1>2
  <1>4. i - 1 \in 1..Len(rawbuf') /\ rawbuf'[i - 1] = rawbuf[i]
    BY <1>2, <1>3
  <1> QED
    BY <1>1, <1>4 DEF Waiting

\* Every RST of a SYN that was sent is still somewhere.
LEMMA NoneMissing ==
  ASSUME TypeOK, InOrder, Patient, ~lost', ~lost, [Next]_vars,
         rpc \in {"begin", "test", "recv"}, rpc' # "ended", NEW s \in Rsts, Ahead(s, mpc')
  PROVE  (Timed(s) \/ Abroad(s) \/ Waiting(s))'
  <1> DEFINE Found(x) == Timed(x) \/ Abroad(x) \/ Waiting(x)
  <1> USE DEF pathVars, mainVars, threadVars
  <1>1. Ahead(s, mpc) => Found(s)
    BY DEF Patient
  <1>2. CASE SendLowHead \/ SendLowTail \/ SendHighHead \/ SendHighTail
    <2>1. mpc \in Rsts /\ flight' = flight \cup {[rst |-> mpc, age |-> 0]}
          /\ UNCHANGED <<rawbuf, stamp>>
      BY <1>2 DEF SendLowHead, SendLowTail, SendHighHead, SendHighTail, SendSyn, Rsts
    <2>2. s = mpc \/ Ahead(s, mpc)
      BY <1>2, RankValues
      DEF SendLowHead, SendLowTail, SendHighHead, SendHighTail, SendSyn, Ahead, Rsts
    <2>3. CASE s = mpc
      <3>1. [rst |-> mpc, age |-> 0] \in flight'
        BY <2>1
      <3> QED
        BY <2>3, <3>1 DEF Abroad
    <2>4. CASE Ahead(s, mpc)
      BY <1>1, <2>1, <2>4 DEF Timed, Abroad, Waiting
    <2> QED
      BY <2>2, <2>3, <2>4
  <1>3. CASE Deliver
    <2>1. PICK p \in flight : Arrive(p)
      BY <1>3 DEF Deliver, Lose
    <2>2. /\ UNCHANGED <<stamp, mpc>> /\ flight' = flight \ {p}
          /\ rawbuf' = Append(rawbuf, p.rst)
      BY <1>3, <2>1 DEF Deliver, Arrive
    <2>3. /\ rawbuf'[Len(rawbuf) + 1] = p.rst /\ Len(rawbuf) + 1 \in 1..Len(rawbuf')
          /\ \A i \in 1..Len(rawbuf) : i \in 1..Len(rawbuf') /\ rawbuf'[i] = rawbuf[i]
      BY <2>2 DEF TypeOK
    <2>4. Abroad(s) => p.rst = s \/ Abroad(s)'
      BY <2>2 DEF Abroad
    <2>5. p.rst = s => Waiting(s)'
      BY <2>3 DEF Waiting
    <2>6. Waiting(s) => Waiting(s)'
      BY <2>3 DEF Waiting
    <2> QED
      BY <1>1, <2>2, <2>4, <2>5, <2>6 DEF Timed
  <1>4. CASE ReceiveOther
    <2>1. Taken /\ Head(rawbuf) # s /\ UNCHANGED <<stamp, flight, mpc>>
      BY <1>4 DEF ReceiveOther, ReceiveOtherAt, IsRst, Rsts
    <2> QED
      BY <1>1, <2>1, TakenKeeps DEF Timed, Abroad
  <1>5. CASE ReceiveRst
    <2>1. Taken /\ UNCHANGED <<flight, mpc>>
      BY <1>5 DEF ReceiveRst, ReceiveRstThen
    <2>2. Head(rawbuf) = Slot /\ (Timed(s)' <=> Timed(s) \/ s = Slot)
      BY <1>5, TakenIsSlot, ReceiveRstStamps
    <2> QED
      BY <1>1, <2>1, <2>2, TakenKeeps DEF Abroad
  <1>6. CASE Chat
    <2>1. rawbuf = <<>> /\ UNCHANGED <<stamp, flight, mpc>>
      BY <1>6 DEF Chat
    <2> QED
      BY <1>1, <2>1 DEF Timed, Abroad, Waiting
  <1>7. CASE Tick
    <2>1. UNCHANGED <<stamp, rawbuf, mpc>>
      BY <1>7 DEF Tick
    <2>2. Abroad(s) => Abroad(s)'
      <3>1. SUFFICES ASSUME NEW p \in flight, p.rst = s PROVE Abroad(s)'
        BY DEF Abroad
      <3>2. [p EXCEPT !.age = @ + 1] \in flight' /\ [p EXCEPT !.age = @ + 1].rst = s
        BY <1>7, <3>1 DEF Tick, TypeOK
      <3> QED
        BY <3>2 DEF Abroad
    <2> QED
      BY <1>1, <2>1, <2>2 DEF Timed, Waiting
  <1>8. CASE Begin \/ Test \/ UNCHANGED vars
    BY <1>1, <1>8 DEF Begin, Test, vars, Timed, Abroad, Waiting
  <1>9. CASE StartThread \/ ThreadNotCreated
    BY <1>9 DEF StartThread, ThreadNotCreated, TypeOK
  <1>10. CASE Join \/ MainFails \/ ReceiveFails \/ Conclude
    BY <1>10 DEF Join, MainFails, ReceiveFails, Conclude, ConcludeIf
  <1> QED
    BY <1>2, <1>3, <1>4, <1>5, <1>6, <1>7, <1>8, <1>9, <1>10 DEF Next, Main, Thread, Finished


\* What the next RST is due by is kept, or starts anew when one was timed.
LEMMA SlotDue ==
  ASSUME Timely, TypeOK, InOrder, Pace, Patient, ~lost, [Next]_vars,
         rpc \in {"begin", "test", "recv"}, rpc' \in {"test", "recv"}
  PROVE  Due(Slot, beg)'
  <1> USE DEF pathVars, mainVars, threadVars
  <1>1. Slot \in Rsts
    BY DEF Slot, Rsts
  <1>2. CASE Begin
    <2>1. PICK t \in Nat : t = now
      BY DEF TypeOK
    <2>2. Due(Slot, t)
      BY <1>1, <2>1, DueNow
    <2>3. beg' = t /\ Slot' = Slot /\ UNCHANGED <<now, mtimer, mpc, flight, rawbuf>>
      BY <1>2, <2>1 DEF Begin, Slot
    <2> QED
      BY <2>2, <2>3 DEF Due
  <1>3. CASE ReceiveRst
    <2>1. PICK t \in Nat : t = now
      BY DEF TypeOK
    <2>2. PICK s \in Rsts : s = Slot'
      BY DEF Slot, Rsts
    <2>3. Due(s, t)
      BY <2>1, DueNow
    <2>4. Due(s, t)'
      BY <1>3, <2>3, DueTaken DEF ReceiveRst, ReceiveRstThen
    <2>5. beg' = t
      BY <1>3, <2>1 DEF ReceiveRst, ReceiveRstThen
    <2> QED
      BY <2>2, <2>4, <2>5
  <1>4. CASE ~Begin /\ ~ReceiveRst
    <2>1. UNCHANGED <<tail, high_e_train, beg>>
      BY <1>4
      DEF Next, Main, Thread, Finished, StartThread, ThreadNotCreated, SendLowHead, SendLowTail,
          SendHighHead, SendHighTail, SendSyn, Join, MainFails, Test, ReceiveOther,
          ReceiveOtherAt, ReceiveFails, Deliver, Chat, Tick, Conclude, ConcludeIf, vars
    <2>2. rpc \in {"test", "recv"}
      BY <1>4
      DEF Next, Main, Thread, Finished, StartThread, ThreadNotCreated, SendLowHead, SendLowTail,
          SendHighHead, SendHighTail, SendSyn, Join, MainFails, Test, ReceiveOther,
          ReceiveOtherAt, Taken, ReceiveFails, Deliver, Chat, Tick, Conclude, ConcludeIf, vars
    <2>3. PICK s \in Rsts : s = Slot
      BY <1>1
    <2>4. PICK t \in Nat : t = beg
      BY DEF TypeOK
    <2>5. Due(s, t)
      BY <2>2, <2>3, <2>4 DEF Patient
    <2>6. \/ s = "low_head"
          \/ \E r \in Rsts : Rank[s] = Rank[r] + 1 /\ Timed(r) /\ stamp[r].rst = r
      <3>1. \A r \in Rsts : Rank[r] < Rank[s] => Timed(r) /\ stamp[r].rst = r
        BY <2>2, <2>3, SlotIsNext DEF Patient
      <3>2. s # "low_head" => \E r \in Rsts : Rank[s] = Rank[r] + 1
        BY RankValues DEF Rsts
      <3> QED
        BY <3>1, <3>2, RankTyped
    <2>7. mpc' = s => mpc = s
      BY <2>2, <2>6, NotAgain
    <2>8. Due(s, t)'
      BY <2>2, <2>5, <2>7, DueStep
    <2> QED
      BY <2>1, <2>3, <2>4, <2>8 DEF Slot
  <1> QED
    BY <1>2, <1>3, <1>4

LEMMA PatientStep ==
  Patience /\ Timely /\ TypeOK /\ InOrder /\ LoopExit /\ Pace /\ Instants /\ Patient
  /\ [Next]_vars => Patient'
  <1> SUFFICES ASSUME Patience, Timely, TypeOK, InOrder, LoopExit, Pace, Instants, Patient,
                      [Next]_vars, ~lost'
               PROVE  Patient'
    BY DEF Patient
  <1> USE DEF pathVars, mainVars, threadVars
  <1>1. ~lost
    BY DEF Next, Main, Thread, Finished, StartThread, ThreadNotCreated, SendLowHead, SendLowTail,
           SendHighHead, SendHighTail, SendSyn, Join, MainFails, Begin, Test, ReceiveOther,
           ReceiveOtherAt, ReceiveRst, ReceiveRstThen, ReceiveFails, Deliver, Arrive, Lose, Chat,
           Tick, Conclude, ConcludeIf, vars
  <1>2. ~Conclude => UNCHANGED result
    BY DEF Next, Main, Thread, Finished, StartThread, ThreadNotCreated, SendLowHead, SendLowTail,
           SendHighHead, SendHighTail, SendSyn, Join, MainFails, Begin, Test, ReceiveOther,
           ReceiveOtherAt, ReceiveRst, ReceiveRstThen, ReceiveFails, Deliver, Chat, Tick, vars
  <1>3. CASE StartThread
    <2>1. /\ \A s \in Rsts : ~Timed(s)
          /\ mpc' = "low_head" /\ rpc' = "begin" /\ UNCHANGED <<stamp, result>>
      BY <1>3, RankValues DEF StartThread, TypeOK, Rsts
    <2>2. \A s \in Rsts : ~Ahead(s, mpc')
      BY <2>1, RankValues DEF Ahead, Rsts
    <2> QED
      BY <1>1, <2>1, <2>2 DEF Patient, Timed
  <1>4. CASE Conclude
    <2>1. ~TimedOut /\ rpc' = "ended"
      BY <1>1, <1>4 DEF Conclude, ConcludeIf, LoopExit, Patient
    <2>2. result' # Insufficient
      BY <1>4, <2>1 DEF Conclude, ConcludeIf, Insufficient, Detected, Undetected
    <2> QED
      BY <2>1, <2>2 DEF Patient
  <1>5. CASE rpc' = "ended" /\ UNCHANGED result
    BY <1>1, <1>5 DEF Patient
  <1>6. CASE ~StartThread /\ ~Conclude /\ rpc' # "ended"
    <2>1. \/ rpc \in {"begin", "test", "recv"}
          \/ rpc' \in {"off", "result"} /\ UNCHANGED <<rpc, stamp>>
      <3>1. rpc \in {"off", "begin", "test", "recv", "result", "ended"}
        BY DEF TypeOK
      <3> QED
        BY <1>6, <3>1
        DEF Next, Main, Thread, Finished, ThreadNotCreated, SendLowHead, SendLowTail,
            SendHighHead, SendHighTail, SendSyn, Join, MainFails, Begin, Test, ReceiveOther,
            ReceiveOtherAt, ReceiveRst, ReceiveRstThen, Taken, ReceiveFails, Deliver, Chat,
            Tick, vars
    <2>2. CASE rpc' \in {"off", "result"} /\ UNCHANGED <<rpc, stamp>>
      BY <1>1, <1>2, <1>6, <2>2 DEF Patient, Timed
    <2>3. CASE rpc \in {"begin", "test", "recv"}
      <3>1. \A s \in Rsts : Timed(s)' => stamp'[s].rst = s
        <4>1. CASE ReceiveRst
          BY <1>1, <2>3, <4>1, ReceiveRstStamps, TakenIsSlot DEF Patient
        <4>2. CASE ~ReceiveRst
          <5>1. UNCHANGED stamp
            BY <1>6, <4>2
            DEF Next, Main, Thread, Finished, ThreadNotCreated, SendLowHead, SendLowTail,
                SendHighHead, SendHighTail, SendSyn, Join, MainFails, Begin, Test,
                ReceiveOther, ReceiveOtherAt, ReceiveFails, Deliver, Chat, Tick, vars
          <5> QED
            BY <1>1, <2>3, <5>1 DEF Patient, Timed
        <4> QED
          BY <4>1, <4>2
      <3>2. \A s \in Rsts : Ahead(s, mpc') => (Timed(s) \/ Abroad(s) \/ Waiting(s))'
        BY <1>1, <1>6, <2>3, NoneMissing
      <3>3. rpc' \in {"test", "recv"} => Due(Slot, beg)'
        BY <1>1, <2>3, SlotDue
      <3>4. rpc' = "result" => Timed("high_tail")'
        <4>1. SUFFICES ASSUME rpc' = "result" PROVE Timed("high_tail")'
          OBVIOUS
        <4>2. ~(Test /\ TimedOut)
          BY <1>1, NotTimedOut DEF Test
        <4>3. ReceiveRst /\ Slot = "high_tail"
          BY <1>6, <2>3, <4>1, <4>2
          DEF Next, Main, Thread, Finished, ThreadNotCreated, SendLowHead, SendLowTail,
              SendHighHead, SendHighTail, SendSyn, Join, MainFails, Begin, Test, ReceiveOther,
              ReceiveOtherAt, ReceiveRst, ReceiveRstThen, ReceiveFails, Deliver, Chat, Tick, vars
        <4> QED
          BY <4>3, ReceiveRstStamps
      <3> QED
        BY <1>1, <1>2, <1>6, <3>1, <3>2, <3>3, <3>4 DEF Patient
    <2> QED
      BY <2>1, <2>2, <2>3
  <1> QED
    BY <1>2, <1>3, <1>4, <1>5, <1>6

\* If the timeout outlasts the pause, and one train, each with a round trip,
\* and nothing is lost, the program never says that its information is
\* insufficient: though the timeout is cut to seconds, is looked at only when
\* a segment comes, and is shorter than the measurement.
THEOREM NothingCalledInsufficient == Timely /\ Spec => []NoFalseFailure
  <1> SUFFICES ASSUME Timely PROVE Spec => []NoFalseFailure
    OBVIOUS
  <1>1. CASE Patience
    <2>1. Spec => []InOrder
      BY RstsKeepOrder DEF Timely
    <2>2. TypeOK /\ InOrder /\ LoopExit /\ Pace /\ Instants /\ Patient /\ [Next]_vars
          => Patient'
      BY <1>1, PatientStep
    <2>3. Patient => NoFalseFailure
      BY DEF Patient, NoFalseFailure
    <2> QED
      BY <2>1, <2>2, <2>3, StandaloneTypeCorrect, LoopIsLeft, PaceInit, PaceStep,
         InstantsInit, InstantsStep, PatientInit, PTL DEF Spec
  <1>2. CASE ~Patience
    <2>1. NoFalseFailure
      BY <1>2 DEF NoFalseFailure
    <2> QED
      BY <2>1, PTL
  <1> QED
    BY <1>1, <1>2


=============================================================================
