-------------------------- MODULE RefinementProofs ---------------------------
(***************************************************************************)
(* One run of the client against one run of the server implements the      *)
(* abstract detector: proof that Understood is inductive, and that every   *)
(* step of the application is a step of the detector or none.              *)
(***************************************************************************)
EXTENDS Refinement, CooperativeProofs

\* There are two connections, and the client uses one in each phase.
LEMMA TwoConnections ==
  ASSUME OneMeasurement, TypeOK
  PROVE  /\ ConnIds = {Question, Answer} /\ Question # Answer
         /\ conns[Question] \in Connections /\ conns[Answer] \in Connections
         /\ cpc # "idle" => crun = 1 /\ Pre = Question /\ Post = Answer
  <1>1. Runs = {1}
    BY DEF OneMeasurement, Runs
  <1>2. ConnIds = {Question, Answer} /\ Question # Answer
    BY <1>1 DEF ConnIds, Phases, Question, Answer
  <1>3. conns \in [ConnIds -> Connections]
    BY DEF TypeOK, NetworkTypeOK
  <1>4. ASSUME cpc # "idle" PROVE crun = 1 /\ Pre = Question /\ Post = Answer
    <2>1. crun \in Runs
      BY <1>4, RunningClient DEF TypeOK
    <2> QED
      BY <1>1, <2>1 DEF Pre, Post, Question, Answer
  <1> QED
    BY <1>2, <1>3, <1>4

LEMMA UnderstoodInit == OneMeasurement /\ Init => Understood
  <1> SUFFICES ASSUME OneMeasurement, Init PROVE Understood
    OBVIOUS
  <1> USE DEF Init, NetworkInit, ClientInit, ServerInit
  <1>1. TypeOK
    BY TypeInit
  <1>2. \A c \in ConnIds : conns[c].server = "none" /\ conns[c].toClient = <<>>
    OBVIOUS
  <1>3. Answer \in ConnIds
    BY <1>1, TwoConnections
  <1> QED
    BY <1>2, <1>3
    DEF Understood, Fresh, QuestionFirst, OneAccepted, AnswerIsVerdict,
        PrintedIsVerdict, Accepted

-----------------------------------------------------------------------------
(***************************************************************************)
(* The server's steps.                                                     *)
(***************************************************************************)

\* A step that leaves the connections and the verdict alone, taken where no
\* accepted connection is in use.
LEMMA AloneUnderstands ==
  ASSUME Understood, UNCHANGED <<conns, verdict, sboot, clientVars>>,
         spc' \notin {"off", "listen1", "accept1"},
         spc \notin {"off", "recv", "parse", "send", "close", "done"}
  PROVE  Understood'
  <1> USE DEF Understood, clientVars
  <1>1. Fresh' /\ QuestionFirst'
    BY DEF Fresh, QuestionFirst
  <1>2. OneAccepted'
    BY DEF OneAccepted, Accepted
  <1>3. ~Accepted(Answer) /\ conns[Answer].toClient = <<>> /\ printed = <<>>
    BY DEF OneAccepted, AnswerIsVerdict, PrintedIsVerdict
  <1>4. AnswerIsVerdict'
    BY <1>3 DEF AnswerIsVerdict, Accepted
  <1>5. PrintedIsVerdict'
    BY <1>3 DEF PrintedIsVerdict
  <1> QED
    BY <1>1, <1>2, <1>4, <1>5

LEMMA Listen1Understands ==
  ASSUME Understood, UNCHANGED clientVars, Listen1
  PROVE  Understood'
  BY DEF Understood, Listen1, Listen, OpenListener, Fresh, QuestionFirst,
         OneAccepted, AnswerIsVerdict, PrintedIsVerdict, Accepted, clientVars

LEMMA AcceptUnderstands ==
  ASSUME OneMeasurement, TypeOK, Understood, UNCHANGED clientVars,
         Accept1 \/ Accept2
  PROVE  Understood'
  <1> USE DEF Accept1, Accept2, AcceptNext, clientVars, Understood
  <1>1. PICK c \in ConnIds : Accept(c)
    OBVIOUS
  <1>2. /\ \A d \in ConnIds \ {c} : conns'[d] = conns[d]
        /\ conns'[c].server = "accepted"
        /\ \A d \in ConnIds : conns'[d].toClient = conns[d].toClient
        /\ backlog # <<>> /\ c = Head(backlog)
    BY <1>1 DEF Accept, TypeOK, NetworkTypeOK, Connections
  <1>3. \A d \in ConnIds : Accepted(d)' <=> d = c
    BY <1>2 DEF OneAccepted, Accepted
  <1>4. spc = "accept1" => c = Question
    BY <1>2 DEF QuestionFirst
  <1>5. Answer \in ConnIds /\ Question # Answer
    BY TwoConnections
  <1>6. conns'[Answer].server = "closed" => conns[Answer].server = "closed"
    BY <1>2, <1>5
  <1>7. OneAccepted'
    BY <1>3, <1>4, <1>5 DEF OneAccepted
  <1>8. AnswerIsVerdict'
    BY <1>2, <1>5, <1>6 DEF AnswerIsVerdict
  <1> QED
    BY <1>7, <1>8 DEF Fresh, QuestionFirst, PrintedIsVerdict

LEMMA ReceiveConfigUnderstands ==
  ASSUME OneMeasurement, TypeOK, Understood, UNCHANGED clientVars, ReceiveConfig
  PROVE  Understood'
  <1> USE DEF ReceiveConfig, clientVars, Understood
  <1>1. \A d \in ConnIds : /\ conns'[d].server = conns[d].server
                           /\ conns'[d].toClient = conns[d].toClient
    BY DEF TypeOK, NetworkTypeOK, Connections
  <1>2. Answer \in ConnIds
    BY TwoConnections
  <1>3. OneAccepted'
    BY <1>1, <1>2 DEF OneAccepted, Accepted
  <1> QED
    BY <1>1, <1>2, <1>3
    DEF Fresh, QuestionFirst, AnswerIsVerdict, PrintedIsVerdict, Accepted

\* Closing the sockets leaves no connection accepted, and closes in an orderly
\* way only what was accepted.
LEMMA HangUpEnds ==
  ASSUME TypeOK, ServerHangUp
  PROVE  /\ \A c \in ConnIds : ~Accepted(c)'
         /\ \A c \in ConnIds : conns'[c].toClient = conns[c].toClient
         /\ \A c \in ConnIds : conns'[c].server = "closed" =>
                                 Accepted(c) \/ conns[c].server = "closed"
  <1>1. \A c \in ConnIds : conns[c] \in Connections
    BY DEF TypeOK, NetworkTypeOK
  <1> QED
    BY <1>1 DEF ServerHangUp, Accepted, Connections

LEMMA CloseAndParseUnderstands ==
  ASSUME OneMeasurement, TypeOK, Understood, UNCHANGED clientVars, CloseAndParse
  PROVE  Understood'
  <1> USE DEF CloseAndParse, CloseThen, clientVars, Understood
  <1>1. Answer \in ConnIds
    BY TwoConnections
  <1>2. OneAccepted'
    BY <1>1, HangUpEnds DEF OneAccepted
  <1>3. AnswerIsVerdict'
    BY <1>1, HangUpEnds DEF AnswerIsVerdict, OneAccepted
  <1> QED
    BY <1>2, <1>3 DEF Fresh, QuestionFirst, PrintedIsVerdict

LEMMA SendVerdictUnderstands ==
  ASSUME OneMeasurement, TypeOK, Understood, UNCHANGED clientVars, SendVerdict
  PROVE  Understood'
  <1> USE DEF SendVerdict, clientVars, Understood
  <1> DEFINE msg == [text |-> verdict, sess |-> sess,
                     from |-> {s.run : s \in win["low"].from \cup win["high"].from}]
  <1>1. PICK c \in ConnIds : /\ Accepted(c)
                             /\ conns' = [conns EXCEPT ![c].toClient = <<msg>>]
    OBVIOUS
  <1>2. msg.text = verdict
    OBVIOUS
  <1> HIDE DEF msg
  <1>3. /\ \A d \in ConnIds : conns'[d].server = conns[d].server
        /\ \A d \in ConnIds \ {c} : conns'[d] = conns[d]
        /\ conns'[c].toClient = <<msg>>
    BY <1>1 DEF TypeOK, NetworkTypeOK, Connections
  <1>4. <<msg>> # <<>> /\ <<msg>>[1] = msg
    OBVIOUS
  <1>5. Answer \in ConnIds
    BY TwoConnections
  <1>6. Accepted(Answer) => Answer = c
    BY <1>1, <1>5 DEF OneAccepted
  <1>7. OneAccepted'
    BY <1>3, <1>5 DEF OneAccepted, Accepted
  <1>8. AnswerIsVerdict'
    BY <1>2, <1>3, <1>4, <1>5, <1>6 DEF AnswerIsVerdict, Accepted
  <1> QED
    BY <1>7, <1>8 DEF Fresh, QuestionFirst, PrintedIsVerdict

LEMMA CloseServerUnderstands ==
  ASSUME OneMeasurement, TypeOK, Understood, UNCHANGED clientVars, CloseServer
  PROVE  Understood'
  <1> USE DEF CloseServer, ServerExit, clientVars, Understood
  <1>1. Answer \in ConnIds
    BY TwoConnections
  <1>2. OneAccepted'
    BY <1>1, HangUpEnds DEF OneAccepted
  <1>3. AnswerIsVerdict'
    BY <1>1, HangUpEnds DEF AnswerIsVerdict
  <1> QED
    BY <1>2, <1>3 DEF Fresh, QuestionFirst, PrintedIsVerdict

LEMMA JudgeUnderstands ==
  ASSUME Understood, UNCHANGED clientVars, Judge
  PROVE  Understood'
  <1> USE DEF Judge, clientVars, tcpVars, Understood
  <1>1. OneAccepted'
    BY DEF OneAccepted, Accepted
  <1> QED
    BY <1>1 DEF Fresh, QuestionFirst, AnswerIsVerdict, PrintedIsVerdict, Accepted

LEMMA ServerStepUnderstands ==
  ASSUME OneMeasurement, TypeOK, Understood, UNCHANGED clientVars, ServerStep
  PROVE  Understood'
  <1>1. CASE Listen1
    BY <1>1, Listen1Understands
  <1>2. CASE Listen2
    BY <1>2, AloneUnderstands DEF Listen2, Listen, OpenListener
  <1>3. CASE Accept1 \/ Accept2
    BY <1>3, AcceptUnderstands
  <1>4. CASE ReceiveConfig
    BY <1>4, ReceiveConfigUnderstands
  <1>5. CASE CloseAndParse
    BY <1>5, CloseAndParseUnderstands
  <1>6. CASE Bind
    BY <1>6, AloneUnderstands DEF Bind, tcpVars
  <1>7. ASSUME NEW loop \in Trains, ReceiveDatagram(loop) \/ TimeOut(loop)
        PROVE  Understood'
    BY <1>7, AloneUnderstands
    DEF ReceiveDatagram, ReceiveUpTo, TimeOut, TimeOutThen, LeaveLoop, tcpVars, Trains
  <1>8. CASE Judge
    BY <1>8, JudgeUnderstands
  <1>9. CASE SendVerdict
    BY <1>9, SendVerdictUnderstands
  <1>10. CASE CloseServer
    BY <1>10, CloseServerUnderstands
  <1> QED
    BY <1>1, <1>2, <1>3, <1>4, <1>5, <1>6, <1>7, <1>8, <1>9, <1>10 DEF ServerStep

-----------------------------------------------------------------------------
(***************************************************************************)
(* The client's steps.                                                     *)
(***************************************************************************)

\* What the invariant reads of a connection the client does not touch.
LEMMA ServerEndKept ==
  ASSUME TypeOK, Understood, UNCHANGED <<spc, sboot, verdict>>, cpc # "idle",
         Answer \in ConnIds,
         \A c \in ConnIds : /\ conns'[c].server = conns[c].server
                            /\ conns'[c].toClient = conns[c].toClient
  PROVE  /\ OneAccepted' /\ AnswerIsVerdict'
         /\ UNCHANGED backlog => Fresh'
  <1>1. spc \notin {"off", "listen1"}
    BY DEF Understood, Fresh
  <1>2. OneAccepted'
    BY DEF Understood, OneAccepted, Accepted
  <1>3. AnswerIsVerdict'
    BY DEF Understood, AnswerIsVerdict, Accepted
  <1> QED
    BY <1>1, <1>2, <1>3 DEF Understood, Fresh

LEMMA ClientHangUpKeeps ==
  ASSUME TypeOK, ClientHangUp
  PROVE  \A c \in ConnIds : /\ conns'[c].server = conns[c].server
                            /\ conns'[c].toClient = conns[c].toClient
  BY DEF ClientHangUp, TypeOK, NetworkTypeOK, Connections

LEMMA StartClientUnderstands ==
  ASSUME OneMeasurement, TypeOK, Understood, RunClient
  PROVE  Understood' /\ cpc = "idle" /\ printed = <<>>
  <1> USE DEF RunClient, StartClient, ServerUp, ServerStopped, Understood,
              tcpVars, serverVars
  <1>1. cpc = "idle"
    <2>1. cpc # "idle" => crun = 1
      BY TwoConnections
    <2>2. crun < 1
      BY DEF OneMeasurement
    <2> QED
      BY <2>1, <2>2
  <1>2. printed = <<>>
    BY <1>1 DEF PrintedIsVerdict
  <1>3. OneAccepted' /\ AnswerIsVerdict'
    BY DEF OneAccepted, AnswerIsVerdict, Accepted
  <1>4. QuestionFirst'
    BY DEF QuestionFirst
  <1> QED
    BY <1>1, <1>2, <1>3, <1>4 DEF Fresh, PrintedIsVerdict

\* A run that ends without a verdict has shown nothing.
LEMMA ClientFailsUnderstands ==
  ASSUME OneMeasurement, TypeOK, Understood, UNCHANGED <<serverVars, printed>>,
         cpc \notin {"idle", "done"}, ClientExit("failed")
  PROVE  Understood'
  <1> USE DEF ClientExit, serverVars
  <1>1. Answer \in ConnIds
    BY TwoConnections
  <1>2. OneAccepted' /\ AnswerIsVerdict' /\ Fresh'
    BY <1>1, ServerEndKept, ClientHangUpKeeps
  <1>3. QuestionFirst' /\ PrintedIsVerdict'
    BY DEF Understood, QuestionFirst, PrintedIsVerdict
  <1> QED
    BY <1>2, <1>3 DEF Understood

\* A second connection never overtakes the first in the accept queue.
LEMMA DialUnderstands ==
  ASSUME OneMeasurement, TypeOK, Understood, UNCHANGED <<serverVars, printed>>,
         \/ Dial(Pre) /\ cpc = "connect1" /\ cpc' = "send"
         \/ Dial(Post) /\ cpc = "connect2" /\ cpc' = "recv"
  PROVE  Understood'
  <1> USE DEF serverVars
  <1>1. PICK c \in ConnIds :
           Dial(c) /\ (c = Question \/ (c = Answer /\ cpc = "connect2"))
    <2>1. cpc # "idle" => Pre = Question /\ Post = Answer
      BY TwoConnections
    <2>2. Question \in ConnIds /\ Answer \in ConnIds
      BY TwoConnections
    <2> QED
      BY <2>1, <2>2
  <1>2. Answer \in ConnIds /\ conns \in [ConnIds -> Connections]
    BY TwoConnections DEF TypeOK, NetworkTypeOK
  <1>3. /\ \A d \in ConnIds : Accepted(d)' => Accepted(d)
        /\ \A d \in ConnIds : conns'[d].toClient = conns[d].toClient
        /\ \A d \in ConnIds : conns'[d].server = "closed" =>
                                conns[d].server = "closed"
    BY <1>1, <1>2 DEF Dial, Accepted, Connections
  <1>4. OneAccepted' /\ AnswerIsVerdict'
    BY <1>2, <1>3 DEF Understood, OneAccepted, AnswerIsVerdict
  <1>5. Fresh' /\ PrintedIsVerdict'
    BY DEF Understood, Fresh, PrintedIsVerdict
  <1>6. QuestionFirst'
    <2>1. backlog \in Seq(ConnIds) /\ backlog' = Append(backlog, c)
      BY <1>1 DEF Dial, TypeOK, NetworkTypeOK
    <2>2. CASE backlog = <<>>
      <3>1. backlog' = <<c>>
        BY <2>1, <2>2
      <3>2. Head(backlog') = c /\ backlog' # <<>>
        BY <3>1
      <3>3. spc = "accept1" => c = Question
        BY <1>1, <2>2 DEF Understood, QuestionFirst
      <3> QED
        BY <3>2, <3>3 DEF QuestionFirst
    <2>3. CASE backlog # <<>>
      <3>1. backlog' # <<>> /\ Head(backlog') = Head(backlog)
        BY <2>1, <2>3
      <3> QED
        BY <2>3, <3>1 DEF Understood, QuestionFirst
    <2> QED
      BY <2>2, <2>3
  <1> QED
    BY <1>4, <1>5, <1>6 DEF Understood

\* The other steps before the verdict is read: the server's ends stay as they
\* are, and the client has dialled already.
LEMMA BetweenUnderstands ==
  ASSUME OneMeasurement, TypeOK, Understood,
         UNCHANGED <<serverVars, printed, backlog>>,
         cpc \in {"send", "close", "low", "high"}, cpc' # "idle",
         \A c \in ConnIds : /\ conns'[c].server = conns[c].server
                            /\ conns'[c].toClient = conns[c].toClient
  PROVE  Understood'
  <1> USE DEF serverVars
  <1>1. Answer \in ConnIds
    BY TwoConnections
  <1>2. OneAccepted' /\ AnswerIsVerdict' /\ Fresh'
    BY <1>1, ServerEndKept
  <1>3. QuestionFirst' /\ PrintedIsVerdict'
    BY DEF Understood, QuestionFirst, PrintedIsVerdict
  <1> QED
    BY <1>2, <1>3 DEF Understood

\* The user reads the server's verdict, or nothing: the connection is closed
\* in an orderly way only after the verdict was sent on it.
LEMMA ReceiveVerdictUnderstands ==
  ASSUME OneMeasurement, TypeOK, Understood, UNCHANGED serverVars, ReceiveVerdict
  PROVE  /\ Understood'
         /\ \/ UNCHANGED printed
            \/ /\ printed = <<>> /\ printed' # <<>>
               /\ spc \in {"close", "done"} /\ printed'[1].text = verdict
  <1> USE DEF ReceiveVerdict, serverVars
  <1>1. Post = Answer /\ Answer \in ConnIds
    BY TwoConnections
  <1>2. printed = <<>>
    BY DEF Understood, PrintedIsVerdict
  <1>3. CASE UNCHANGED printed /\ ClientExit("failed")
    BY <1>3, ClientFailsUnderstands
  <1>4. CASE /\ conns[Answer].toClient # <<>>
             /\ printed' = conns[Answer].toClient
             /\ ClientExit("done")
    <2>1. spc \in {"close", "done"} /\ printed'[1].text = verdict /\ printed' # <<>>
      BY <1>4 DEF Understood, AnswerIsVerdict
    <2>2. cpc' = "done" /\ UNCHANGED backlog
      BY <1>4 DEF ClientExit
    <2>3. OneAccepted' /\ AnswerIsVerdict' /\ Fresh'
      BY <1>1, <1>4, <2>2, ServerEndKept, ClientHangUpKeeps DEF ClientExit
    <2>4. QuestionFirst' /\ PrintedIsVerdict'
      BY <2>1, <2>2 DEF QuestionFirst, PrintedIsVerdict
    <2> QED
      BY <1>2, <2>1, <2>3, <2>4 DEF Understood
  <1>5. ~(conns[Answer].toClient = <<>> /\ conns[Answer].server = "closed")
    BY DEF Understood, AnswerIsVerdict
  <1> QED
    BY <1>1, <1>3, <1>4, <1>5

LEMMA ClientStepUnderstands ==
  ASSUME OneMeasurement, TypeOK, Understood, UNCHANGED serverVars, ClientStep
  PROVE  Understood'
  <1>1. CASE Connect1 \/ Connect2
    BY <1>1, DialUnderstands, ClientFailsUnderstands
    DEF Connect1, Connect2, Connect
  <1>2. CASE SendConfig
    <2>1. CASE ClientExit("failed")
      BY <1>2, <2>1, ClientFailsUnderstands DEF SendConfig
    <2>2. CASE ~ClientExit("failed")
      <3>1. \A c \in ConnIds : /\ conns'[c].server = conns[c].server
                               /\ conns'[c].toClient = conns[c].toClient
        <4>1. \/ UNCHANGED conns
              \/ conns' = [conns EXCEPT ![Pre].toServer = <<crun>>]
          BY <1>2, <2>2 DEF SendConfig
        <4>2. conns \in [ConnIds -> Connections]
          BY DEF TypeOK, NetworkTypeOK
        <4>3. CASE conns' = [conns EXCEPT ![Pre].toServer = <<crun>>]
          <5>1. TAKE c \in ConnIds
          <5>2. conns[c] \in Connections
            BY <4>2
          <5>3. conns'[c] = IF c = Pre THEN [conns[c] EXCEPT !.toServer = <<crun>>]
                                       ELSE conns[c]
            BY <4>2, <4>3
          <5> HIDE <4>3
          <5> QED
            BY <5>2, <5>3 DEF Connections
        <4> QED
          BY <4>1, <4>3
      <3> QED
        BY <1>2, <2>2, <3>1, BetweenUnderstands DEF SendConfig
    <2> QED
      BY <2>1, <2>2
  <1>3. CASE CloseConfig
    BY <1>3, ClientHangUpKeeps, BetweenUnderstands DEF CloseConfig, CloseAndSleep
  <1>4. CASE SendLow \/ SendHigh
    BY <1>4, BetweenUnderstands DEF SendLow, SendHigh, SendTrain, tcpVars
  <1>5. CASE ReceiveVerdict
    BY <1>5, ReceiveVerdictUnderstands
  <1> QED
    BY <1>1, <1>2, <1>3, <1>4, <1>5 DEF ClientStep

-----------------------------------------------------------------------------
(***************************************************************************)
(* The invariant.                                                          *)
(***************************************************************************)

LEMMA UnderstoodStep ==
  OneMeasurement /\ TypeOK /\ Understood /\ [Next]_vars => Understood'
  <1> SUFFICES ASSUME OneMeasurement, TypeOK, Understood, [Next]_vars
               PROVE  Understood'
    OBVIOUS
  <1>1. CASE RunServer
    <2>1. sboot = 0 /\ spc = "off"
      BY <1>1 DEF RunServer, StartServer, OneMeasurement, TypeOK, ServerTypeOK,
                  Understood, Fresh
    <2> QED
      BY <1>1, <2>1
      DEF RunServer, StartServer, Understood, Fresh, QuestionFirst, OneAccepted,
          AnswerIsVerdict, PrintedIsVerdict, Accepted, tcpVars, clientVars
  <1>2. CASE RunClient
    BY <1>2, StartClientUnderstands
  <1>3. CASE ClientNext
    BY <1>3, ClientStepUnderstands DEF ClientNext
  <1>4. CASE ServerNext
    BY <1>4, ServerStepUnderstands DEF ServerNext
  <1>5. CASE UNCHANGED <<tcpVars, clientVars, serverVars>>
    BY <1>5
    DEF Understood, Fresh, QuestionFirst, OneAccepted, AnswerIsVerdict,
        PrintedIsVerdict, Accepted, tcpVars, clientVars, serverVars
  <1>6. CASE Deliver \/ Duplicate \/ Tick
    BY <1>5, <1>6 DEF Deliver, Duplicate, Tick
  <1>7. CASE Abort
    BY <1>7 DEF Abort, ClientAbort, ServerAbort, OneMeasurement
  <1>8. CASE UNCHANGED vars
    BY <1>5, <1>8 DEF vars
  <1> QED
    BY <1>1, <1>2, <1>3, <1>4, <1>6, <1>7, <1>8 DEF Next, Finished

-----------------------------------------------------------------------------
(***************************************************************************)
(* The refinement.                                                         *)
(***************************************************************************)

LEMMA InitRefines == Init => Detector!Init
  BY DEF Init, NetworkInit, ClientInit, ServerInit, Detector!Init, Stage, Shown, Judged

\* A step that neither moves the server nor prints leaves the detector alone.
LEMMA StutterRefines ==
  ASSUME UNCHANGED <<spc, verdict, printed>>
  PROVE  UNCHANGED Detector!vars
  BY DEF Detector!vars, Stage, Shown, Judged

\* Until the verdict is sent nothing is shown, and the server alone moves the
\* detector: probing is its two measurements, the calculation its decision.
LEMMA ServerStepRefines ==
  ASSUME Understood, TypeOK, UNCHANGED clientVars, ServerStep
  PROVE  Detector!Next \/ UNCHANGED Detector!vars
  <1> USE DEF clientVars
  <1>1. spc \notin {"close", "done"} => printed = <<>> /\ Shown = "none" /\ Shown' = "none"
    BY DEF Understood, PrintedIsVerdict, Shown
  <1>2. Shown' = IF printed = <<>> THEN "none" ELSE printed[1].text
    BY DEF Shown
  <1>3. CASE \/ Listen1 \/ Accept1 \/ ReceiveConfig \/ CloseAndParse
             \/ Listen2 \/ Accept2 \/ SendVerdict
    <2>1. /\ spc \notin {"close", "done"} /\ UNCHANGED verdict
          /\ \/ /\ spc \in {"listen1", "accept1", "recv", "parse"}
                /\ spc' \in {"accept1", "recv", "parse", "bind", "failed"}
             \/ /\ spc \in {"listen2", "accept2", "send"}
                /\ spc' \in {"accept2", "send", "close"}
      BY <1>3
      DEF Listen1, Listen2, Listen, Accept1, Accept2, AcceptNext, ReceiveConfig,
          CloseAndParse, CloseThen, SendVerdict
    <2>2. Stage' = Stage
      BY <1>1, <2>1 DEF Stage, Judged
    <2> QED
      BY <1>1, <2>1, <2>2 DEF Detector!vars
  <1>4. CASE Bind
    <2>1. Stage = "idle" /\ Stage' = "low"
      BY <1>1, <1>4 DEF Bind, Stage, Judged
    <2> QED
      BY <1>1, <1>4, <2>1 DEF Bind, Detector!Next, Detector!Start
  <1>5. ASSUME NEW loop \in Trains, ReceiveDatagram(loop) \/ TimeOut(loop)
        PROVE  Detector!Next \/ UNCHANGED Detector!vars
    <2>1. /\ UNCHANGED verdict
          /\ \/ spc \in {"low", "high"} /\ UNCHANGED spc
             \/ spc = "low" /\ spc' = "high"
             \/ spc = "high" /\ spc' = "judge"
      BY <1>5
      DEF ReceiveDatagram, ReceiveUpTo, TimeOut, TimeOutThen, LeaveLoop, Trains
    <2>2. CASE UNCHANGED spc
      BY <2>1, <2>2, StutterRefines
    <2>3. CASE spc = "low" /\ spc' = "high"
      <3>1. Stage = "low" /\ Stage' = "high"
        BY <1>1, <2>3 DEF Stage, Judged
      <3> QED
        BY <1>1, <2>1, <2>3, <3>1 DEF Detector!Next, Detector!MeasureLow
    <2>4. CASE spc = "high" /\ spc' = "judge"
      <3>1. Stage = "high" /\ Stage' = "measured"
        BY <1>1, <2>4 DEF Stage, Judged
      <3> QED
        BY <1>1, <2>1, <2>4, <3>1 DEF Detector!Next, Detector!MeasureHigh
    <2> QED
      BY <2>1, <2>2, <2>3, <2>4
  <1>6. CASE Judge
    <2>1. Stage = "measured" /\ Stage' = "decided"
      BY <1>1, <1>6 DEF Judge, Stage, Judged
    <2>2. verdict' \in Verdicts
      BY <1>6 DEF Judge, Outcomes, Verdicts
    <2> QED
      BY <1>1, <1>6, <2>1, <2>2 DEF Judge, Detector!Next, Detector!Decide
  <1>7. CASE CloseServer
    <2>1. spc = "close" /\ spc' = "done" /\ UNCHANGED verdict
      BY <1>7 DEF CloseServer, ServerExit
    <2> QED
      BY <2>1 DEF Detector!vars, Stage, Shown, Judged
  <1> QED
    BY <1>3, <1>4, <1>5, <1>6, <1>7 DEF ServerStep

LEMMA ClientStepRefines ==
  ASSUME OneMeasurement, TypeOK, Understood, UNCHANGED serverVars, ClientStep
  PROVE  Detector!Next \/ UNCHANGED Detector!vars
  <1> USE DEF serverVars
  <1>1. CASE UNCHANGED printed
    BY <1>1, StutterRefines
  <1>2. CASE ReceiveVerdict /\ ~UNCHANGED printed
    <2>1. /\ printed = <<>> /\ printed' # <<>>
          /\ spc \in {"close", "done"} /\ printed'[1].text = verdict
      BY <1>2, ReceiveVerdictUnderstands
    <2>2. Stage = "decided" /\ Stage' = "shown" /\ Shown' = verdict
      BY <2>1 DEF Stage, Judged, Shown
    <2> QED
      BY <2>2 DEF Detector!Next, Detector!Show
  <1>3. ReceiveVerdict \/ UNCHANGED printed
    BY DEF ClientStep, Connect1, SendConfig, CloseConfig, CloseAndSleep, SendLow,
           SendHigh, SendTrain, Connect2, Connect
  <1> QED
    BY <1>1, <1>2, <1>3

LEMMA StepRefines ==
  OneMeasurement /\ TypeOK /\ Understood /\ [Next]_vars
    => [Detector!Next]_(Detector!vars)
  <1> SUFFICES ASSUME OneMeasurement, TypeOK, Understood, [Next]_vars
               PROVE  Detector!Next \/ UNCHANGED Detector!vars
    OBVIOUS
  <1>1. CASE RunServer
    <2>1. /\ spc = "off" /\ spc' = "listen1" /\ printed = <<>> /\ printed' = <<>>
          /\ verdict = "none" /\ verdict' = "none"
      BY <1>1 DEF RunServer, StartServer, OneMeasurement, TypeOK, ServerTypeOK,
                  Understood, Fresh, PrintedIsVerdict, clientVars
    <2> QED
      BY <2>1 DEF Detector!vars, Stage, Shown, Judged
  <1>2. CASE RunClient
    <2>1. printed = <<>> /\ printed' = <<>> /\ UNCHANGED <<spc, verdict>>
      BY <1>2, StartClientUnderstands DEF RunClient, StartClient, serverVars
    <2> QED
      BY <2>1, StutterRefines
  <1>3. CASE ClientNext
    BY <1>3, ClientStepRefines DEF ClientNext
  <1>4. CASE ServerNext
    BY <1>4, ServerStepRefines DEF ServerNext
  <1>5. CASE Deliver \/ Duplicate \/ Tick \/ UNCHANGED vars
    BY <1>5, StutterRefines
    DEF Deliver, Duplicate, Tick, vars, clientVars, serverVars
  <1>6. CASE Abort
    BY <1>6 DEF Abort, ClientAbort, ServerAbort, OneMeasurement
  <1> QED
    BY <1>1, <1>2, <1>3, <1>4, <1>5, <1>6 DEF Next, Finished

\* The programs understand each other: on the second connection, the verdict
\* goes to the client that dialled for it, and it is the verdict of this
\* measurement.  The refinement rests on this invariant.
THEOREM ProgramsUnderstand == OneMeasurement /\ Spec => []Understood
  <1> SUFFICES ASSUME OneMeasurement PROVE Spec => []Understood
    OBVIOUS
  <1>1. Init => Understood
    BY UnderstoodInit
  <1>2. TypeOK /\ Understood /\ [Next]_vars => Understood'
    BY UnderstoodStep
  <1> QED
    BY <1>1, <1>2, TypeCorrect, PTL DEF Spec

\* One run of the client against one run of the server, with no failing call,
\* measures the trains in order, decides once, and shows the user what was
\* decided: however slow either program is, whatever the path loses, delays or
\* duplicates, and whatever udp_timeout and inter_measurement_time are.
THEOREM CooperativeImplementsDetector == OneMeasurement /\ Spec => ImplementsDetector
  <1> SUFFICES ASSUME OneMeasurement PROVE Spec => ImplementsDetector
    OBVIOUS
  <1>1. Init => Understood
    BY UnderstoodInit
  <1>2. TypeOK /\ Understood /\ [Next]_vars => Understood'
    BY UnderstoodStep
  <1>3. TypeOK /\ Understood /\ [Next]_vars => [Detector!Next]_(Detector!vars)
    BY StepRefines
  <1> QED
    BY <1>1, <1>2, <1>3, InitRefines, TypeCorrect, PTL
    DEF Spec, ImplementsDetector, Detector!Spec

=============================================================================
