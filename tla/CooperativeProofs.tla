-------------------------- MODULE CooperativeProofs --------------------------
(***************************************************************************)
(* Theorems about the cooperative application, for every value of the      *)
(* constants.                                                              *)
(***************************************************************************)
EXTENDS Cooperative, TLAPS

\* The initial state is typed.
LEMMA TypeInit == Init => TypeOK
  <1>1. SUFFICES ASSUME Init PROVE TypeOK
    OBVIOUS
  <1>2. NetworkTypeOK
    <2>1. <<>> \in Seq(ConnIds) /\ <<>> \in Seq(Sources)
      OBVIOUS
    <2>2. conns \in [ConnIds -> Connections]
      <3>1. <<>> \in Seq(Runs) /\ <<>> \in Seq(Messages)
        OBVIOUS
      <3> QED
        BY <1>1, <3>1 DEF Init, NetworkInit, Connections
    <2> QED
      BY <1>1, <2>1, <2>2 DEF Init, NetworkInit, NetworkTypeOK
  <1>3. ClientTypeOK
    BY <1>1, NetworkAssumption DEF Init, ClientInit, ClientTypeOK, ClientPcs
  <1>4. ServerTypeOK
    <2>1. Unmeasured \in Windows
      BY NetworkAssumption DEF Unmeasured, Windows
    <2>2. win \in [Trains -> Windows]
      BY <1>1, <2>1 DEF Init, ServerInit
    <2> QED
      BY <1>1, <2>2, NetworkAssumption, ServerAssumption
      DEF Init, ServerInit, ServerTypeOK, ServerPcs
  <1> QED
    BY <1>2, <1>3, <1>4 DEF TypeOK

\* Dialling, and either end of a connection being closed, keep conns a
\* function from connection names to connections.
LEMMA DialTyped ==
  ASSUME conns \in [ConnIds -> Connections], backlog \in Seq(ConnIds),
         NEW c \in ConnIds, Dial(c)
  PROVE  conns' \in [ConnIds -> Connections] /\ backlog' \in Seq(ConnIds)
  <1>1. backlog' \in Seq(ConnIds)
    BY DEF Dial
  <1>2. conns[c] \in Connections
    OBVIOUS
  <1>3. [conns[c] EXCEPT !.client = "open", !.server = "queued"] \in Connections
    BY <1>2 DEF Connections
  <1> QED
    BY <1>1, <1>3 DEF Dial

LEMMA ClientHangUpTyped ==
  ASSUME conns \in [ConnIds -> Connections], ClientHangUp
  PROVE  conns' \in [ConnIds -> Connections]
  BY DEF ClientHangUp, Connections

LEMMA ServerHangUpTyped ==
  ASSUME conns \in [ConnIds -> Connections], ServerHangUp
  PROVE  /\ conns' \in [ConnIds -> Connections]
         /\ backlog' \in Seq(ConnIds)
         /\ listening' \in BOOLEAN
  <1>1. conns' \in [ConnIds -> Connections]
    BY DEF ServerHangUp, Connections, Accepted
  <1>2. <<>> \in Seq(ConnIds)
    OBVIOUS
  <1> QED
    BY <1>1, <1>2 DEF ServerHangUp

\* A running client has a run number, and so its connections have names.
LEMMA RunningClient ==
  ASSUME ClientTypeOK, cpc # "idle"
  PROVE  crun \in Runs /\ Pre \in ConnIds /\ Post \in ConnIds
  <1>1. crun \in Runs
    BY NetworkAssumption DEF ClientTypeOK, Runs
  <1> QED
    BY <1>1 DEF Pre, Post, ConnIds, Phases

-----------------------------------------------------------------------------
(***************************************************************************)
(* The client's steps.  None of them touches the server's variables.       *)
(***************************************************************************)

LEMMA ClientExitTyped ==
  ASSUME NetworkTypeOK, NEW how \in {"done", "failed"}, ClientExit(how)
  PROVE  /\ cpc' \in ClientPcs
         /\ ctimer' \in Nat
         /\ conns' \in [ConnIds -> Connections]
         /\ listening' \in BOOLEAN
         /\ backlog' \in Seq(ConnIds)
  <1>1. conns' \in [ConnIds -> Connections]
    BY ClientHangUpTyped DEF NetworkTypeOK, ClientExit
  <1> QED
    BY <1>1, NetworkAssumption DEF NetworkTypeOK, ClientExit, ClientPcs

LEMMA ConnectTyped ==
  ASSUME NetworkTypeOK, ClientTypeOK, NEW c \in ConnIds,
         NEW at \in {"connect1", "connect2"}, NEW next \in {"send", "recv"},
         Connect(c, at, next)
  PROVE  NetworkTypeOK' /\ ClientTypeOK'
  <1> USE DEF NetworkTypeOK, ClientTypeOK
  <1>1. CASE Dial(c) /\ cpc' = next /\ UNCHANGED ctimer
    <2>1. conns' \in [ConnIds -> Connections] /\ backlog' \in Seq(ConnIds)
      BY <1>1, DialTyped
    <2> QED
      BY <1>1, <2>1 DEF Connect, Dial, udpVars, ClientPcs
  <1>2. CASE ClientExit("failed")
    BY <1>2, ClientExitTyped DEF Connect, udpVars
  <1> QED
    BY <1>1, <1>2 DEF Connect

LEMMA SendTrainTyped ==
  ASSUME NetworkTypeOK, ClientTypeOK, NEW train \in Trains,
         NEW next \in ClientPcs \ {"idle"}, NEW rest \in Nat,
         SendTrain(train, next, rest)
  PROVE  NetworkTypeOK' /\ ClientTypeOK'
  <1>1. crun \in Runs
    BY RunningClient DEF SendTrain, Trains
  <1>2. flight' \in SUBSET Packets
    BY <1>1, NetworkAssumption
    DEF SendTrain, Launch, Packets, NetworkTypeOK, ClientTypeOK
  <1>3. ci' \in 0..TrainSize-1 /\ ctimer' \in Nat
    BY NetworkAssumption DEF SendTrain, ClientTypeOK
  <1>4. cpc' \in ClientPcs \ {"idle"}
    BY DEF SendTrain, ClientTypeOK, Trains
  <1> QED
    BY <1>1, <1>2, <1>3, <1>4 DEF SendTrain, NetworkTypeOK, ClientTypeOK, tcpVars, Runs

LEMMA ClientStepTyped ==
  ASSUME NetworkTypeOK, ClientTypeOK, ClientStep
  PROVE  NetworkTypeOK' /\ ClientTypeOK'
  <1> USE DEF NetworkTypeOK, ClientTypeOK
  <1>1. CASE Connect1
    BY <1>1, ConnectTyped, RunningClient DEF Connect1, Connect
  <1>2. CASE SendConfig
    <2>1. Pre \in ConnIds /\ crun \in Runs
      BY <1>2, RunningClient DEF SendConfig
    <2>2. CASE conns' = [conns EXCEPT ![Pre].toServer = <<crun>>]
               /\ cpc' = "close" /\ UNCHANGED <<ctimer, listening, backlog>>
      <3>1. <<crun>> \in Seq(Runs)
        BY <2>1
      <3>2. [conns[Pre] EXCEPT !.toServer = <<crun>>] \in Connections
        BY <2>1, <3>1 DEF Connections
      <3>3. conns' \in [ConnIds -> Connections]
        BY <2>1, <2>2, <3>2
      <3> QED
        BY <1>2, <2>2, <3>3 DEF SendConfig, udpVars, ClientPcs
    <2>3. CASE UNCHANGED conns /\ cpc' = "close"
               /\ UNCHANGED <<ctimer, listening, backlog>>
      BY <1>2, <2>3 DEF SendConfig, udpVars, ClientPcs
    <2>4. CASE ClientExit("failed")
      BY <1>2, <2>4, ClientExitTyped DEF SendConfig, udpVars
    <2> QED
      BY <1>2, <2>2, <2>3, <2>4 DEF SendConfig
  <1>3. CASE CloseConfig
    BY <1>3, ClientHangUpTyped, NetworkAssumption
    DEF CloseConfig, CloseAndSleep, udpVars, ClientPcs
  <1>4. CASE SendLow
    BY <1>4, SendTrainTyped, NetworkAssumption DEF SendLow, Trains, ClientPcs
  <1>5. CASE SendHigh
    <2>1. UdpTimeout + Second \in Nat
      BY NetworkAssumption
    <2> QED
      BY <1>5, <2>1, SendTrainTyped DEF SendHigh, Trains, ClientPcs
  <1>6. CASE Connect2
    BY <1>6, ConnectTyped, RunningClient DEF Connect2, Connect
  <1>7. CASE ReceiveVerdict
    <2>1. Post \in ConnIds
      BY <1>7, RunningClient DEF ReceiveVerdict
    <2>2. printed' \in Seq(Messages \cup {Blank})
      <3>1. conns[Post].toClient \in Seq(Messages)
        BY <2>1 DEF Connections
      <3>2. conns[Post].toClient \in Seq(Messages \cup {Blank})
        BY <3>1
      <3>3. <<Blank>> \in Seq(Messages \cup {Blank})
        OBVIOUS
      <3> QED
        BY <1>7, <3>2, <3>3 DEF ReceiveVerdict
    <2>3. ClientExit("done") \/ ClientExit("failed")
      BY <1>7 DEF ReceiveVerdict
    <2> QED
      BY <1>7, <2>2, <2>3, ClientExitTyped DEF ReceiveVerdict, ClientExit, udpVars
  <1> QED
    BY <1>1, <1>2, <1>3, <1>4, <1>5, <1>6, <1>7 DEF ClientStep

-----------------------------------------------------------------------------
(***************************************************************************)
(* The server's steps.  None of them touches the client's variables.       *)
(***************************************************************************)

\* Counting one more datagram keeps a window a window.
LEMMA StampTyped ==
  ASSUME NEW w \in Windows, w.n < TrainSize, NEW src \in Sources, now \in Nat
  PROVE  Stamp(w, src) \in Windows /\ Stamp(w, src).n = w.n + 1
  BY NetworkAssumption DEF Windows, Stamp

LEMMA ServerExitTyped ==
  ASSUME NetworkTypeOK, NEW how \in {"done", "failed"}, ServerExit(how),
         UNCHANGED <<now, ctimer, flight, sboot, sess, win, verdict>>,
         ServerTypeOK
  PROVE  NetworkTypeOK' /\ ServerTypeOK'
  <1>1. <<>> \in Seq(Sources)
    OBVIOUS
  <1>2. NetworkTypeOK'
    BY <1>1, ServerHangUpTyped DEF NetworkTypeOK, ServerExit
  <1>3. ServerTypeOK'
    BY DEF ServerTypeOK, ServerExit, ServerPcs
  <1> QED
    BY <1>2, <1>3

LEMMA ListenTyped ==
  ASSUME NetworkTypeOK, ServerTypeOK,
         \/ Listen("listen1", "accept1")
         \/ Listen("listen2", "accept2")
  PROVE  NetworkTypeOK' /\ ServerTypeOK'
  <1>1. NetworkTypeOK'
    BY DEF Listen, OpenListener, NetworkTypeOK, timeVars, udpVars
  <1>2. ServerTypeOK'
    BY DEF Listen, ServerTypeOK, ServerPcs
  <1> QED
    BY <1>1, <1>2

LEMMA AcceptTyped ==
  ASSUME NetworkTypeOK, ServerTypeOK,
         \/ AcceptNext("accept1", "recv")
         \/ AcceptNext("accept2", "send")
  PROVE  NetworkTypeOK' /\ ServerTypeOK'
  <1>1. PICK c \in ConnIds : Accept(c)
    BY DEF AcceptNext
  <1>2. backlog' \in Seq(ConnIds)
    BY <1>1 DEF Accept, NetworkTypeOK
  <1>3. [conns[c] EXCEPT !.server = "accepted"] \in Connections
    BY <1>1 DEF NetworkTypeOK, Connections
  <1>4. conns' \in [ConnIds -> Connections]
    BY <1>1, <1>3 DEF Accept, NetworkTypeOK
  <1>5. NetworkTypeOK'
    BY <1>1, <1>2, <1>4 DEF AcceptNext, Accept, NetworkTypeOK, timeVars, udpVars
  <1>6. ServerTypeOK'
    BY DEF AcceptNext, ServerTypeOK, ServerPcs
  <1> QED
    BY <1>5, <1>6

LEMMA ReceiveConfigTyped ==
  ASSUME NetworkTypeOK, ServerTypeOK, ReceiveConfig
  PROVE  NetworkTypeOK' /\ ServerTypeOK'
  <1>1. PICK c \in ConnIds :
           /\ conns' = [conns EXCEPT ![c].toServer = <<>>]
           /\ \/ conns[c].toServer # <<>> /\ sess' = Head(conns[c].toServer)
              \/ sess' = 0
    BY DEF ReceiveConfig
  <1>2. <<>> \in Seq(Runs)
    OBVIOUS
  <1>3. conns[c].toServer \in Seq(Runs)
    BY DEF NetworkTypeOK, Connections
  <1>4. [conns[c] EXCEPT !.toServer = <<>>] \in Connections
    BY <1>2 DEF NetworkTypeOK, Connections
  <1>5. conns' \in [ConnIds -> Connections]
    BY <1>1, <1>4 DEF NetworkTypeOK
  <1>6. sess' \in 0..MaxRuns
    <2>1. CASE sess' = 0
      BY <2>1, NetworkAssumption
    <2>2. CASE conns[c].toServer # <<>> /\ sess' = Head(conns[c].toServer)
      <3>1. sess' \in Runs
        BY <1>3, <2>2
      <3> QED
        BY <3>1, NetworkAssumption DEF Runs
    <2> QED
      BY <1>1, <2>1, <2>2
  <1>7. NetworkTypeOK'
    BY <1>5 DEF ReceiveConfig, NetworkTypeOK, timeVars, udpVars
  <1>8. ServerTypeOK'
    BY <1>6 DEF ReceiveConfig, ServerTypeOK, ServerPcs
  <1> QED
    BY <1>7, <1>8

LEMMA ReceiveDatagramTyped ==
  ASSUME NetworkTypeOK, ServerTypeOK, NEW loop \in Trains, ReceiveDatagram(loop)
  PROVE  NetworkTypeOK' /\ ServerTypeOK'
  <1> USE DEF ReceiveDatagram, ReceiveUpTo
  <1>1. Head(sockbuf) \in Sources /\ sockbuf' \in Seq(Sources)
    BY DEF NetworkTypeOK
  <1>2. win[loop] \in Windows /\ win[loop].n < TrainSize
    BY DEF ServerTypeOK, Trains
  <1>3. /\ Stamp(win[loop], Head(sockbuf)) \in Windows
        /\ Stamp(win[loop], Head(sockbuf)).n = win[loop].n + 1
    BY <1>1, <1>2, StampTyped DEF NetworkTypeOK
  <1>4. win' \in [Trains -> Windows] /\ win'[loop].n = win[loop].n + 1
    BY <1>3 DEF ServerTypeOK
  <1>5. stimer' \in Nat
    BY NetworkAssumption DEF LeaveLoop
  <1>6. NetworkTypeOK'
    BY <1>1, <1>5 DEF NetworkTypeOK, tcpVars
  <1>7. CASE UNCHANGED spc
    <2>1. win'[loop].n < TrainSize
      BY <1>2, <1>4, <1>7 DEF LeaveLoop, Trains
    <2> QED
      BY <1>4, <1>6, <1>7, <2>1 DEF ServerTypeOK, Trains
  <1>8. CASE LeaveLoop(loop)
    <2>1. CASE loop = "low"
      <3>1. win'["high"] = Unmeasured
        BY <2>1 DEF ServerTypeOK, Trains
      <3>2. win'["high"].n < TrainSize
        BY <3>1, NetworkAssumption DEF Unmeasured
      <3> QED
        BY <1>4, <1>6, <1>8, <2>1, <3>2 DEF LeaveLoop, ServerTypeOK, ServerPcs
    <2>2. CASE loop = "high"
      BY <1>4, <1>6, <1>8, <2>2 DEF LeaveLoop, ServerTypeOK, ServerPcs
    <2> QED
      BY <2>1, <2>2 DEF Trains
  <1> QED
    BY <1>7, <1>8

LEMMA TimeOutTyped ==
  ASSUME NetworkTypeOK, ServerTypeOK, NEW loop \in Trains, TimeOut(loop)
  PROVE  NetworkTypeOK' /\ ServerTypeOK'
  <1> USE DEF TimeOut, TimeOutThen
  <1>1. stimer' \in Nat
    BY NetworkAssumption DEF LeaveLoop
  <1>2. NetworkTypeOK'
    BY <1>1 DEF NetworkTypeOK, tcpVars, udpVars
  <1>3. CASE loop = "low"
    <2>1. win'["high"].n < TrainSize
      BY <1>3, NetworkAssumption DEF Unmeasured, ServerTypeOK
    <2> QED
      BY <1>2, <1>3, <2>1 DEF LeaveLoop, ServerTypeOK, ServerPcs
  <1>4. CASE loop = "high"
    BY <1>2, <1>4 DEF LeaveLoop, ServerTypeOK, ServerPcs
  <1> QED
    BY <1>3, <1>4 DEF Trains

LEMMA CloseAndParseTyped ==
  ASSUME NetworkTypeOK, ServerTypeOK, CloseAndParse
  PROVE  NetworkTypeOK' /\ ServerTypeOK'
  <1> USE DEF CloseAndParse, CloseThen
  <1>1. NetworkTypeOK'
    BY ServerHangUpTyped DEF NetworkTypeOK, timeVars, udpVars
  <1>2. ServerTypeOK'
    BY DEF ServerTypeOK, ServerPcs
  <1> QED
    BY <1>1, <1>2

LEMMA BindTyped ==
  ASSUME NetworkTypeOK, ServerTypeOK, Bind
  PROVE  NetworkTypeOK' /\ ServerTypeOK'
  <1>1. NetworkTypeOK'
    BY NetworkAssumption DEF NetworkTypeOK, Bind, tcpVars
  <1>2. win'["low"].n < TrainSize /\ win'["high"] = Unmeasured
    BY NetworkAssumption DEF Bind, ServerTypeOK, Unmeasured, Trains
  <1>3. ServerTypeOK'
    BY <1>2 DEF Bind, ServerTypeOK, ServerPcs
  <1> QED
    BY <1>1, <1>3

LEMMA JudgeTyped ==
  ASSUME NetworkTypeOK, ServerTypeOK, Judge
  PROVE  NetworkTypeOK' /\ ServerTypeOK'
  <1>1. verdict' \in Verdicts
    BY DEF Judge, Outcomes, Verdicts
  <1>2. verdict' # "none"
    BY <1>1 DEF Verdicts, Detected, Undetected
  <1>3. <<>> \in Seq(Sources)
    OBVIOUS
  <1>4. NetworkTypeOK'
    BY <1>3 DEF NetworkTypeOK, Judge, timeVars, tcpVars
  <1>5. ServerTypeOK'
    BY <1>1, <1>2 DEF Judge, ServerTypeOK, ServerPcs
  <1> QED
    BY <1>4, <1>5

LEMMA SendVerdictTyped ==
  ASSUME NetworkTypeOK, ServerTypeOK, SendVerdict
  PROVE  NetworkTypeOK' /\ ServerTypeOK'
  <1> DEFINE from == {src.run : src \in win["low"].from \cup win["high"].from}
             msg  == [text |-> verdict, sess |-> sess, from |-> from]
  <1>1. PICK c \in ConnIds : conns' = [conns EXCEPT ![c].toClient = <<msg>>]
    BY DEF SendVerdict
  <1>2. verdict \in Verdicts
    BY DEF SendVerdict, ServerTypeOK
  <1>3. sess \in Runs
    BY NetworkAssumption DEF SendVerdict, ServerTypeOK, Runs
  <1>4. from \in SUBSET Runs
    BY DEF ServerTypeOK, Windows, Sources, Trains
  <1>5. msg \in Messages
    BY <1>2, <1>3, <1>4 DEF Messages
  <1> HIDE DEF msg
  <1>6. <<msg>> \in Seq(Messages)
    BY <1>5
  <1>7. [conns[c] EXCEPT !.toClient = <<msg>>] \in Connections
    BY <1>6 DEF NetworkTypeOK, Connections
  <1>8. conns' \in [ConnIds -> Connections]
    BY <1>1, <1>7 DEF NetworkTypeOK
  <1>9. NetworkTypeOK'
    BY <1>8 DEF SendVerdict, NetworkTypeOK, timeVars, udpVars
  <1>10. ServerTypeOK'
    BY DEF SendVerdict, ServerTypeOK, ServerPcs
  <1> QED
    BY <1>9, <1>10

LEMMA ServerStepTyped ==
  ASSUME NetworkTypeOK, ServerTypeOK, ServerStep
  PROVE  NetworkTypeOK' /\ ServerTypeOK'
  <1>1. CASE Listen1 \/ Listen2
    BY <1>1, ListenTyped DEF Listen1, Listen2
  <1>2. CASE Accept1 \/ Accept2
    BY <1>2, AcceptTyped DEF Accept1, Accept2
  <1>3. CASE ReceiveConfig
    BY <1>3, ReceiveConfigTyped
  <1>4. CASE CloseAndParse
    BY <1>4, CloseAndParseTyped
  <1>5. CASE Bind
    BY <1>5, BindTyped
  <1>6. CASE \E loop \in Trains : ReceiveDatagram(loop) \/ TimeOut(loop)
    BY <1>6, ReceiveDatagramTyped, TimeOutTyped
  <1>7. CASE Judge
    BY <1>7, JudgeTyped
  <1>8. CASE SendVerdict
    BY <1>8, SendVerdictTyped
  <1>9. CASE CloseServer
    BY <1>9, ServerExitTyped DEF CloseServer
  <1> QED
    BY <1>1, <1>2, <1>3, <1>4, <1>5, <1>6, <1>7, <1>8, <1>9 DEF ServerStep

-----------------------------------------------------------------------------
(***************************************************************************)
(* The path, the clock, and the theorem.                                   *)
(***************************************************************************)

LEMMA PathTyped ==
  ASSUME NetworkTypeOK, Deliver \/ Duplicate
  PROVE  NetworkTypeOK'
  <1> USE DEF NetworkTypeOK, Deliver, Duplicate, timeVars, tcpVars
  <1>1. PICK p \in flight : Arrive(p) \/ Lose(p) \/ ArriveTwice(p)
    OBVIOUS
  <1>2. [run |-> p.run, train |-> p.train] \in Sources
    BY <1>1 DEF Packets, Sources
  <1>3. sockbuf' \in Seq(Sources)
    <2>1. Append(sockbuf, [run |-> p.run, train |-> p.train]) \in Seq(Sources)
      BY <1>2
    <2> QED
      BY <1>1, <2>1 DEF Arrive, Lose, ArriveTwice
  <1>4. flight' \in SUBSET Packets /\ udpBound' \in BOOLEAN
    BY <1>1 DEF Arrive, Lose, ArriveTwice
  <1> QED
    BY <1>3, <1>4

LEMMA TickTyped ==
  ASSUME NetworkTypeOK, Tick
  PROVE  NetworkTypeOK'
  <1>1. now' \in Nat /\ ctimer' \in Nat /\ stimer' \in Nat
    BY DEF NetworkTypeOK, Tick, Countdown
  <1>2. \A p \in flight : [p EXCEPT !.age = @ + 1] \in Packets
    <2>1. TAKE p \in flight
    <2>2. p \in Packets /\ p.age < MaxDelay
      BY <2>1 DEF NetworkTypeOK, Tick
    <2>3. p.age + 1 \in 0..MaxDelay
      BY <2>2, NetworkAssumption DEF Packets
    <2> QED
      BY <2>2, <2>3 DEF Packets
  <1>3. flight' \in SUBSET Packets
    BY <1>2 DEF Tick
  <1> QED
    BY <1>1, <1>3 DEF NetworkTypeOK, Tick, tcpVars

LEMMA TypeStep == TypeOK /\ [Next]_vars => TypeOK'
  <1> SUFFICES ASSUME TypeOK, [Next]_vars PROVE TypeOK'
    OBVIOUS
  <1> USE DEF TypeOK
  <1>1. CASE RunServer
    <2>1. NetworkTypeOK' /\ ClientTypeOK'
      BY <1>1 DEF RunServer, StartServer, NetworkTypeOK, ClientTypeOK,
                  timeVars, tcpVars, udpVars, clientVars
    <2>2. Unmeasured \in Windows
      BY NetworkAssumption DEF Unmeasured, Windows
    <2>3. ServerTypeOK'
      BY <1>1, <2>2, NetworkAssumption, ServerAssumption
      DEF RunServer, StartServer, ServerTypeOK, ServerPcs
    <2> QED
      BY <2>1, <2>3
  <1>2. CASE RunClient
    BY <1>2, NetworkAssumption
    DEF RunClient, StartClient, NetworkTypeOK, ClientTypeOK, ServerTypeOK,
        ClientPcs, tcpVars, udpVars, serverVars
  <1>3. CASE ClientNext
    BY <1>3, ClientStepTyped DEF ClientNext, ServerTypeOK, serverVars
  <1>4. CASE ServerNext
    BY <1>4, ServerStepTyped DEF ServerNext, ClientTypeOK, clientVars
  <1>5. CASE Deliver \/ Duplicate
    BY <1>5, PathTyped
    DEF Deliver, Duplicate, ClientTypeOK, ServerTypeOK, clientVars, serverVars
  <1>6. CASE Tick
    BY <1>6, TickTyped
    DEF Tick, ClientTypeOK, ServerTypeOK, clientVars, serverVars
  <1>7. CASE ClientAbort /\ UNCHANGED serverVars
    <2>1. NetworkTypeOK'
      BY <1>7, ClientExitTyped DEF ClientAbort, NetworkTypeOK, udpVars
    <2>2. ClientTypeOK' /\ ServerTypeOK'
      BY <1>7 DEF ClientAbort, ClientExit, ClientStopped, ClientTypeOK,
                  ServerTypeOK, ClientPcs, serverVars
    <2> QED
      BY <2>1, <2>2
  <1>8. CASE ServerAbort /\ UNCHANGED clientVars
    BY <1>8, ServerExitTyped DEF ServerAbort, ClientTypeOK, clientVars
  <1>9. CASE UNCHANGED vars
    BY <1>9 DEF vars, NetworkTypeOK, ClientTypeOK, ServerTypeOK,
                timeVars, tcpVars, udpVars, clientVars, serverVars
  <1> QED
    BY <1>1, <1>2, <1>3, <1>4, <1>5, <1>6, <1>7, <1>8, <1>9
    DEF Next, Abort, Finished

\* Every variable keeps its type, a receiving loop never counts past
\* udp_train_size, the server never probes without a configuration, and it
\* never sends a verdict it has not computed: for any number of runs, any
\* configuration and any path.
THEOREM TypeCorrect == Spec => []TypeOK
  <1> QED
    BY TypeInit, TypeStep, PTL DEF Spec

-----------------------------------------------------------------------------
(***************************************************************************)
(* Waiting for each other.                                                 *)
(***************************************************************************)
Pres == Runs \X {"pre"}

\* In the life of the first server nobody dials before it listens, and the
\* connection accept() takes first was dialled for a configuration: a client
\* that comes back for its verdict has another one in the queue before it.
FirstServer ==
    /\ spc = "off" <=> sboot = 0
    /\ sboot <= 1 =>
         /\ spc \in {"off", "listen1"} =>
              cpc = "idle" /\ backlog = <<>> /\ \A c \in ConnIds : ~Accepted(c)
         /\ spc = "accept1" =>
              /\ \A c \in ConnIds : ~Accepted(c)
              /\ backlog # <<>> => backlog[1] \in Pres
              /\ cpc \notin {"idle", "connect1", "done", "failed"} => backlog # <<>>
         /\ spc = "recv" => \A c \in ConnIds : Accepted(c) => c \in Pres

LEMMA FirstServerInit == Init => FirstServer
  BY DEF Init, NetworkInit, ClientInit, ServerInit, FirstServer, Accepted

LEMMA ConnectFirst ==
  ASSUME TypeOK, FirstServer, UNCHANGED serverVars,
         \/ cpc = "connect1" /\ Connect(Pre, "connect1", "send")
         \/ cpc = "connect2" /\ Connect(Post, "connect2", "recv")
  PROVE  FirstServer'
  <1> USE DEF Connect, serverVars
  <1>1. cpc # "idle" /\ backlog \in Seq(ConnIds) /\ {Pre, Post} \subseteq ConnIds /\ Pre \in Pres
        /\ Pre # Post
    BY RunningClient DEF TypeOK, NetworkTypeOK, Pres, Pre, Post
  <1>2. CASE ClientExit("failed")
    BY <1>1, <1>2 DEF ClientExit, ClientHangUp, FirstServer, Accepted
  <1>3. CASE listening /\ \E c \in {Pre, Post} : Dial(c) /\ (c = Post => cpc = "connect2")
    <2>1. PICK c \in {Pre, Post} : Dial(c) /\ (c = Post => cpc = "connect2")
      BY <1>3
    <2>2. \A d \in ConnIds : Accepted(d)' => Accepted(d)
      BY <1>1, <2>1 DEF Dial, Accepted, TypeOK, NetworkTypeOK, Connections
    <2>3. /\ backlog' # <<>>
          /\ backlog # <<>> => backlog'[1] = backlog[1]
          /\ backlog = <<>> => backlog'[1] = c
      BY <1>1, <2>1 DEF Dial
    <2>4. CASE spc = "accept1" /\ sboot <= 1
      <3>1. backlog'[1] \in Pres
        BY <1>1, <2>1, <2>3, <2>4 DEF FirstServer
      <3> QED
        BY <2>2, <2>3, <2>4, <3>1 DEF FirstServer
    <2> QED
      BY <1>1, <2>2, <2>4 DEF FirstServer
  <1> QED
    BY <1>1, <1>2, <1>3

LEMMA ClientFirst ==
  ASSUME TypeOK, FirstServer, UNCHANGED serverVars, ClientStep
  PROVE  FirstServer'
  <1>1. CASE Connect1 \/ Connect2
    BY <1>1, ConnectFirst DEF Connect1, Connect2, Connect
  <1>2. CASE ~Connect1 /\ ~Connect2
    <2>1. /\ \A c \in ConnIds : Accepted(c)' => Accepted(c)
          /\ UNCHANGED backlog /\ cpc \notin {"idle", "connect1", "done", "failed"}
      BY <1>2, RunningClient
      DEF ClientStep, SendConfig, CloseConfig, CloseAndSleep, SendLow, SendHigh, SendTrain,
          ReceiveVerdict, ClientExit, ClientHangUp, Accepted, tcpVars, TypeOK,
          NetworkTypeOK, Connections
    <2> QED
      BY <2>1 DEF FirstServer, serverVars
  <1> QED
    BY <1>1, <1>2

LEMMA ServerFirst ==
  ASSUME TypeOK, FirstServer, UNCHANGED clientVars, ServerStep
  PROVE  FirstServer'
  <1> USE DEF clientVars
  <1>1. CASE Accept1
    <2>1. PICK c \in ConnIds : Accept(c)
      BY <1>1 DEF Accept1, AcceptNext
    <2>2. \A d \in ConnIds : Accepted(d)' => Accepted(d) \/ d = c
      BY <2>1 DEF Accept, Accepted, TypeOK, NetworkTypeOK
    <2>3. backlog # <<>> /\ c = backlog[1]
      BY <2>1 DEF Accept, TypeOK, NetworkTypeOK
    <2> QED
      BY <1>1, <2>2, <2>3 DEF Accept1, AcceptNext, FirstServer
  <1>2. CASE ReceiveConfig
    BY <1>2 DEF ReceiveConfig, FirstServer
  <1>3. CASE Listen1
    BY <1>3 DEF Listen1, Listen, OpenListener, FirstServer, Accepted
  <1>4. CASE /\ spc' \notin {"off", "listen1", "accept1", "recv"}
             /\ spc # "off" /\ UNCHANGED sboot
    BY <1>4 DEF FirstServer
  <1>5. ServerStep => Accept1 \/ ReceiveConfig \/ Listen1 \/
           (spc' \notin {"off", "listen1", "accept1", "recv"} /\ spc # "off" /\ UNCHANGED sboot)
    BY DEF ServerStep, Listen2, Listen, Accept2, AcceptNext, CloseAndParse, CloseThen, Bind,
           ReceiveDatagram, ReceiveUpTo, TimeOut, TimeOutThen, LeaveLoop, Trains, Judge,
           SendVerdict, CloseServer, ServerExit
  <1> QED
    BY <1>1, <1>2, <1>3, <1>4, <1>5

LEMMA FirstServerStep == TypeOK /\ FirstServer /\ [Next]_vars => FirstServer'
  <1> SUFFICES ASSUME TypeOK, FirstServer, [Next]_vars PROVE FirstServer'
    OBVIOUS
  <1>1. CASE RunServer
    <2>1. sboot' = sboot + 1 /\ sboot \in Nat /\ spc' = "listen1"
      BY <1>1 DEF RunServer, StartServer, TypeOK, ServerTypeOK
    <2>2. CASE sboot = 0
      BY <1>1, <2>1, <2>2
      DEF RunServer, StartServer, FirstServer, Accepted, tcpVars, clientVars
    <2> QED
      BY <2>1, <2>2 DEF FirstServer
  <1>2. CASE RunClient
    BY <1>2
    DEF RunClient, StartClient, ServerUp, ServerStopped, FirstServer, Accepted, tcpVars, serverVars
  <1>3. CASE ClientNext
    BY <1>3, ClientFirst DEF ClientNext
  <1>4. CASE ServerNext
    BY <1>4, ServerFirst DEF ServerNext
  <1>5. CASE ClientAbort /\ UNCHANGED serverVars
    BY <1>5
    DEF ClientAbort, ClientExit, ClientStopped, ClientHangUp, FirstServer, Accepted, serverVars
  <1>6. CASE ServerAbort /\ UNCHANGED clientVars
    BY <1>6 DEF ServerAbort, ServerExit, ServerStopped, FirstServer
  <1>7. CASE Deliver \/ Duplicate \/ Tick \/ UNCHANGED vars
    BY <1>7
    DEF Deliver, Duplicate, Tick, vars, FirstServer, Accepted, tcpVars, clientVars, serverVars
  <1> QED
    BY <1>1, <1>2, <1>3, <1>4, <1>5, <1>6, <1>7 DEF Next, Abort, Finished

\* As long as the server was started once, client and server never wait for
\* each other's data on one connection: for any number of client runs, any
\* timing and wherever either program fails.
THEOREM NoCrossWait == Spec => []CrossWaitNeedsRestart
  <1>1. TypeOK /\ FirstServer => CrossWaitNeedsRestart
    <2> SUFFICES ASSUME TypeOK, FirstServer, CrossWait PROVE sboot > 1
      BY DEF CrossWaitNeedsRestart
    <2>1. Post \in ConnIds /\ Post \notin Pres
      BY RunningClient DEF CrossWait, TypeOK, Pres, Post
    <2> QED
      BY <2>1 DEF CrossWait, FirstServer, TypeOK, ServerTypeOK
  <1> QED
    BY <1>1, FirstServerInit, FirstServerStep, TypeCorrect, PTL DEF Spec

-----------------------------------------------------------------------------
(***************************************************************************)
(* Whose measurement a verdict is.                                         *)
(***************************************************************************)

\* What the ends of the connections say of the two processes.
Sockets ==
    /\ listening => spc \in {"accept1", "recv", "parse", "accept2", "send", "close"}
    /\ backlog # <<>> => listening
    /\ \A i \in 1..Len(backlog) : conns[backlog[i]].server # "none"
    /\ \A c \in ConnIds :
         /\ Accepted(c) => spc \in {"recv", "parse", "send", "close"}
         /\ conns[c].server # "none" => conns[c].client # "none"
         /\ conns[c].client = "open" => ~ClientStopped
         /\ conns[c].toServer # <<>> => Head(conns[c].toServer) = c[1]
    /\ spc = "recv" => \E c \in ConnIds : Accepted(c)

LEMMA SocketsInit == Init => Sockets
  BY DEF Init, NetworkInit, ClientInit, ServerInit, Sockets, Accepted

\* What hanging up does to each connection.
LEMMA ServerHangUpEach ==
  ASSUME TypeOK, ServerHangUp, NEW c \in ConnIds
  PROVE  /\ conns'[c].server # "accepted"
         /\ conns'[c].server = "none" <=> conns[c].server = "none"
         /\ conns'[c].client = conns[c].client
         /\ conns'[c].toServer = conns[c].toServer
         /\ conns'[c].toClient = conns[c].toClient
  BY DEF ServerHangUp, Accepted, TypeOK, NetworkTypeOK, Connections

LEMMA ClientHangUpEach ==
  ASSUME TypeOK, ClientHangUp, NEW c \in ConnIds
  PROVE  /\ conns'[c].client # "open"
         /\ conns'[c].client = "none" <=> conns[c].client = "none"
         /\ conns'[c].server = conns[c].server
         /\ conns'[c].toServer = conns[c].toServer
         /\ conns'[c].toClient = conns[c].toClient
  BY DEF ClientHangUp, TypeOK, NetworkTypeOK, Connections

LEMMA DialEach ==
  ASSUME TypeOK, NEW d \in ConnIds, Dial(d), NEW c \in ConnIds
  PROVE  /\ c # d => conns'[c] = conns[c]
         /\ conns'[d].client = "open" /\ conns'[d].server = "queued"
         /\ conns'[c].toServer = conns[c].toServer
         /\ conns'[c].toClient = conns[c].toClient
  BY DEF Dial, TypeOK, NetworkTypeOK, Connections

LEMMA AcceptEach ==
  ASSUME TypeOK, NEW d \in ConnIds, Accept(d), NEW c \in ConnIds
  PROVE  /\ c # d => conns'[c] = conns[c]
         /\ conns'[d].server = "accepted"
         /\ conns'[c].client = conns[c].client
         /\ conns'[c].toServer = conns[c].toServer
         /\ conns'[c].toClient = conns[c].toClient
  BY DEF Accept, TypeOK, NetworkTypeOK, Connections

LEMMA SendConfigEach ==
  ASSUME TypeOK, SendConfig, ~ClientExit("failed"), NEW c \in ConnIds
  PROVE  /\ cpc = "send" /\ cpc' = "close"
         /\ UNCHANGED <<ctimer, listening, backlog, crun>>
         /\ conns'[c].server = conns[c].server
         /\ conns'[c].client = conns[c].client
         /\ conns'[c].toClient = conns[c].toClient
         /\ \/ conns'[c].toServer = conns[c].toServer
            \/ c[1] = crun /\ conns'[c].toServer = <<crun>>
  <1>1. /\ UNCHANGED conns \/ conns' = [conns EXCEPT ![Pre].toServer = <<crun>>]
        /\ cpc = "send" /\ cpc' = "close"
        /\ UNCHANGED <<ctimer, listening, backlog, crun>>
    BY DEF SendConfig
  <1>2. conns \in [ConnIds -> Connections] /\ conns[c] \in Connections /\ Pre[1] = crun
    BY DEF TypeOK, NetworkTypeOK, Pre
  <1>3. CASE UNCHANGED conns
    BY <1>1, <1>3
  <1>4. CASE conns' = [conns EXCEPT ![Pre].toServer = <<crun>>]
    BY <1>1, <1>2, <1>4 DEF Connections
  <1> QED
    BY <1>1, <1>3, <1>4

\* The accept queue when a connection is put in or taken out.
LEMMA DialQueue ==
  ASSUME TypeOK, NEW d \in ConnIds, Dial(d)
  PROVE  /\ backlog' # <<>>
         /\ \A i \in 1..Len(backlog') :
              (i \in 1..Len(backlog) /\ backlog'[i] = backlog[i]) \/ backlog'[i] = d
  BY DEF Dial, TypeOK, NetworkTypeOK

LEMMA AcceptQueue ==
  ASSUME TypeOK, NEW d \in ConnIds, Accept(d)
  PROVE  /\ backlog # <<>> /\ 1 \in 1..Len(backlog) /\ d = backlog[1]
         /\ \A i \in 1..Len(backlog') :
              i + 1 \in 1..Len(backlog) /\ backlog'[i] = backlog[i + 1]
  BY DEF Accept, TypeOK, NetworkTypeOK

LEMMA QueueTyped ==
  ASSUME TypeOK
  PROVE  \A i \in 1..Len(backlog) : backlog[i] \in ConnIds
  BY DEF TypeOK, NetworkTypeOK

LEMMA ClientExitSockets ==
  ASSUME TypeOK, Sockets, UNCHANGED serverVars, NEW how, ClientExit(how)
  PROVE  Sockets'
  <1> USE DEF ClientExit, serverVars
  <1>1. UNCHANGED <<listening, backlog, spc>>
    OBVIOUS
  <1>2. \A i \in 1..Len(backlog') : conns'[backlog'[i]].server # "none"
    BY <1>1, ClientHangUpEach, QueueTyped DEF Sockets
  <1>3. \A c \in ConnIds :
         /\ conns'[c].server = "accepted" <=> Accepted(c)
         /\ conns'[c].server # "none" => conns'[c].client # "none"
         /\ conns'[c].client # "open"
         /\ conns'[c].toServer # <<>> => Head(conns'[c].toServer) = c[1]
    BY ClientHangUpEach DEF Sockets, Accepted
  <1> QED
    BY <1>1, <1>2, <1>3 DEF Sockets, Accepted

LEMMA ServerHangUpSockets ==
  ASSUME TypeOK, Sockets, UNCHANGED clientVars, ServerHangUp, spc' # "recv"
  PROVE  Sockets'
  <1>1. listening' = FALSE /\ backlog' = <<>>
    BY DEF ServerHangUp
  <1>2. \A c \in ConnIds :
         /\ conns'[c].server # "accepted"
         /\ conns'[c].server # "none" => conns'[c].client # "none"
         /\ conns'[c].client = "open" => ~ClientStopped
         /\ conns'[c].toServer # <<>> => Head(conns'[c].toServer) = c[1]
    BY ServerHangUpEach DEF Sockets
  <1> QED
    BY <1>1, <1>2 DEF Sockets, Accepted, ClientStopped, clientVars

LEMMA ConnectSockets ==
  ASSUME TypeOK, Sockets, UNCHANGED serverVars, NEW c \in ConnIds, conns[c].server = "none",
         NEW at, NEW next \in {"send", "recv"}, Connect(c, at, next)
  PROVE  Sockets'
  <1> USE DEF Connect
  <1>1. CASE ClientExit("failed")
    BY <1>1, ClientExitSockets
  <1>2. CASE listening /\ Dial(c) /\ cpc' = next
    <2>1. UNCHANGED <<listening, spc>> /\ ~ClientStopped'
      BY <1>2 DEF Dial, serverVars, ClientStopped
    <2>2. \A i \in 1..Len(backlog') : conns'[backlog'[i]].server # "none"
      BY <1>2, DialEach, DialQueue, QueueTyped DEF Sockets
    <2>3. \A d \in ConnIds :
           /\ conns'[d].server = "accepted" => Accepted(d)
           /\ conns'[d].server # "none" => conns'[d].client # "none"
           /\ conns'[d].toServer # <<>> => Head(conns'[d].toServer) = d[1]
      BY <1>2, DialEach DEF Sockets, Accepted
    <2>4. spc = "recv" => \E d \in ConnIds : conns'[d].server = "accepted"
      <3>1. SUFFICES ASSUME NEW d \in ConnIds, Accepted(d)
                     PROVE  spc = "recv" => \E e \in ConnIds : conns'[e].server = "accepted"
        BY DEF Sockets
      <3>2. d # c
        BY <3>1 DEF Accepted
      <3> QED
        BY <1>2, <3>1, <3>2, DialEach DEF Accepted
    <2> QED
      BY <1>2, <2>1, <2>2, <2>3, <2>4 DEF Sockets, Accepted
  <1> QED
    BY <1>1, <1>2

\* A run that has not dialled yet has no connection, and post_probing dials
\* last.
BeforePost == {"idle", "connect1", "send", "close", "low", "high", "connect2"}
Undialled(c) == \/ c[1] > crun
                \/ c[1] = crun /\ c[2] = "pre" /\ cpc = "connect1"
                \/ c[1] = crun /\ c[2] = "post" /\ cpc \in BeforePost
Untried ==
    \A c \in ConnIds : Undialled(c) =>
        /\ conns[c].server = "none" /\ conns[c].client = "none"
        /\ conns[c].toClient = <<>>

LEMMA UntriedInit == Init => Untried
  BY DEF Init, NetworkInit, Untried

LEMMA ConnNames ==
  ASSUME TypeOK, NEW c \in ConnIds
  PROVE  c[1] \in Runs /\ c[1] \in Int /\ c[2] \in Phases /\ c = <<c[1], c[2]>>
  BY DEF ConnIds, Runs

LEMMA ClientExitUntried ==
  ASSUME TypeOK, Untried, NEW how \in {"done", "failed"}, ClientExit(how), UNCHANGED crun
  PROVE  Untried'
  <1>1. \A c \in ConnIds : Undialled(c)' => Undialled(c)
    BY DEF Undialled, BeforePost, ClientExit
  <1>2. \A c \in ConnIds : Undialled(c) =>
          /\ conns'[c].server = "none" /\ conns'[c].client = "none"
          /\ conns'[c].toClient = <<>>
    BY ClientHangUpEach DEF ClientExit, Untried
  <1> QED
    BY <1>1, <1>2 DEF Untried

LEMMA ConnectUntried ==
  ASSUME TypeOK, Untried,
         Connect1 \/ Connect2
  PROVE  Untried'
  <1> USE DEF Connect1, Connect2, Connect
  <1>1. {Pre, Post} \subseteq ConnIds
    BY RunningClient DEF TypeOK
  <1>2. CASE ClientExit("failed")
    BY <1>2, ClientExitUntried
  <1>3. CASE ~ClientExit("failed")
    <2>1. PICK d \in {Pre, Post} : /\ Dial(d) /\ UNCHANGED crun
                                   /\ d = Pre => cpc = "connect1" /\ cpc' = "send"
                                   /\ d = Post => cpc = "connect2" /\ cpc' = "recv"
      BY <1>3 DEF Pre, Post
    <2>2. \A c \in ConnIds : Undialled(c)' => Undialled(c) /\ c # d
      BY <1>1, <2>1, ConnNames DEF Undialled, BeforePost, Pre, Post
    <2>3. \A c \in ConnIds : c # d => conns'[c] = conns[c]
      BY <1>1, <2>1, DialEach
    <2> QED
      BY <2>2, <2>3 DEF Untried
  <1> QED
    BY <1>2, <1>3

LEMMA ClientUntried ==
  ASSUME TypeOK, Untried, ClientStep
  PROVE  Untried'
  <1>1. CASE Connect1 \/ Connect2
    BY <1>1, ConnectUntried
  <1>2. CASE SendConfig /\ ~ClientExit("failed")
    <2>1. /\ \A c \in ConnIds : /\ conns'[c].server = conns[c].server
                                /\ conns'[c].client = conns[c].client
                                /\ conns'[c].toClient = conns[c].toClient
          /\ UNCHANGED crun /\ cpc = "send" /\ cpc' = "close"
      BY <1>2, SendConfigEach DEF SendConfig
    <2> QED
      BY <2>1 DEF Untried, Undialled, BeforePost
  <1>3. CASE CloseConfig
    <2>1. \A c \in ConnIds : Undialled(c)' => Undialled(c)
      BY <1>3 DEF CloseConfig, CloseAndSleep, Undialled, BeforePost
    <2> QED
      BY <1>3, <2>1, ClientHangUpEach DEF CloseConfig, CloseAndSleep, Untried
  <1>4. CASE SendLow \/ SendHigh
    <2>1. UNCHANGED <<conns, crun>> /\ cpc \in {"low", "high"}
          /\ cpc' \in {"low", "high", "connect2"}
      BY <1>4 DEF SendLow, SendHigh, SendTrain, tcpVars
    <2> QED
      BY <2>1 DEF Untried, Undialled, BeforePost
  <1>5. CASE ReceiveVerdict \/ (SendConfig /\ ClientExit("failed"))
    BY <1>5, ClientExitUntried DEF ReceiveVerdict, SendConfig
  <1> QED
    BY <1>1, <1>2, <1>3, <1>4, <1>5 DEF ClientStep

\* The server touches no connection that was not dialled.
LEMMA ServerKeepsUntried ==
  ASSUME TypeOK, Untried, Sockets, UNCHANGED clientVars,
         ServerStep \/ RunServer \/ ServerAbort
  PROVE  Untried'
  <1> USE DEF clientVars
  <1>1. \A c \in ConnIds : Undialled(c)' <=> Undialled(c)
    BY DEF Undialled
  <1>2. CASE ServerHangUp
    BY <1>1, <1>2, ServerHangUpEach DEF Untried
  <1>3. CASE UNCHANGED conns
    BY <1>1, <1>3 DEF Untried
  <1>4. CASE Accept1 \/ Accept2
    <2>1. PICK d \in ConnIds : Accept(d)
      BY <1>4 DEF Accept1, Accept2, AcceptNext
    <2>2. conns[d].server # "none"
      BY <2>1, AcceptQueue DEF Sockets
    <2> QED
      BY <1>1, <2>1, <2>2, AcceptEach DEF Untried
  <1>5. CASE ReceiveConfig
    <2>1. \A c \in ConnIds : /\ conns'[c].server = conns[c].server
                             /\ conns'[c].client = conns[c].client
                             /\ conns'[c].toClient = conns[c].toClient
      BY <1>5 DEF ReceiveConfig, TypeOK, NetworkTypeOK, Connections
    <2> QED
      BY <1>1, <2>1 DEF Untried
  <1>6. CASE SendVerdict
    <2>1. PICK d \in ConnIds : Accepted(d) /\ \A c \in ConnIds \ {d} : conns'[c] = conns[c]
      BY <1>6 DEF SendVerdict, TypeOK, NetworkTypeOK
    <2>2. \A c \in ConnIds : conns'[c].server = conns[c].server
                          /\ conns'[c].client = conns[c].client
      BY <1>6 DEF SendVerdict, TypeOK, NetworkTypeOK, Connections
    <2> QED
      BY <1>1, <2>1, <2>2 DEF Untried, Accepted
  <1> QED
    BY <1>2, <1>3, <1>4, <1>5, <1>6
    DEF ServerStep, RunServer, StartServer, ServerAbort, ServerExit, Listen1, Listen2, Listen,
        OpenListener, CloseAndParse, CloseThen, Bind, ReceiveDatagram, ReceiveUpTo, TimeOut,
        TimeOutThen, Judge, CloseServer, tcpVars

LEMMA UntriedStep == TypeOK /\ Sockets /\ Untried /\ [Next]_vars => Untried'
  <1> SUFFICES ASSUME TypeOK, Sockets, Untried, [Next]_vars PROVE Untried'
    OBVIOUS
  <1>1. CASE ClientNext
    BY <1>1, ClientUntried DEF ClientNext
  <1>2. CASE RunServer \/ ServerNext \/ (ServerAbort /\ UNCHANGED clientVars)
    BY <1>2, ServerKeepsUntried DEF RunServer, ServerNext
  <1>3. CASE RunClient
    <2>1. \A c \in ConnIds : Undialled(c)' => Undialled(c)
      BY <1>3, ConnNames DEF RunClient, StartClient, Undialled, TypeOK, ClientTypeOK
    <2> QED
      BY <1>3, <2>1 DEF RunClient, StartClient, Untried, tcpVars
  <1>4. CASE ClientAbort
    BY <1>4, ClientExitUntried DEF ClientAbort
  <1>5. CASE Deliver \/ Duplicate \/ Tick \/ UNCHANGED vars
    BY <1>5 DEF Deliver, Duplicate, Tick, vars, Untried, Undialled, tcpVars, clientVars
  <1> QED
    BY <1>1, <1>2, <1>3, <1>4, <1>5 DEF Next, Abort, Finished

LEMMA ClientSockets ==
  ASSUME TypeOK, Untried, Sockets, UNCHANGED serverVars, ClientStep
  PROVE  Sockets'
  <1> USE DEF serverVars
  <1>1. CASE Connect1 \/ Connect2
    <2>1. /\ {Pre, Post} \subseteq ConnIds
          /\ Connect1 => Undialled(Pre)
          /\ Connect2 => Undialled(Post)
      BY <1>1, RunningClient
      DEF Connect1, Connect2, Connect, TypeOK, Undialled, Pre, Post, BeforePost
    <2> QED
      BY <1>1, <2>1, ConnectSockets DEF Connect1, Connect2, Untried
  <1>2. CASE SendConfig /\ ~ClientExit("failed")
    <2>1. Pre \in ConnIds /\ Pre[1] = crun /\ ~ClientStopped /\ ~ClientStopped'
      BY <1>2, RunningClient DEF SendConfig, TypeOK, Pre, ClientStopped
    <2>2. \A c \in ConnIds :
            /\ conns'[c].server = conns[c].server
            /\ conns'[c].client = conns[c].client
            /\ conns'[c].toServer # <<>> => Head(conns'[c].toServer) = c[1]
      BY <1>2, SendConfigEach DEF Sockets
    <2>3. UNCHANGED <<listening, backlog>>
      BY <1>2 DEF SendConfig
    <2> QED
      BY <2>1, <2>2, <2>3, QueueTyped DEF Sockets, Accepted
  <1>3. CASE CloseConfig
    <2>1. \A c \in ConnIds :
            /\ conns'[c].server = conns[c].server
            /\ conns'[c].client # "open"
            /\ conns'[c].client = "none" <=> conns[c].client = "none"
            /\ conns'[c].toServer = conns[c].toServer
      BY <1>3, ClientHangUpEach DEF CloseConfig, CloseAndSleep
    <2> QED
      BY <1>3, <2>1, QueueTyped DEF CloseConfig, CloseAndSleep, Sockets, Accepted
  <1>4. CASE SendLow \/ SendHigh
    <2>1. UNCHANGED tcpVars /\ ~ClientStopped'
      BY <1>4 DEF SendLow, SendHigh, SendTrain, ClientStopped
    <2> QED
      BY <2>1 DEF Sockets, Accepted, tcpVars
  <1>5. CASE ReceiveVerdict \/ (SendConfig /\ ClientExit("failed"))
    BY <1>5, ClientExitSockets DEF ReceiveVerdict, SendConfig
  <1> QED
    BY <1>1, <1>2, <1>3, <1>4, <1>5 DEF ClientStep

LEMMA ServerSockets ==
  ASSUME TypeOK, Sockets, UNCHANGED clientVars, ServerStep \/ RunServer \/ ServerAbort
  PROVE  Sockets'
  <1> USE DEF clientVars, ClientStopped
  <1>1. CASE CloseAndParse \/ CloseServer \/ ServerAbort
    BY <1>1, ServerHangUpSockets
    DEF CloseAndParse, CloseThen, CloseServer, ServerAbort, ServerExit
  <1>2. CASE Listen1 \/ Listen2
    BY <1>2 DEF Listen1, Listen2, Listen, OpenListener, Sockets, Accepted
  <1>3. CASE Accept1 \/ Accept2
    <2>1. PICK d \in ConnIds : Accept(d)
      BY <1>3 DEF Accept1, Accept2, AcceptNext
    <2>2. spc' \in {"recv", "send"} /\ UNCHANGED listening /\ listening
      BY <1>3, <2>1 DEF Accept1, Accept2, AcceptNext, Accept, Sockets
    <2>3. conns[d].server # "none" /\ conns'[d].server = "accepted"
      BY <2>1, AcceptQueue, AcceptEach DEF Sockets
    <2>4. \A c \in ConnIds :
            /\ conns'[c].server # "none" => conns'[c].client # "none"
            /\ conns'[c].client = "open" => ~ClientStopped
            /\ conns'[c].toServer # <<>> => Head(conns'[c].toServer) = c[1]
            /\ conns[c].server # "none" => conns'[c].server # "none"
      BY <2>1, <2>3, AcceptEach DEF Sockets
    <2>5. \A i \in 1..Len(backlog') : conns'[backlog'[i]].server # "none"
      BY <2>1, <2>4, AcceptQueue, QueueTyped DEF Sockets
    <2> QED
      BY <2>2, <2>3, <2>4, <2>5 DEF Sockets, Accepted
  <1>4. CASE ReceiveConfig
    <2>1. /\ \A c \in ConnIds :
               /\ conns'[c].server = conns[c].server
               /\ conns'[c].client = conns[c].client
               /\ conns'[c].toServer # <<>> => Head(conns'[c].toServer) = c[1]
          /\ spc = "recv" /\ spc' = "parse" /\ UNCHANGED <<listening, backlog>>
      BY <1>4 DEF ReceiveConfig, TypeOK, NetworkTypeOK, Connections, Sockets
    <2> QED
      BY <2>1, QueueTyped DEF Sockets, Accepted
  <1>5. CASE SendVerdict
    <2>1. /\ \A c \in ConnIds :
               /\ conns'[c].server = conns[c].server
               /\ conns'[c].client = conns[c].client
               /\ conns'[c].toServer = conns[c].toServer
          /\ spc = "send" /\ spc' = "close" /\ UNCHANGED <<listening, backlog>>
      BY <1>5 DEF SendVerdict, TypeOK, NetworkTypeOK, Connections
    <2> QED
      BY <2>1, QueueTyped DEF Sockets, Accepted
  <1>6. CASE /\ UNCHANGED tcpVars
             /\ spc \notin {"accept1", "recv", "parse", "accept2", "send", "close"}
             /\ spc' # "recv"
    BY <1>6 DEF Sockets, Accepted, tcpVars
  <1>7. ServerStep \/ RunServer =>
          \/ Listen1 \/ Listen2 \/ Accept1 \/ Accept2 \/ ReceiveConfig \/ CloseAndParse
          \/ SendVerdict \/ CloseServer
          \/ /\ UNCHANGED tcpVars
             /\ spc \notin {"accept1", "recv", "parse", "accept2", "send", "close"}
             /\ spc' # "recv"
    BY DEF ServerStep, RunServer, StartServer, ServerStopped, Bind, ReceiveDatagram, ReceiveUpTo,
           TimeOut, TimeOutThen, LeaveLoop, Trains, Judge, tcpVars
  <1> QED
    BY <1>1, <1>2, <1>3, <1>4, <1>5, <1>6, <1>7

LEMMA SocketsStep == TypeOK /\ Untried /\ Sockets /\ [Next]_vars => Sockets'
  <1> SUFFICES ASSUME TypeOK, Untried, Sockets, [Next]_vars PROVE Sockets'
    OBVIOUS
  <1>1. CASE ClientNext
    BY <1>1, ClientSockets DEF ClientNext
  <1>2. CASE RunServer \/ ServerNext \/ (ServerAbort /\ UNCHANGED clientVars)
    BY <1>2, ServerSockets DEF RunServer, ServerNext
  <1>3. CASE RunClient
    BY <1>3 DEF RunClient, StartClient, Sockets, Accepted, ClientStopped, tcpVars, serverVars
  <1>4. CASE ClientAbort /\ UNCHANGED serverVars
    BY <1>4, ClientExitSockets DEF ClientAbort
  <1>5. CASE Deliver \/ Duplicate \/ Tick \/ UNCHANGED vars
    BY <1>5
    DEF Deliver, Duplicate, Tick, vars, Sockets, Accepted, ClientStopped, tcpVars, clientVars,
        serverVars
  <1> QED
    BY <1>1, <1>2, <1>3, <1>4, <1>5 DEF Next, Abort, Finished

\* Whoever can run does so within the tick, and the user is slower than a
\* datagram.
Sharp == Prompt = TRUE /\ MaxDelay < Second

\* While no client runs the server finishes with the last one, and the path
\* is drained of its datagrams.
Rested ==
    /\ ClientStopped =>
         /\ ctimer <= Second
         /\ \A p \in flight : Second - ctimer <= p.age
         /\ ctimer < Second => /\ spc \notin {"recv", "parse", "bind", "send", "close"}
                               /\ backlog = <<>>
    /\ cpc \in {"connect1", "send", "close"} => ctimer = 0

\* The server has a configuration and no verdict delivered, and it is not the
\* configuration of the present run.
BusyPcs == {"parse", "bind", "low", "high", "judge", "listen2", "accept2", "send"}
Busy    == spc \in BusyPcs /\ sess # 0
Stale   == Busy /\ sess # crun

\* Such a server hears nothing of the present run but its first connection,
\* gives its verdict to that, and is gone before the next tick.
StaleServer ==
    Stale =>
      /\ flight = {}
      /\ conns[Post].server = "none"
      /\ \/ cpc = "connect1" /\ spc \notin {"parse", "bind", "send"} /\ backlog = <<>>
         \/ /\ cpc \in {"send", "close"} \/ (cpc = "low" /\ ctimer = Second)
            /\ spc = "send" \/ (spc = "accept2" /\ backlog # <<>>)
         \/ cpc = "failed"

\* Datagrams, and the connections a configuration can come by, are those of
\* the present run.
CurrentRun ==
    /\ \A p \in flight : p.run = crun
    /\ spc \in {"accept1", "recv"} =>
         /\ \A i \in 1..Len(backlog) : backlog[i][1] = crun
         /\ \A c \in ConnIds : Accepted(c) => c[1] = crun

Turn == Rested /\ StaleServer /\ CurrentRun

LEMMA TurnInit == Init => Turn
  BY NetworkAssumption
  DEF Init, NetworkInit, ClientInit, ServerInit, Turn, Rested, StaleServer, CurrentRun, Stale,
      Busy, BusyPcs

LEMMA AgesTyped ==
  ASSUME TypeOK, NEW p \in flight
  PROVE  p.age \in Nat /\ p.age <= MaxDelay
  BY NetworkAssumption DEF TypeOK, NetworkTypeOK, Packets

LEMMA ServerMoves ==
  ASSUME TypeOK, Sockets, ServerStep \/ RunServer \/ ServerAbort
  PROVE  /\ UNCHANGED <<now, ctimer, flight>>
         /\ backlog' = backlog \/ backlog' = <<>> \/ backlog # <<>>
         /\ spc' \in {"recv", "send"} => backlog # <<>> /\ spc \in {"accept1", "accept2"}
         /\ spc' = "send" => spc = "accept2"
         /\ spc' = "parse" => spc = "recv" /\ ReceiveConfig
         /\ spc' = "bind" => spc = "parse"
         /\ spc' = "close" => spc = "send"
         /\ spc' \in BusyPcs /\ ~ReceiveConfig => spc \in BusyPcs /\ UNCHANGED sess
  <1>1. CASE Accept1 \/ Accept2
    BY <1>1, AcceptQueue DEF Accept1, Accept2, AcceptNext, BusyPcs, timeVars, udpVars
  <1>2. CASE ~Accept1 /\ ~Accept2
    BY <1>2
    DEF ServerStep, RunServer, StartServer, ServerAbort, ServerExit, ServerHangUp, Listen1,
        Listen2, Listen, OpenListener, ReceiveConfig, CloseAndParse, CloseThen, Bind,
        ReceiveDatagram, ReceiveUpTo, TimeOut, TimeOutThen, LeaveLoop, Trains, Judge,
        SendVerdict, CloseServer, BusyPcs, timeVars, tcpVars, udpVars
  <1> QED
    BY <1>1, <1>2

LEMMA RestedExit ==
  ASSUME TypeOK, NEW how \in {"done", "failed"}, ClientExit(how), UNCHANGED flight
  PROVE  Rested'
  BY AgesTyped, NetworkAssumption DEF ClientExit, Rested

LEMMA RestedStep ==
  Sharp /\ TypeOK /\ Sockets /\ Rested /\ [Next]_vars => Rested'
  <1> SUFFICES ASSUME Sharp, TypeOK, Sockets, Rested, [Next]_vars PROVE Rested'
    OBVIOUS
  <1>1. CASE ReceiveVerdict \/ ClientAbort \/ ((SendConfig \/ Connect1 \/ Connect2) /\ ClientExit("failed"))
    BY <1>1, RestedExit
    DEF ReceiveVerdict, ClientAbort, SendConfig, Connect1, Connect2, Connect, udpVars
  <1>2. CASE (SendConfig \/ Connect1 \/ Connect2) /\ ~ClientExit("failed")
    BY <1>2 DEF Connect1, Connect2, Connect, SendConfig, Rested, ClientStopped
  <1>8. CASE CloseConfig \/ SendLow \/ SendHigh
    BY <1>8 DEF CloseConfig, CloseAndSleep, SendLow, SendHigh, SendTrain, Rested, ClientStopped
  <1>3. CASE RunClient
    BY <1>3 DEF RunClient, StartClient, Rested, ClientStopped
  <1>4. CASE RunServer \/ ServerNext \/ (ServerAbort /\ UNCHANGED clientVars)
    BY <1>4, ServerMoves DEF RunServer, ServerNext, Rested, ClientStopped, clientVars
  <1>5. CASE Deliver \/ Duplicate
    BY <1>5
    DEF Deliver, Duplicate, Arrive, ArriveTwice, Lose, Rested, ClientStopped, timeVars, tcpVars,
        clientVars, serverVars
  <1>6. CASE Tick
    <2>1. ~ClientReady /\ ~ServerReady /\ UNCHANGED <<tcpVars, clientVars, serverVars>>
      BY <1>6 DEF Tick, Sharp
    <2>2. cpc \notin {"connect1", "send", "close"}
      BY <2>1 DEF ClientReady, ClientStopped, Rested
    <2>3. ASSUME ClientStopped
          PROVE  spc \notin {"recv", "parse", "bind", "send", "close"} /\ backlog = <<>>
      <3>1. spc \notin {"parse", "bind", "send", "close"}
        BY <2>1 DEF ServerReady, ServerStopped
      <3>2. spc # "recv"
        <4> SUFFICES ASSUME spc = "recv" PROVE FALSE
          OBVIOUS
        <4>1. PICK c \in ConnIds : Accepted(c)
          BY DEF Sockets
        <4>2. conns[c].client = "closed"
          BY <2>3, <4>1 DEF Sockets, Accepted, TypeOK, NetworkTypeOK, Connections
        <4> QED
          BY <2>1, <4>1, <4>2 DEF ServerReady, ServerStopped
      <3>3. backlog = <<>>
        BY <2>1, <3>1, <3>2 DEF Sockets, ServerReady, ServerStopped
      <3> QED
        BY <3>1, <3>2, <3>3
    <2>4. ASSUME ClientStopped
          PROVE  ctimer' <= Second /\ \A q \in flight' : Second - ctimer' <= q.age
      <3>1. ctimer \in Nat /\ ctimer' = Countdown(ctimer) /\ ctimer <= Second
        BY <1>6, <2>4 DEF Tick, Rested, TypeOK, NetworkTypeOK
      <3>2. ASSUME NEW p \in flight
            PROVE  Second - ctimer' <= [p EXCEPT !.age = @ + 1].age
        <4>1. p.age \in Nat /\ [p EXCEPT !.age = @ + 1].age = p.age + 1
          BY AgesTyped DEF TypeOK, NetworkTypeOK, Packets
        <4>2. Second - ctimer <= p.age
          BY <2>4 DEF Rested
        <4> QED
          BY <3>1, <4>1, <4>2, NetworkAssumption DEF Countdown
      <3>3. ctimer' <= Second
        BY <3>1, NetworkAssumption DEF Countdown
      <3>4. flight' = {[p EXCEPT !.age = @ + 1] : p \in flight}
        BY <1>6 DEF Tick
      <3> QED
        BY <3>2, <3>3, <3>4
    <2>5. UNCHANGED <<cpc, spc, backlog>>
      BY <2>1 DEF clientVars, serverVars, tcpVars
    <2>6. CASE ClientStopped
      <3>1. /\ ctimer' <= Second /\ \A q \in flight' : Second - ctimer' <= q.age
            /\ spc' \notin {"recv", "parse", "bind", "send", "close"} /\ backlog' = <<>>
        BY <2>3, <2>4, <2>5, <2>6
      <3> QED
        BY <2>2, <2>5, <3>1 DEF Rested
    <2>7. CASE ~ClientStopped
      BY <2>2, <2>5, <2>7 DEF Rested, ClientStopped
    <2> QED
      BY <2>6, <2>7
  <1>7. CASE UNCHANGED vars
    BY <1>7 DEF vars, Rested, ClientStopped, timeVars, tcpVars, udpVars, clientVars, serverVars
  <1> QED
    BY <1>1, <1>2, <1>3, <1>4, <1>5, <1>6, <1>7, <1>8
    DEF Next, Abort, Finished, ClientNext, ClientStep

\* When the client is run again nothing of the last run is left.
LEMMA NewRun ==
  ASSUME Sharp, TypeOK, Rested, RunClient
  PROVE  /\ flight = {} /\ backlog = <<>>
         /\ spc \notin {"recv", "parse", "bind", "send", "close"}
  <1>1. ClientStopped /\ ctimer = 0 /\ Second > 0 /\ Second \in Nat
    BY NetworkAssumption DEF RunClient, StartClient
  <1>2. \A p \in flight : FALSE
    BY <1>1, AgesTyped, NetworkAssumption DEF Rested, Sharp
  <1> QED
    BY <1>1, <1>2 DEF Rested

\* The second connection of the present run is not in the accept queue of a
\* server that holds it to be "none".
LEMMA ServerLeavesPost ==
  ASSUME TypeOK, Sockets, ServerStep \/ RunServer \/ ServerAbort,
         NEW c \in ConnIds, conns[c].server = "none"
  PROVE  conns'[c].server = "none"
  <1>1. CASE Accept1 \/ Accept2
    <2>1. PICK d \in ConnIds : Accept(d)
      BY <1>1 DEF Accept1, Accept2, AcceptNext
    <2>2. d # c
      BY <2>1, AcceptQueue DEF Sockets, Accept
    <2> QED
      BY <2>1, <2>2, AcceptEach
  <1>2. CASE CloseAndParse \/ CloseServer \/ ServerAbort
    BY <1>2, ServerHangUpEach
    DEF CloseAndParse, CloseThen, CloseServer, ServerAbort, ServerExit
  <1>3. CASE ReceiveConfig \/ SendVerdict
    <2>1. CASE ReceiveConfig
      <3>1. PICK d \in ConnIds : conns' = [conns EXCEPT ![d].toServer = <<>>]
        BY <2>1 DEF ReceiveConfig
      <3> QED
        BY <3>1 DEF TypeOK, NetworkTypeOK, Connections
    <2>2. CASE SendVerdict
      <3>1. PICK d \in ConnIds, v \in {<<[text |-> verdict, sess |-> sess,
                           from |-> {t.run : t \in win["low"].from \cup
                                                   win["high"].from}]>>} :
               conns' = [conns EXCEPT ![d].toClient = v]
        BY <2>2 DEF SendVerdict
      <3> QED
        BY <3>1 DEF TypeOK, NetworkTypeOK, Connections
    <2> QED
      BY <1>3, <2>1, <2>2
  <1>4. CASE RunServer \/ Listen1 \/ Listen2 \/ Bind \/ Judge
             \/ \E loop \in Trains : ReceiveDatagram(loop) \/ TimeOut(loop)
    BY <1>4
    DEF RunServer, StartServer, Listen1, Listen2, Listen, OpenListener, Bind, Judge,
        ReceiveDatagram, ReceiveUpTo, TimeOut, TimeOutThen, tcpVars
  <1> QED
    BY <1>1, <1>2, <1>3, <1>4 DEF ServerStep

LEMMA PostNames ==
  ASSUME TypeOK, crun # 0
  PROVE  Post \in ConnIds /\ Pre \in ConnIds /\ Pre # Post
  BY NetworkAssumption DEF Post, Pre, ConnIds, Runs, Phases, TypeOK, ClientTypeOK

\* A configuration that is received is the present run's.
LEMMA ConfigIsCurrent ==
  ASSUME TypeOK, Sockets, CurrentRun, ReceiveConfig
  PROVE  sess' \in {0, crun}
  <1>1. PICK c \in ConnIds : Accepted(c) /\ (sess' = 0 \/ (conns[c].toServer # <<>> /\ sess' = Head(conns[c].toServer)))
    BY DEF ReceiveConfig
  <1> QED
    BY <1>1 DEF ReceiveConfig, CurrentRun, Sockets

LEMMA StaleClient ==
  ASSUME TypeOK, Sockets, StaleServer, ClientStep \/ ClientAbort, UNCHANGED serverVars
  PROVE  StaleServer'
  <1> SUFFICES ASSUME Stale' PROVE StaleServer'
    BY DEF StaleServer
  <1>1. cpc # "idle" /\ crun # 0 /\ crun' = crun
    BY DEF ClientStep, Connect1, Connect2, Connect, SendConfig, CloseConfig, CloseAndSleep,
           SendLow, SendHigh, SendTrain, ReceiveVerdict, ClientAbort, ClientStopped, TypeOK,
           ClientTypeOK
  <1>2. Stale /\ Post' = Post /\ Post \in ConnIds /\ Pre \in ConnIds /\ Pre # Post
    BY <1>1, PostNames DEF Stale, Busy, serverVars, Post
  <1>3. /\ flight = {} /\ conns[Post].server = "none"
        /\ \/ cpc = "connect1" /\ spc \notin {"parse", "bind", "send"} /\ backlog = <<>>
           \/ /\ cpc \in {"send", "close"} \/ (cpc = "low" /\ ctimer = Second)
              /\ spc = "send" \/ (spc = "accept2" /\ backlog # <<>>)
           \/ cpc = "failed"
    BY <1>2 DEF StaleServer
  <1>4. \A how : ClientExit(how) => conns'[Post].server = "none"
    BY <1>2, <1>3, ClientHangUpEach DEF ClientExit
  <1>5. CASE Connect1 /\ ~ClientExit("failed")
    <2>1. listening /\ Dial(Pre) /\ cpc' = "send" /\ cpc = "connect1" /\ flight' = flight
      BY <1>5 DEF Connect1, Connect, udpVars
    <2>2. spc = "accept2"
      BY <1>2, <1>3, <2>1 DEF Sockets, Stale, Busy, BusyPcs
    <2>3. backlog' # <<>>
      BY <1>2, <2>1, DialQueue DEF Dial
    <2>4. conns'[Post].server = "none"
      BY <1>2, <1>3, <2>1, DialEach
    <2> QED
      BY <1>2, <1>3, <2>1, <2>2, <2>3, <2>4 DEF StaleServer, serverVars
  <1>6. CASE SendConfig /\ ~ClientExit("failed")
    <2>1. /\ cpc = "send" /\ cpc' = "close" /\ conns'[Post].server = conns[Post].server
          /\ UNCHANGED <<ctimer, backlog, flight>>
      BY <1>2, <1>6, SendConfigEach DEF SendConfig, udpVars
    <2> QED
      BY <1>2, <1>3, <2>1 DEF StaleServer, serverVars
  <1>7. CASE CloseConfig
    <2>1. conns'[Post].server = "none"
      BY <1>2, <1>3, <1>7, ClientHangUpEach DEF CloseConfig, CloseAndSleep
    <2> QED
      BY <1>2, <1>3, <1>7, <2>1 DEF CloseConfig, CloseAndSleep, StaleServer, serverVars, udpVars
  <1>8. CASE ClientAbort \/ ((Connect1 \/ SendConfig) /\ ClientExit("failed"))
    BY <1>2, <1>3, <1>4, <1>8
    DEF ClientAbort, Connect1, Connect, SendConfig, ClientExit, StaleServer, udpVars
  <1>9. CASE SendLow \/ SendHigh \/ Connect2 \/ ReceiveVerdict
    BY <1>3, <1>9, NetworkAssumption
    DEF SendLow, SendHigh, SendTrain, Connect2, Connect, ReceiveVerdict
  <1> QED
    BY <1>5, <1>6, <1>7, <1>8, <1>9 DEF ClientStep

LEMMA StaleServerMoves ==
  ASSUME TypeOK, Sockets, CurrentRun, StaleServer,
         ServerStep \/ RunServer \/ ServerAbort, UNCHANGED clientVars
  PROVE  StaleServer'
  <1> SUFFICES ASSUME Stale' PROVE StaleServer'
    BY DEF StaleServer
  <1>1. ~ReceiveConfig
    BY ConfigIsCurrent DEF Stale, Busy, clientVars
  <1>2. Stale /\ Post' = Post
    BY <1>1, ServerMoves DEF Stale, Busy, clientVars, Post
  <1>3. CASE crun = 0
    BY <1>2, <1>3 DEF StaleServer, TypeOK, ClientTypeOK
  <1>4. CASE crun # 0
    <2>1. /\ flight = {} /\ conns[Post].server = "none"
          /\ \/ cpc = "connect1" /\ spc \notin {"parse", "bind", "send"} /\ backlog = <<>>
             \/ /\ cpc \in {"send", "close"} \/ (cpc = "low" /\ ctimer = Second)
                /\ spc = "send" \/ (spc = "accept2" /\ backlog # <<>>)
             \/ cpc = "failed"
      BY <1>2 DEF StaleServer
    <2>2. flight' = {} /\ ctimer' = ctimer /\ conns'[Post].server = "none"
      BY <1>4, <2>1, PostNames, ServerMoves, ServerLeavesPost
    <2>3. CASE cpc = "connect1" /\ spc \notin {"parse", "bind", "send"} /\ backlog = <<>>
      BY <1>1, <1>2, <2>2, <2>3, ServerMoves DEF StaleServer, clientVars, Stale, Busy, BusyPcs
    <2>4. CASE spc = "send"
      BY <2>4, <1>2 DEF ServerStep, RunServer, StartServer, ServerAbort, ServerExit, Listen1,
            Listen2, Listen, Accept1, Accept2, AcceptNext, ReceiveConfig, CloseAndParse,
            CloseThen, Bind, ReceiveDatagram, ReceiveUpTo, TimeOut, TimeOutThen, Judge, Trains,
            SendVerdict, CloseServer, ServerStopped, Stale, Busy, BusyPcs
    <2>5. CASE spc = "accept2" /\ cpc \in {"send", "close", "low"}
      <3>1. spc' = "send"
        BY <2>5, <1>2 DEF ServerStep, RunServer, StartServer, ServerAbort, ServerExit, Listen1,
              Listen2, Listen, Accept1, Accept2, AcceptNext, ReceiveConfig, CloseAndParse,
              CloseThen, Bind, ReceiveDatagram, ReceiveUpTo, TimeOut, TimeOutThen, Judge,
              Trains, SendVerdict, CloseServer, ServerStopped, Stale, Busy, BusyPcs
      <3> QED
        BY <1>2, <2>1, <2>2, <2>5, <3>1 DEF StaleServer, clientVars
    <2>6. CASE cpc = "failed"
      BY <1>2, <2>2, <2>6 DEF StaleServer, clientVars
    <2> QED
      BY <2>1, <2>3, <2>4, <2>5, <2>6
  <1> QED
    BY <1>3, <1>4

LEMMA StaleServerStep ==
  Sharp /\ TypeOK /\ Sockets /\ Untried /\ Turn /\ [Next]_vars => StaleServer'
  <1> SUFFICES ASSUME Sharp, TypeOK, Sockets, Untried, Rested, StaleServer, CurrentRun, [Next]_vars
               PROVE  StaleServer'
    BY DEF Turn
  <1>1. CASE ClientNext \/ (ClientAbort /\ UNCHANGED serverVars)
    BY <1>1, StaleClient DEF ClientNext
  <1>2. CASE RunServer \/ ServerNext \/ (ServerAbort /\ UNCHANGED clientVars)
    BY <1>2, StaleServerMoves DEF RunServer, ServerNext
  <1>3. CASE RunClient
    <2>1. flight = {} /\ backlog = <<>> /\ spc \notin {"recv", "parse", "bind", "send", "close"}
      BY <1>3, NewRun
    <2>2. Post' = <<crun + 1, "post">> /\ Post' \in ConnIds /\ Undialled(Post')
      BY <1>3, NetworkAssumption
      DEF RunClient, StartClient, Post, ConnIds, Runs, Phases, Undialled, TypeOK, ClientTypeOK
    <2>3. conns[Post'].server = "none"
      BY <2>2 DEF Untried
    <2> QED
      BY <1>3, <2>1, <2>3 DEF RunClient, StartClient, StaleServer, serverVars, tcpVars, udpVars
  <1>4. CASE Deliver \/ Duplicate
    BY <1>4
    DEF Deliver, Duplicate, ArriveTwice, Arrive, Lose, StaleServer, Stale, Busy, Post, timeVars,
        tcpVars, clientVars, serverVars
  <1>5. CASE Tick
    <2>1. /\ ~ClientReady /\ ~ServerReady
          /\ UNCHANGED <<listening, backlog, conns, cpc, crun, spc, sess>>
          /\ flight' = {[p EXCEPT !.age = @ + 1] : p \in flight}
      BY <1>5 DEF Tick, Sharp, tcpVars, clientVars, serverVars
    <2> SUFFICES ASSUME Stale PROVE StaleServer'
      BY <2>1 DEF StaleServer, Stale, Busy
    <2>2. cpc \notin {"connect1", "send", "close"}
      BY <2>1 DEF ClientReady, ClientStopped, Rested
    <2>3. spc # "send" /\ (spc = "accept2" => backlog = <<>>)
      BY <2>1 DEF ServerReady, ServerStopped
    <2>4. flight = {} /\ conns[Post].server = "none" /\ cpc = "failed"
      BY <2>2, <2>3 DEF StaleServer
    <2> QED
      BY <2>1, <2>4 DEF StaleServer, Post
  <1>6. CASE UNCHANGED vars
    BY <1>6 DEF vars, StaleServer, Stale, Busy, Post, timeVars, tcpVars, udpVars, clientVars,
                serverVars
  <1> QED
    BY <1>1, <1>2, <1>3, <1>4, <1>5, <1>6 DEF Next, Abort, Finished

LEMMA CurrentRunStep ==
  Sharp /\ TypeOK /\ Sockets /\ Untried /\ Turn /\ [Next]_vars => CurrentRun'
  <1> SUFFICES ASSUME Sharp, TypeOK, Sockets, Untried, Rested, StaleServer, CurrentRun, [Next]_vars
               PROVE  CurrentRun'
    BY DEF Turn
  <1>1. CASE RunClient
    <2>1. flight = {} /\ backlog = <<>> /\ spc # "recv"
      BY <1>1, NewRun
    <2>2. \A c \in ConnIds : spc = "accept1" => ~Accepted(c)
      BY DEF Sockets
    <2> QED
      BY <1>1, <2>1, <2>2 DEF RunClient, StartClient, CurrentRun, Accepted, serverVars, tcpVars, udpVars
  <1>2. CASE ClientNext \/ (ClientAbort /\ UNCHANGED serverVars)
    <2>1. crun' = crun /\ spc' = spc
      BY <1>2
      DEF ClientNext, ClientStep, Connect1, Connect2, Connect, SendConfig, CloseConfig,
          CloseAndSleep, SendLow, SendHigh, SendTrain, ReceiveVerdict, ClientAbort, serverVars
    <2>2. \A p \in flight' : p.run = crun
      BY <1>2
      DEF ClientNext, ClientStep, Connect1, Connect2, Connect, SendConfig, CloseConfig,
          CloseAndSleep, SendLow, SendHigh, SendTrain, Launch, ReceiveVerdict, ClientAbort,
          CurrentRun, udpVars
    <2>3. CASE (Connect1 \/ Connect2) /\ ~ClientExit("failed")
      <3>1. PICK d \in ConnIds : Dial(d) /\ d[1] = crun
        <4>1. crun # 0
          BY <2>3 DEF Connect1, Connect2, Connect, TypeOK, ClientTypeOK
        <4> QED
          BY <2>3, <4>1, PostNames DEF Connect1, Connect2, Connect, Pre, Post
      <3>2. \A c \in ConnIds : conns'[c].server = "accepted" => Accepted(c)
        BY <3>1, DialEach DEF Accepted
      <3> QED
        BY <2>1, <2>2, <3>1, <3>2, DialQueue DEF CurrentRun, Accepted
    <2>4. CASE ~((Connect1 \/ Connect2) /\ ~ClientExit("failed"))
      <3>1. backlog' = backlog
        BY <1>2, <2>4
        DEF ClientNext, ClientStep, Connect1, Connect2, Connect, ClientExit, SendConfig,
            CloseConfig, CloseAndSleep, SendLow, SendHigh, SendTrain, ReceiveVerdict,
            ClientAbort, tcpVars
      <3>2. ClientHangUp \/ UNCHANGED conns \/ (SendConfig /\ ~ClientExit("failed"))
        BY <1>2, <2>4
        DEF ClientNext, ClientStep, Connect1, Connect2, Connect, ClientExit, SendConfig,
            CloseConfig, CloseAndSleep, SendLow, SendHigh, SendTrain, ReceiveVerdict,
            ClientAbort, tcpVars
      <3>3. \A c \in ConnIds : conns'[c].server = conns[c].server
        BY <3>2, ClientHangUpEach, SendConfigEach
      <3> QED
        BY <2>1, <2>2, <3>1, <3>3 DEF CurrentRun, Accepted
    <2> QED
      BY <2>3, <2>4
  <1>3. CASE RunServer \/ ServerNext \/ (ServerAbort /\ UNCHANGED clientVars)
    <2>1. crun' = crun /\ flight' = flight
      BY <1>3, ServerMoves DEF RunServer, ServerNext, clientVars
    <2>2. CASE Listen1
      <3>1. backlog' = <<>> /\ UNCHANGED conns /\ \A c \in ConnIds : ~Accepted(c)
        BY <2>2 DEF Listen1, Listen, OpenListener, Sockets
      <3> QED
        BY <2>1, <3>1 DEF CurrentRun, Accepted
    <2>3. CASE Accept1
      <3>1. PICK d \in ConnIds : Accept(d)
        BY <2>3 DEF Accept1, AcceptNext
      <3>2. d[1] = crun
        BY <2>3, <3>1, AcceptQueue DEF CurrentRun, Accept1, AcceptNext
      <3>3. \A c \in ConnIds : conns'[c].server = "accepted" => c = d
        BY <2>3, <3>1, AcceptEach DEF Sockets, Accept1, AcceptNext, Accepted
      <3>4. \A i \in 1..Len(backlog') : backlog'[i][1] = crun
        BY <2>3, <3>1, AcceptQueue DEF CurrentRun, Accept1, AcceptNext
      <3> QED
        BY <2>1, <3>2, <3>3, <3>4 DEF CurrentRun, Accepted
    <2>4. CASE ~Listen1 /\ ~Accept1
      <3>1. spc' \notin {"accept1", "recv"}
        BY <1>3, <2>4
        DEF RunServer, StartServer, ServerNext, ServerStep, ServerAbort, ServerExit, Listen1,
            Listen2, Listen, Accept2, AcceptNext, ReceiveConfig, CloseAndParse, CloseThen, Bind,
            ReceiveDatagram, ReceiveUpTo, TimeOut, TimeOutThen, LeaveLoop, Trains, Judge,
            SendVerdict, CloseServer
      <3> QED
        BY <2>1, <3>1 DEF CurrentRun
    <2> QED
      BY <2>2, <2>3, <2>4
  <1>4. CASE Deliver \/ Duplicate
    BY <1>4
    DEF Deliver, Duplicate, ArriveTwice, Arrive, Lose, CurrentRun, Accepted, timeVars, tcpVars,
        clientVars, serverVars
  <1>5. CASE Tick
    <2>1. /\ UNCHANGED <<backlog, conns, crun, spc>>
          /\ flight' = {[p EXCEPT !.age = @ + 1] : p \in flight}
      BY <1>5 DEF Tick, tcpVars, clientVars, serverVars
    <2>2. \A p \in flight : [p EXCEPT !.age = @ + 1].run = p.run
      BY DEF TypeOK, NetworkTypeOK, Packets
    <2> QED
      BY <2>1, <2>2 DEF CurrentRun, Accepted
  <1>6. CASE UNCHANGED vars
    BY <1>6 DEF vars, CurrentRun, Accepted, timeVars, tcpVars, udpVars, clientVars, serverVars
  <1> QED
    BY <1>1, <1>2, <1>3, <1>4, <1>5, <1>6 DEF Next, Abort, Finished

\* Datagrams the server keeps, and those it has counted, belong to the run
\* whose configuration it parsed.
OwnDatagrams ==
    /\ udpBound => spc \in {"low", "high", "judge"}
    /\ ~udpBound => sockbuf = <<>>
    /\ \A i \in 1..Len(sockbuf) : sockbuf[i].run = sess
    /\ \A t \in Trains : \A s \in win[t].from : s.run = sess

\* A verdict on its way to the present run is the present run's.
Own(m) == m # Blank => m.sess = crun /\ m.from \subseteq {crun}
OwnAnswers ==
    \A c \in ConnIds : c = Post =>
        \A i \in 1..Len(conns[c].toClient) : Own(conns[c].toClient[i])
OwnPrinted == \A i \in 1..Len(printed) : Own(printed[i])

LEMMA OwnInit == Init => OwnDatagrams /\ OwnAnswers /\ OwnPrinted
  BY DEF Init, NetworkInit, ClientInit, ServerInit, OwnDatagrams, OwnAnswers, OwnPrinted,
         Unmeasured

LEMMA OwnDatagramsStep ==
  TypeOK /\ Turn /\ OwnDatagrams /\ [Next]_vars => OwnDatagrams'
  <1> SUFFICES ASSUME TypeOK, StaleServer, CurrentRun, OwnDatagrams, [Next]_vars
               PROVE  OwnDatagrams'
    BY DEF Turn
  <1>1. CASE Deliver \/ Duplicate
    <2>1. PICK p \in flight : Arrive(p) \/ Lose(p) \/ ArriveTwice(p)
      BY <1>1 DEF Deliver, Duplicate
    <2>2. UNCHANGED <<udpBound, spc, sess, win>>
      BY <1>1, <2>1 DEF Deliver, Duplicate, Arrive, Lose, ArriveTwice, serverVars
    <2>3. CASE UNCHANGED sockbuf
      BY <2>2, <2>3 DEF OwnDatagrams
    <2>4. CASE udpBound /\ sockbuf' = Append(sockbuf, [run |-> p.run, train |-> p.train])
      <3>1. Busy
        BY <2>4 DEF OwnDatagrams, Busy, BusyPcs, TypeOK, ServerTypeOK
      <3>2. p.run = sess
        BY <2>1, <3>1 DEF Stale, StaleServer, CurrentRun
      <3>3. /\ [run |-> p.run, train |-> p.train] \in Sources
            /\ sockbuf \in Seq(Sources)
        BY <2>1 DEF TypeOK, NetworkTypeOK, Packets, Sources
      <3>4. \A i \in 1..Len(sockbuf') : sockbuf'[i].run = sess
        BY <2>4, <3>2, <3>3 DEF OwnDatagrams
      <3> QED
        BY <2>2, <2>4, <3>4 DEF OwnDatagrams
    <2> QED
      BY <2>1, <2>3, <2>4 DEF Arrive, Lose, ArriveTwice
  <1>2. CASE ClientNext \/ RunClient \/ (ClientAbort /\ UNCHANGED serverVars) \/ Tick
    BY <1>2
    DEF ClientNext, RunClient, StartClient, Tick, ClientStep, Connect1, Connect2, Connect,
        SendConfig, CloseConfig, CloseAndSleep, SendLow, SendHigh, SendTrain, ReceiveVerdict,
        ClientAbort, OwnDatagrams, serverVars, udpVars
  <1>3. CASE \E loop \in Trains : ReceiveDatagram(loop)
    <2>1. PICK loop \in Trains : ReceiveDatagram(loop)
      BY <1>3
    <2>2. /\ sockbuf # <<>> /\ sockbuf' = Tail(sockbuf) /\ sockbuf \in Seq(Sources)
          /\ win' = [win EXCEPT ![loop] = Stamp(@, Head(sockbuf))]
          /\ UNCHANGED <<udpBound, sess>> /\ spc' \in {"low", "high", "judge"}
          /\ udpBound
      BY <2>1 DEF ReceiveDatagram, ReceiveUpTo, LeaveLoop, Trains, OwnDatagrams, TypeOK,
                  NetworkTypeOK
    <2>3. \A i \in 1..Len(sockbuf') : i + 1 \in 1..Len(sockbuf) /\ sockbuf'[i] = sockbuf[i + 1]
      BY <2>2
    <2>4. Head(sockbuf).run = sess
      BY <2>2 DEF OwnDatagrams
    <2>5. \A t \in Trains : \A s \in win'[t].from : s \in win[t].from \/ s = Head(sockbuf)
      BY <2>2 DEF Stamp, TypeOK, ServerTypeOK
    <2> QED
      BY <2>2, <2>3, <2>4, <2>5 DEF OwnDatagrams
  <1>4. CASE ReceiveConfig \/ RunServer
    BY <1>4 DEF ReceiveConfig, RunServer, StartServer, ServerStopped, OwnDatagrams, udpVars,
                Unmeasured, TypeOK, ServerTypeOK
  <1>5. CASE (\E loop \in Trains : TimeOut(loop)) \/ Bind \/ Judge \/ Listen1 \/ Listen2
             \/ Accept1 \/ Accept2 \/ SendVerdict
    BY <1>5
    DEF TimeOut, TimeOutThen, LeaveLoop, Trains, Bind, Judge, Listen1, Listen2, Listen, Accept1,
        Accept2, AcceptNext, SendVerdict, OwnDatagrams, udpVars
  <1>6. CASE CloseAndParse \/ CloseServer \/ ServerAbort
    BY <1>6 DEF CloseAndParse, CloseThen, CloseServer, ServerAbort, ServerExit, OwnDatagrams,
                udpVars
  <1>7. CASE UNCHANGED vars
    BY <1>7 DEF vars, OwnDatagrams, udpVars, serverVars
  <1> QED
    BY <1>1, <1>2, <1>3, <1>4, <1>5, <1>6, <1>7
    DEF Next, Abort, Finished, ServerNext, ServerStep

LEMMA OwnAnswersStep ==
  Sharp /\ TypeOK /\ Sockets /\ Untried /\ Turn /\ OwnDatagrams /\ OwnAnswers /\ [Next]_vars
    => OwnAnswers'
  <1> SUFFICES ASSUME Sharp, TypeOK, Sockets, Untried, StaleServer, OwnDatagrams, OwnAnswers,
                      [Next]_vars
               PROVE  OwnAnswers'
    BY DEF Turn
  <1>1. CASE RunClient
    <2>1. Post' = <<crun + 1, "post">> /\ Post' \in ConnIds /\ Undialled(Post')
      BY <1>1, NetworkAssumption
      DEF RunClient, StartClient, Post, ConnIds, Runs, Phases, Undialled, TypeOK, ClientTypeOK
    <2>2. conns'[Post'].toClient = <<>>
      BY <1>1, <2>1 DEF Untried, RunClient, StartClient, tcpVars
    <2> QED
      BY <2>2 DEF OwnAnswers
  <1>2. CASE SendVerdict /\ UNCHANGED clientVars
    <2>1. PICK d \in ConnIds :
            /\ Accepted(d)
            /\ conns' = [conns EXCEPT ![d].toClient =
                           <<[text |-> verdict, sess |-> sess,
                              from |-> {s.run : s \in win["low"].from \cup
                                                      win["high"].from}]>>]
      BY <1>2 DEF SendVerdict
    <2>2. crun' = crun /\ Post' = Post
      BY <1>2 DEF clientVars, Post
    <2>3. \A c \in ConnIds : c # d => conns'[c].toClient = conns[c].toClient
      BY <2>1 DEF TypeOK, NetworkTypeOK
    <2>4. CASE d # Post
      BY <2>2, <2>3, <2>4 DEF OwnAnswers, Own
    <2>5. CASE d = Post
      <3> DEFINE m == [text |-> verdict, sess |-> sess,
                       from |-> {s.run : s \in win["low"].from \cup win["high"].from}]
      <3>1. conns'[d].toClient = <<m>>
        BY <2>1 DEF TypeOK, NetworkTypeOK, Connections
      <3>2. Busy
        BY <1>2 DEF SendVerdict, Busy, BusyPcs, TypeOK, ServerTypeOK
      <3>3. sess = crun
        BY <2>1, <2>5, <3>2 DEF Accepted, Stale, StaleServer
      <3>4. m.from \subseteq {crun}
        BY <3>3 DEF OwnDatagrams, Trains
      <3>5. m.sess = crun
        BY <3>3
      <3> HIDE DEF m
      <3>6. \A j \in 1..Len(<<m>>) : <<m>>[j] = m
        OBVIOUS
      <3> QED
        BY <2>2, <2>3, <2>5, <3>1, <3>4, <3>5, <3>6 DEF OwnAnswers, Own
    <2> QED
      BY <2>4, <2>5
  <1>3. CASE ~RunClient /\ ~(SendVerdict /\ UNCHANGED clientVars)
    <2>1. crun' = crun
      BY <1>3
      DEF Next, Abort, Finished, vars, clientVars, ClientNext, ClientStep, RunServer, ServerNext,
          Deliver, Duplicate, Tick, Connect1, Connect2, Connect, SendConfig, CloseConfig,
          CloseAndSleep, SendLow, SendHigh, SendTrain, ReceiveVerdict, ClientAbort
    <2>2. \/ UNCHANGED conns \/ ClientHangUp \/ ServerHangUp
          \/ \E d \in ConnIds : Dial(d) \/ Accept(d)
          \/ SendConfig /\ ~ClientExit("failed")
          \/ ReceiveConfig
      <3>1. CASE Connect1 \/ Connect2
        <4>1. Pre \in ConnIds /\ Post \in ConnIds
          BY <3>1, PostNames DEF Connect1, Connect2, Connect, TypeOK, ClientTypeOK
        <4> QED
          BY <3>1, <4>1 DEF Connect1, Connect2, Connect, ClientExit
      <3>2. CASE ClientNext /\ ~Connect1 /\ ~Connect2
        BY <3>2
        DEF ClientNext, ClientStep, SendConfig, CloseConfig, CloseAndSleep, SendLow, SendHigh,
            SendTrain, ReceiveVerdict, ClientExit, tcpVars
      <3>3. CASE RunServer \/ ServerNext \/ Abort
        BY <1>3, <3>3
        DEF RunServer, StartServer, ServerNext, ServerStep, Abort, ClientAbort, ClientExit,
            ServerAbort, ServerExit, Listen1, Listen2, Listen, OpenListener, Accept1, Accept2,
            AcceptNext, CloseAndParse, CloseThen, Bind, ReceiveDatagram, ReceiveUpTo, TimeOut,
            TimeOutThen, Judge, CloseServer, tcpVars
      <3>4. CASE Deliver \/ Duplicate \/ Tick \/ Finished \/ UNCHANGED vars
        BY <3>4 DEF Deliver, Duplicate, Tick, Finished, vars, tcpVars
      <3> QED
        BY <1>3, <3>1, <3>2, <3>3, <3>4 DEF Next, ClientNext, ClientStep
    <2>3. ASSUME NEW c \in ConnIds
          PROVE  conns'[c].toClient = conns[c].toClient
      <3>1. CASE ReceiveConfig
        <4>1. PICK d \in ConnIds : conns' = [conns EXCEPT ![d].toServer = <<>>]
          BY <3>1 DEF ReceiveConfig
        <4> QED
          BY <4>1 DEF TypeOK, NetworkTypeOK, Connections
      <3>2. CASE \E d \in ConnIds : Dial(d)
        <4>1. PICK d \in ConnIds : conns' = [conns EXCEPT ![d].client = "open",
                                                          ![d].server = "queued"]
          BY <3>2 DEF Dial
        <4> QED
          BY <4>1 DEF TypeOK, NetworkTypeOK, Connections
      <3> QED
        BY <2>2, <3>1, <3>2, AcceptEach, ClientHangUpEach, ServerHangUpEach, SendConfigEach
    <2> QED
      BY <2>1, <2>3 DEF OwnAnswers, Own, Post
  <1> QED
    BY <1>1, <1>2, <1>3

LEMMA OwnPrintedStep ==
  TypeOK /\ OwnAnswers /\ OwnPrinted /\ [Next]_vars => OwnPrinted'
  <1> SUFFICES ASSUME TypeOK, OwnAnswers, OwnPrinted, [Next]_vars PROVE OwnPrinted'
    OBVIOUS
  <1>1. CASE ReceiveVerdict
    <2>1. crun' = crun /\ Post \in ConnIds
      BY <1>1, PostNames DEF ReceiveVerdict, TypeOK, ClientTypeOK
    <2>2. CASE printed' = conns[Post].toClient
      BY <2>1, <2>2 DEF OwnAnswers, OwnPrinted, Own
    <2>3. CASE printed' = <<Blank>>
      BY <2>3 DEF OwnPrinted, Own
    <2>4. CASE UNCHANGED printed
      BY <2>1, <2>4 DEF OwnPrinted, Own
    <2> QED
      BY <1>1, <2>2, <2>3, <2>4 DEF ReceiveVerdict
  <1>2. CASE RunClient
    BY <1>2 DEF RunClient, StartClient, OwnPrinted
  <1>3. CASE ~ReceiveVerdict /\ ~RunClient
    <2>1. UNCHANGED <<printed, crun>>
      BY <1>3
      DEF Next, Abort, Finished, vars, clientVars, ClientNext, ClientStep, RunServer, ServerNext,
          Deliver, Duplicate, Tick, Connect1, Connect2, Connect, SendConfig, CloseConfig,
          CloseAndSleep, SendLow, SendHigh, SendTrain, ClientAbort
    <2> QED
      BY <2>1 DEF OwnPrinted, Own
  <1> QED
    BY <1>1, <1>2, <1>3

\* On hosts that run whoever can run within the tick, and for a user slower
\* than a datagram, post_probing shows nobody another run's measurement,
\* whatever crashes, is lost, is duplicated, and however often either program
\* is run again.
THEOREM VerdictIsOwn == Sharp /\ Spec => []OwnMeasurement
  <1> SUFFICES ASSUME Sharp PROVE Spec => []OwnMeasurement
    OBVIOUS
  <1> DEFINE Inv == /\ TypeOK /\ Sockets /\ Untried /\ Turn
                    /\ OwnDatagrams /\ OwnAnswers /\ OwnPrinted
  <1>1. Init => Inv
    BY TypeInit, SocketsInit, UntriedInit, TurnInit, OwnInit
  <1>2. Inv /\ [Next]_vars => Inv'
    BY TypeStep, SocketsStep, UntriedStep, RestedStep, StaleServerStep, CurrentRunStep,
       OwnDatagramsStep, OwnAnswersStep, OwnPrintedStep
    DEF Turn
  <1>3. Inv => OwnMeasurement
    BY DEF OwnMeasurement, OwnPrinted, Own
  <1> HIDE DEF Inv
  <1> QED
    BY <1>1, <1>2, <1>3, PTL DEF Spec

=============================================================================
