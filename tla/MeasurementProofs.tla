-------------------------- MODULE MeasurementProofs --------------------------
(***************************************************************************)
(* One run of the client: the README's rule for udp_timeout separates the  *)
(* trains, and what the receiving loops of probing measure.  Proofs that   *)
(* the invariants of Separation and Measurement are inductive, for every   *)
(* train size, timeout, pause, time, delay, gap and buffer, and of the     *)
(* properties that follow from them.                                       *)
(***************************************************************************)
EXTENDS Measurement, CooperativeProofs, FiniteSetTheorems

-----------------------------------------------------------------------------
(***************************************************************************)
(* The trains are apart: Separated is inductive.                           *)
(***************************************************************************)
\* There is one run, and it uses two connections.
LEMMA OneRunNames ==
  ASSUME Single
  PROVE  /\ Runs = {1}
         /\ First \in ConnIds
         /\ TypeOK /\ cpc # "idle" =>
              crun = 1 /\ Pre = First /\ Post # First /\ Post \in ConnIds
  <1>1. Runs = {1}
    BY DEF Single, Runs
  <1>2. First \in ConnIds
    BY <1>1 DEF First, ConnIds, Phases
  <1>3. ASSUME TypeOK, cpc # "idle"
        PROVE  crun = 1 /\ Pre = First /\ Post # First /\ Post \in ConnIds
    <2>1. crun \in Runs /\ Post \in ConnIds
      BY <1>3, RunningClient DEF TypeOK
    <2> QED
      BY <1>1, <2>1 DEF Pre, Post, First
  <1> QED
    BY <1>1, <1>2, <1>3

LEMMA HandshakeInit == Single /\ Init => Handshake
  <1> SUFFICES ASSUME Single, Init PROVE Handshake
    OBVIOUS
  <1> USE DEF Init, NetworkInit, ClientInit, ServerInit
  <1>1. \A c \in ConnIds : /\ conns[c].server = "none"
                           /\ conns[c].client = "none"
                           /\ conns[c].toServer = <<>>
    OBVIOUS
  <1>2. First \in ConnIds
    BY OneRunNames
  <1> QED
    BY <1>1, <1>2
    DEF Handshake, Listening, Untouched, FirstConnection, FirstClient,
        AtFirst, Preparing

LEMMA SeparatedInit == OneRun /\ Init => Separated
  <1> SUFFICES ASSUME OneRun, Init PROVE Separated
    OBVIOUS
  <1>1. Handshake
    BY HandshakeInit DEF OneRun
  <1> USE DEF Init, NetworkInit, ClientInit, ServerInit
  <1>2. Timing
    BY DEF Timing, Asleep
  <1>3. HighIsLate
    BY DEF HighIsLate, HighAbroad
  <1>4. NoHighInLow
    <2>1. win["low"].from = {}
      BY DEF Unmeasured, Trains
    <2> QED
      BY <2>1 DEF NoHighInLow
  <1> QED
    BY <1>1, <1>2, <1>3, <1>4 DEF Separated

-----------------------------------------------------------------------------
(***************************************************************************)
(* What a step cannot disturb.                                             *)
(***************************************************************************)

\* Timing and HighIsLate look at the UDP side only through these variables.
LEMMA TimingFrame ==
  ASSUME Timing,
         UNCHANGED <<ctimer, cpc, ci, flight>>,
         spc' = "low" => /\ spc = "low" /\ stimer' = stimer
                         /\ sockbuf' # <<>> => sockbuf # <<>>
  PROVE  Timing'
  BY DEF Timing, Asleep

LEMMA HighFrame ==
  ASSUME HighIsLate, Past => Past',
         HighAbroad' => HighAbroad
  PROVE  HighIsLate'
  BY DEF HighIsLate

LEMMA HighAbroadFrame ==
  ASSUME UNCHANGED <<cpc, ci, flight, sockbuf>>
  PROVE  HighAbroad' => HighAbroad
  BY DEF HighAbroad

LEMMA NoHighFrame ==
  ASSUME NoHighInLow, win' = win
  PROVE  NoHighInLow'
  BY DEF NoHighInLow

-----------------------------------------------------------------------------
(***************************************************************************)
(* The server's steps.                                                     *)
(***************************************************************************)

LEMMA ListenShakes ==
  ASSUME Single, TypeOK, Handshake, UNCHANGED clientVars,
         Listen("listen1", "accept1") \/ Listen("listen2", "accept2")
  PROVE  Handshake'
  BY DEF Listen, OpenListener, timeVars, udpVars, clientVars,
         Handshake, Listening, Untouched, FirstConnection, FirstClient,
         AtFirst, Preparing, Early

LEMMA ListenSeparates ==
  ASSUME OneRun, TypeOK, Separated, UNCHANGED clientVars,
         Listen("listen1", "accept1") \/ Listen("listen2", "accept2")
  PROVE  Separated'
  <1> USE DEF Listen, OpenListener, timeVars, udpVars, clientVars, Separated
  <1>1. Handshake'
    BY ListenShakes DEF OneRun
  <1>2. Timing'
    BY TimingFrame
  <1>3. HighIsLate'
    BY HighFrame, HighAbroadFrame DEF Past, AtFirst, Preparing
  <1>4. NoHighInLow'
    BY NoHighFrame
  <1> QED
    BY <1>1, <1>2, <1>3, <1>4

LEMMA AcceptShakes ==
  ASSUME Single, TypeOK, Handshake, UNCHANGED clientVars,
         AcceptNext("accept1", "recv") \/ AcceptNext("accept2", "send")
  PROVE  /\ Handshake'
         /\ AtFirst({"closed", "reset"}) => AtFirst({"closed", "reset"})'
         /\ ~Preparing'
  <1> USE DEF AcceptNext, timeVars, udpVars, clientVars
  <1>1. PICK c \in ConnIds : Accept(c)
    OBVIOUS
  <1>2. /\ backlog \in Seq(ConnIds) /\ backlog # <<>>
        /\ c = backlog[1] /\ backlog' = Tail(backlog)
        /\ \A d \in ConnIds \ {c} : conns'[d] = conns[d]
        /\ conns'[c] = [conns[c] EXCEPT !.server = "accepted"]
        /\ conns[c] \in Connections
        /\ UNCHANGED listening
    BY <1>1 DEF Accept, TypeOK, NetworkTypeOK
  <1>3. /\ conns'[c].server = "accepted"
        /\ conns'[c].client = conns[c].client
        /\ conns'[c].toServer = conns[c].toServer
    BY <1>2 DEF Connections
  <1>4. First \in ConnIds /\ ~Preparing'
    BY OneRunNames DEF Preparing
  <1>5. cpc \notin {"idle", "connect1"}
    BY <1>2 DEF Handshake, Untouched
  <1>6. CASE c = First
    <2>1. AtFirst({"queued"}) /\ spc = "accept1" /\ backlog = <<First>> /\ Early
      <3>1. 1 \in 1..Len(backlog)
        BY <1>2
      <3> QED
        BY <1>2, <1>6, <3>1 DEF Handshake, FirstConnection
    <2>2. backlog' = <<>> /\ spc' = "recv"
      BY <1>2, <2>1
    <2>3. FirstConnection'
      <3>1. \A d \in ConnIds : conns'[d].toServer # <<>> => d = First
        <4>1. \A d \in ConnIds : conns'[d].toServer = conns[d].toServer
          BY <1>2, <1>3
        <4> QED
          BY <4>1 DEF Handshake, FirstConnection
      <3>2. \A i \in 1..Len(backlog') : FALSE
        BY <2>2
      <3>3. Early' /\ ~AtFirst({"queued"})' /\ ~Preparing'
        BY <1>3, <1>6, <2>1, <2>2 DEF AtFirst, Preparing, Early
      <3> QED
        BY <2>2, <3>1, <3>2, <3>3 DEF FirstConnection
    <2>4. FirstClient'
      BY <1>2, <1>3, <1>6, <2>1
      DEF Handshake, FirstClient, AtFirst
    <2>5. Handshake'
      BY <1>2, <1>5, <2>3, <2>4 DEF Handshake, Listening, Untouched
    <2> QED
      BY <1>4, <2>1, <2>5 DEF AtFirst
  <1>7. CASE c # First
    <2>1. UNCHANGED conns[First]
      BY <1>2, <1>4, <1>7
    <2>2. ~AtFirst({"queued", "accepted"})
      BY <1>2, <1>7 DEF Handshake, FirstConnection, AtFirst
    <2>3. \A i \in 1..Len(backlog') : backlog'[i] # First
      <3>1. \A i \in 1..Len(backlog') : i+1 \in 1..Len(backlog)
                                        /\ backlog'[i] = backlog[i+1]
        BY <1>2
      <3> QED
        BY <3>1, <2>2 DEF Handshake, FirstConnection, AtFirst
    <2>4. Handshake'
      <3>1. \A d \in ConnIds : conns'[d].toServer = conns[d].toServer
        BY <1>2, <1>3
      <3>2. ~AtFirst({"queued", "accepted"})' /\ ~Preparing'
        BY <2>1, <2>2 DEF AtFirst, Preparing
      <3>3. FirstConnection'
        BY <2>3, <3>1, <3>2 DEF Handshake, FirstConnection, AtFirst
      <3>4. FirstClient'
        BY <2>1 DEF Handshake, FirstClient, AtFirst
      <3> QED
        BY <1>2, <1>5, <3>3, <3>4 DEF Handshake, Listening, Untouched
    <2> QED
      BY <1>4, <2>1, <2>4 DEF AtFirst
  <1> QED
    BY <1>6, <1>7

LEMMA AcceptSeparates ==
  ASSUME OneRun, TypeOK, Separated, UNCHANGED clientVars,
         AcceptNext("accept1", "recv") \/ AcceptNext("accept2", "send")
  PROVE  Separated'
  <1> USE DEF AcceptNext, timeVars, udpVars, clientVars, Separated
  <1>1. Handshake' /\ (Past => Past')
    BY AcceptShakes DEF OneRun, Past
  <1>2. HighIsLate'
    BY <1>1, HighFrame, HighAbroadFrame
  <1> QED
    BY <1>1, <1>2, TimingFrame, NoHighFrame

LEMMA ReceiveConfigShakes ==
  ASSUME Single, TypeOK, Handshake, UNCHANGED clientVars, ReceiveConfig
  PROVE  /\ Handshake'
         /\ Preparing' => AtFirst({"accepted"})
         /\ \A states : AtFirst(states)' <=> AtFirst(states)
  <1> USE DEF ReceiveConfig, timeVars, udpVars, clientVars
  <1>1. PICK c \in ConnIds :
           /\ conns[c].server = "accepted"
           /\ sess' # 0 => conns[c].toServer # <<>>
           /\ conns' = [conns EXCEPT ![c].toServer = <<>>]
    BY DEF Accepted
  <1>2. \A d \in ConnIds : /\ conns'[d].server = conns[d].server
                           /\ conns'[d].client = conns[d].client
                           /\ conns'[d].toServer # <<>> => conns[d].toServer # <<>>
    BY <1>1 DEF TypeOK, NetworkTypeOK, Connections
  <1>3. First \in ConnIds
    BY OneRunNames
  <1>4. sess' # 0 => AtFirst({"accepted"})
    BY <1>1 DEF Handshake, FirstConnection, AtFirst
  <1>5. AtFirst({"accepted"}) => Early
    BY DEF Handshake, FirstConnection
  <1>6. Handshake'
    BY <1>2, <1>3, <1>4, <1>5
    DEF Handshake, Listening, Untouched, FirstConnection, FirstClient,
        AtFirst, Preparing, Early
  <1> QED
    BY <1>2, <1>3, <1>4, <1>6 DEF Preparing, AtFirst

LEMMA ReceiveConfigSeparates ==
  ASSUME OneRun, TypeOK, Separated, UNCHANGED clientVars, ReceiveConfig
  PROVE  Separated'
  <1> USE DEF ReceiveConfig, timeVars, udpVars, clientVars, Separated
  <1>1. Handshake' /\ (Past => Past')
    BY ReceiveConfigShakes DEF OneRun, Past, AtFirst
  <1>2. HighIsLate'
    BY <1>1, HighFrame, HighAbroadFrame
  <1> QED
    BY <1>1, <1>2, TimingFrame, NoHighFrame

\* Closing the server's sockets puts the first connection beyond its reach.
LEMMA HangUpFirst ==
  ASSUME Single, TypeOK, ServerHangUp
  PROVE  /\ \A c \in ConnIds : /\ conns'[c].client = conns[c].client
                               /\ conns'[c].toServer = conns[c].toServer
                               /\ conns[c].server = "none" => conns'[c].server = "none"
         /\ AtFirst({"none"}) => AtFirst({"none"})'
         /\ ~AtFirst({"none"}) => AtFirst({"closed", "reset"})'
         /\ backlog' = <<>> /\ listening' = FALSE
  <1>1. First \in ConnIds
    BY OneRunNames
  <1>2. \A c \in ConnIds : conns[c] \in Connections
    BY DEF TypeOK, NetworkTypeOK
  <1>3. \A c \in ConnIds : /\ conns'[c].client = conns[c].client
                           /\ conns'[c].toServer = conns[c].toServer
                           /\ conns[c].server = "none" => conns'[c].server = "none"
                           /\ conns[c].server # "none" =>
                                conns'[c].server \in {"closed", "reset"}
    BY <1>2 DEF ServerHangUp, Accepted, Connections
  <1> QED
    BY <1>1, <1>3 DEF AtFirst, ServerHangUp

LEMMA CloseAndParseShakes ==
  ASSUME Single, TypeOK, Handshake, UNCHANGED clientVars, CloseAndParse
  PROVE  Handshake'
  <1> USE DEF CloseAndParse, CloseThen, timeVars, udpVars, clientVars
  <1>1. FirstConnection'
    BY HangUpFirst DEF Handshake, FirstConnection, AtFirst, Preparing, Early
  <1>2. FirstClient'
    BY HangUpFirst, OneRunNames DEF Handshake, FirstClient, AtFirst
  <1>3. Listening' /\ Untouched'
    BY HangUpFirst DEF Handshake, Listening, Untouched
  <1> QED
    BY <1>1, <1>2, <1>3 DEF Handshake

LEMMA CloseAndParseSeparates ==
  ASSUME OneRun, TypeOK, Separated, UNCHANGED clientVars, CloseAndParse
  PROVE  Separated'
  <1> USE DEF CloseAndParse, CloseThen, timeVars, udpVars, clientVars, Separated
  <1>1. Handshake'
    BY CloseAndParseShakes DEF OneRun
  <1>2. HighIsLate'
    BY HangUpFirst, HighFrame, HighAbroadFrame DEF OneRun, Past, AtFirst, Preparing
  <1>3. Timing'
    BY TimingFrame
  <1> QED
    BY <1>1, <1>2, <1>3, NoHighFrame

\* The loop is entered early, before the client has slept.
LEMMA BindShakes ==
  ASSUME Single, TypeOK, Handshake, UNCHANGED clientVars, Bind
  PROVE  Handshake' /\ Preparing /\ Early /\ cpc \notin {"idle", "connect1"}
  <1> USE DEF Bind, tcpVars, clientVars
  <1>1. Preparing
    BY DEF TypeOK, ServerTypeOK, Preparing
  <1>2. Early /\ cpc \notin {"idle", "connect1"}
    BY <1>1 DEF Handshake, FirstConnection, Untouched
  <1> QED
    BY <1>1, <1>2
    DEF Handshake, Listening, Untouched, FirstConnection, FirstClient,
        AtFirst, Preparing, Early

LEMMA BindSeparates ==
  ASSUME OneRun, TypeOK, Separated, UNCHANGED clientVars, Bind
  PROVE  Separated'
  <1> USE DEF Bind, tcpVars, clientVars, Separated
  <1>1. Handshake' /\ Preparing /\ Early
    BY BindShakes DEF OneRun
  <1>4. ~Asleep
    BY <1>1 DEF Early, Asleep
  <1>5. Timing'
    BY <1>4, NetworkAssumption DEF Timing, Asleep
  <1>6. ~Past
    BY <1>1 DEF Past
  <1>7. HighIsLate'
    BY <1>6, HighAbroadFrame DEF HighIsLate
  <1> QED
    BY <1>1, <1>5, <1>7, NoHighFrame

\* Leaving a loop, or receiving in it, concerns neither connections nor Past.
LEMMA LoopHandshake ==
  ASSUME Handshake, spc \in Trains, spc' \in {"low", "high", "judge"},
         UNCHANGED <<ctimer, tcpVars, sess, clientVars>>
  PROVE  Handshake'
  BY DEF Handshake, Listening, Untouched, FirstConnection, FirstClient,
         AtFirst, Preparing, Early, Trains, tcpVars, clientVars

LEMMA LoopPast ==
  ASSUME Past, spc \in Trains, spc' # "low",
         UNCHANGED <<tcpVars, sess>>, spc' \in {"low", "high", "judge"}
  PROVE  Past'
  BY DEF Past, AtFirst, Preparing, tcpVars

LEMMA ReceiveDatagramSeparates ==
  ASSUME OneRun, TypeOK, Separated, UNCHANGED clientVars,
         NEW loop \in Trains, ReceiveDatagram(loop)
  PROVE  Separated'
  <1> USE DEF ReceiveDatagram, ReceiveUpTo, clientVars, Separated
  <1>1. sockbuf \in Seq(Sources) /\ sockbuf # <<>> /\ sockbuf' = Tail(sockbuf)
    BY DEF TypeOK, NetworkTypeOK
  <1>2. /\ spc = loop
        /\ \/ spc' = loop /\ stimer' = UdpTimeout
           \/ spc' \in {"high", "judge"}
    BY DEF LeaveLoop
  <1>3. Handshake'
    BY <1>2, LoopHandshake DEF Trains
  <1>4. HighAbroad' => HighAbroad
    <2>1. \A i \in 1..Len(sockbuf') : i+1 \in 1..Len(sockbuf)
                                      /\ sockbuf'[i] = sockbuf[i+1]
      BY <1>1
    <2> QED
      BY <2>1 DEF HighAbroad
  <1>5. HighIsLate'
    <2>1. Past => Past'
      BY <1>2, LoopPast DEF Past, Trains
    <2> QED
      BY <1>4, <2>1, HighFrame
  <1>6. Timing'
    <2>1. CASE spc' = "low"
      <3>1. spc = "low" /\ stimer' = UdpTimeout
        BY <1>2, <2>1 DEF Trains
      <3>2. UdpTimeout \in Nat /\ InterTime \in Nat /\ MaxDelay \in Nat /\ ctimer \in Nat
        BY NetworkAssumption DEF TypeOK, NetworkTypeOK
      <3> QED
        BY <1>1, <3>1, <3>2 DEF Timing, Asleep
    <2>2. CASE spc' # "low"
      BY <2>2, TimingFrame
    <2> QED
      BY <2>1, <2>2
  <1>7. NoHighInLow'
    <2>1. CASE loop = "low"
      <3>1. ~HighAbroad
        BY <1>2, <2>1 DEF HighIsLate, Past
      <3>2. 1 \in 1..Len(sockbuf) /\ Head(sockbuf) = sockbuf[1]
        BY <1>1
      <3>3. Head(sockbuf) \in Sources /\ Head(sockbuf).train # "high"
        BY <1>1, <3>1, <3>2 DEF HighAbroad
      <3>4. Head(sockbuf).train = "low"
        BY <3>3 DEF Sources, Trains
      <3>5. win'["low"].from = win["low"].from \cup {Head(sockbuf)}
        BY <2>1 DEF TypeOK, ServerTypeOK, Stamp, Trains
      <3> QED
        BY <3>4, <3>5 DEF NoHighInLow
    <2>2. CASE loop = "high"
      <3>1. win'["low"] = win["low"]
        BY <2>2 DEF TypeOK, ServerTypeOK, Trains
      <3> QED
        BY <3>1 DEF NoHighInLow
    <2> QED
      BY <2>1, <2>2 DEF Trains
  <1> QED
    BY <1>3, <1>5, <1>6, <1>7

LEMMA TimeOutSeparates ==
  ASSUME OneRun, TypeOK, Separated, UNCHANGED clientVars,
         NEW loop \in Trains, TimeOut(loop)
  PROVE  Separated'
  <1> USE DEF TimeOut, TimeOutThen, Separated
  <1>1. spc = loop /\ spc' \in {"high", "judge"}
    BY DEF LeaveLoop
  <1>2. Handshake'
    BY <1>1, LoopHandshake
  <1>3. HighIsLate'
    BY <1>1, LoopPast, HighFrame, HighAbroadFrame DEF udpVars, clientVars
  <1>4. Timing'
    BY <1>1, TimingFrame DEF udpVars, clientVars
  <1> QED
    BY <1>2, <1>3, <1>4, NoHighFrame

LEMMA JudgeShakes ==
  ASSUME Single, TypeOK, Handshake, UNCHANGED clientVars, Judge
  PROVE  Handshake'
  BY DEF Judge, timeVars, tcpVars, clientVars,
         Handshake, Listening, Untouched, FirstConnection, FirstClient,
         AtFirst, Preparing, Early

LEMMA JudgeSeparates ==
  ASSUME OneRun, TypeOK, Separated, UNCHANGED clientVars, Judge
  PROVE  Separated'
  <1> USE DEF Judge, timeVars, tcpVars, clientVars, Separated
  <1>1. Handshake'
    BY JudgeShakes DEF OneRun
  <1>2. HighIsLate'
    <2>1. HighAbroad' => HighAbroad
      BY DEF HighAbroad
    <2>2. Past => Past'
      BY DEF Past, AtFirst, Preparing
    <2> QED
      BY <2>1, <2>2, HighFrame
  <1> QED
    BY <1>1, <1>2, TimingFrame, NoHighFrame

LEMMA SendVerdictShakes ==
  ASSUME Single, TypeOK, Handshake, UNCHANGED clientVars, SendVerdict
  PROVE  Handshake' /\ \A states : AtFirst(states)' <=> AtFirst(states)
  <1> USE DEF SendVerdict, timeVars, udpVars, clientVars
  <1>1. \A d \in ConnIds : /\ conns'[d].server = conns[d].server
                           /\ conns'[d].client = conns[d].client
                           /\ conns'[d].toServer = conns[d].toServer
    BY DEF TypeOK, NetworkTypeOK, Connections
  <1>2. First \in ConnIds
    BY OneRunNames
  <1>3. Handshake'
    BY <1>1, <1>2
    DEF Handshake, Listening, Untouched, FirstConnection, FirstClient,
        AtFirst, Preparing, Early
  <1> QED
    BY <1>1, <1>2, <1>3 DEF AtFirst

LEMMA SendVerdictSeparates ==
  ASSUME OneRun, TypeOK, Separated, UNCHANGED clientVars, SendVerdict
  PROVE  Separated'
  <1> USE DEF SendVerdict, timeVars, udpVars, clientVars, Separated
  <1>1. Handshake' /\ (Past => Past')
    BY SendVerdictShakes DEF OneRun, Past, Preparing
  <1>2. HighIsLate'
    BY <1>1, HighFrame, HighAbroadFrame
  <1> QED
    BY <1>1, <1>2, TimingFrame, NoHighFrame

LEMMA ServerExitShakes ==
  ASSUME Single, TypeOK, Handshake, UNCHANGED clientVars,
         ~ServerStopped, NEW how \in {"done", "failed"}, ServerExit(how),
         how = "done" => spc = "close",
         UNCHANGED <<now, ctimer, flight, sboot, sess, win, verdict>>
  PROVE  Handshake'
  <1> USE DEF ServerExit, clientVars
  <1>1. FirstConnection'
    BY HangUpFirst DEF Handshake, FirstConnection, AtFirst, Preparing, Early
  <1>2. FirstClient'
    BY HangUpFirst, OneRunNames DEF Handshake, FirstClient, AtFirst
  <1>3. Listening' /\ Untouched'
    BY HangUpFirst DEF Handshake, Listening, Untouched
  <1> QED
    BY <1>1, <1>2, <1>3 DEF Handshake

LEMMA ServerExitSeparates ==
  ASSUME OneRun, TypeOK, Separated, UNCHANGED clientVars,
         ~ServerStopped, NEW how \in {"done", "failed"}, ServerExit(how),
         how = "done" => spc = "close",
         UNCHANGED <<now, ctimer, flight, sboot, sess, win, verdict>>
  PROVE  Separated'
  <1> USE DEF ServerExit, clientVars, Separated
  <1>1. Handshake'
    BY ServerExitShakes DEF OneRun
  <1>2. HighIsLate'
    <2>1. HighAbroad' => HighAbroad
      BY DEF HighAbroad
    <2>2. Past => Past'
      BY HangUpFirst DEF OneRun, Past, AtFirst, Preparing
    <2> QED
      BY <2>1, <2>2, HighFrame
  <1> QED
    BY <1>1, <1>2, TimingFrame, NoHighFrame

LEMMA StartServerShakes ==
  ASSUME Single, TypeOK, Handshake, UNCHANGED clientVars, StartServer
  PROVE  Handshake'
  <1> USE DEF StartServer, timeVars, tcpVars, udpVars, clientVars
  <1>1. ~listening /\ ~AtFirst({"queued", "accepted"})
    BY DEF Handshake, Listening, FirstConnection, ServerStopped, AtFirst
  <1> QED
    BY <1>1
    DEF Handshake, Listening, Untouched, FirstConnection, FirstClient,
        AtFirst, Preparing, Early

LEMMA StartServerSeparates ==
  ASSUME OneRun, TypeOK, Separated, UNCHANGED clientVars, StartServer
  PROVE  Separated'
  <1> USE DEF StartServer, timeVars, tcpVars, udpVars, clientVars, Separated
  <1>2. Handshake'
    BY StartServerShakes DEF OneRun
  <1>3. HighIsLate'
    BY HighFrame, HighAbroadFrame DEF Past, AtFirst, Preparing
  <1>4. NoHighInLow'
    <2>1. win'["low"].from = {}
      BY DEF Unmeasured, Trains
    <2> QED
      BY <2>1 DEF NoHighInLow
  <1> QED
    BY <1>2, <1>3, <1>4, TimingFrame

LEMMA ServerStepShakes ==
  ASSUME Single, TypeOK, Handshake, UNCHANGED clientVars, ServerStep
  PROVE  Handshake'
  <1>1. CASE Listen1 \/ Listen2
    BY <1>1, ListenShakes DEF Listen1, Listen2
  <1>2. CASE Accept1 \/ Accept2
    BY <1>2, AcceptShakes DEF Accept1, Accept2
  <1>3. CASE CloseServer
    BY <1>3, ServerExitShakes DEF CloseServer, ServerStopped
  <1>4. ASSUME NEW loop \in Trains, ReceiveDatagram(loop) \/ TimeOut(loop)
        PROVE  Handshake'
    <2>1. spc = loop /\ spc' \in {"low", "high", "judge"}
      BY <1>4 DEF ReceiveDatagram, ReceiveUpTo, TimeOut, TimeOutThen, LeaveLoop, Trains
    <2> QED
      BY <1>4, <2>1, LoopHandshake
      DEF ReceiveDatagram, ReceiveUpTo, TimeOut, TimeOutThen, LeaveLoop
  <1> QED
    BY <1>1, <1>2, <1>3, <1>4, ReceiveConfigShakes, CloseAndParseShakes,
       BindShakes, JudgeShakes, SendVerdictShakes DEF ServerStep

LEMMA ServerStepSeparates ==
  ASSUME OneRun, TypeOK, Separated, UNCHANGED clientVars, ServerStep
  PROVE  Separated'
  <1>1. CASE Listen1 \/ Listen2
    BY <1>1, ListenSeparates DEF Listen1, Listen2
  <1>2. CASE Accept1 \/ Accept2
    BY <1>2, AcceptSeparates DEF Accept1, Accept2
  <1>3. CASE CloseServer
    BY <1>3, ServerExitSeparates DEF CloseServer, ServerStopped
  <1> QED
    BY <1>1, <1>2, <1>3, ReceiveConfigSeparates, CloseAndParseSeparates,
       BindSeparates, ReceiveDatagramSeparates, TimeOutSeparates,
       JudgeSeparates, SendVerdictSeparates DEF ServerStep

-----------------------------------------------------------------------------
(***************************************************************************)
(* The client's steps.                                                     *)
(***************************************************************************)

LEMMA StartClientShakes ==
  ASSUME Single, TypeOK, Handshake, RunClient
  PROVE  Handshake' /\ cpc = "idle"
  <1> USE DEF RunClient, StartClient, tcpVars, udpVars, serverVars
  <1>1. cpc = "idle"
    BY OneRunNames DEF Single
  <1> QED
    BY <1>1
    DEF Handshake, Listening, Untouched, FirstConnection, FirstClient,
        AtFirst, Preparing, Early

LEMMA StartClientSeparates ==
  ASSUME OneRun, TypeOK, Separated, RunClient
  PROVE  Separated'
  <1> USE DEF RunClient, StartClient, tcpVars, udpVars, serverVars, Separated
  <1>1. cpc = "idle" /\ Handshake'
    BY StartClientShakes DEF OneRun
  <1>3. flight = {} /\ sockbuf = <<>>
    BY <1>1 DEF Handshake, Untouched
  <1>4. HighIsLate' /\ Timing'
    BY <1>3 DEF HighIsLate, HighAbroad, Timing, Asleep
  <1> QED
    BY <1>1, <1>4, NoHighFrame

\* The client's end of the first connection is closed, the server's is as it was.
LEMMA ClientHangUpFirst ==
  ASSUME Single, TypeOK, ClientHangUp
  PROVE  /\ \A c \in ConnIds : /\ conns'[c].server = conns[c].server
                               /\ conns'[c].toServer = conns[c].toServer
                               /\ conns[c].client = "none" => conns'[c].client = "none"
         /\ \A states : AtFirst(states)' <=> AtFirst(states)
         /\ conns'[First].client \in {"none", "closed"}
         /\ conns[First].client # "none" => conns'[First].client = "closed"
  <1>1. First \in ConnIds
    BY OneRunNames
  <1>2. \A c \in ConnIds : conns[c] \in Connections
    BY DEF TypeOK, NetworkTypeOK
  <1>3. \A c \in ConnIds : /\ conns'[c].server = conns[c].server
                           /\ conns'[c].toServer = conns[c].toServer
                           /\ conns[c].client = "none" => conns'[c].client = "none"
                           /\ conns'[c].client \in {"none", "closed"}
                           /\ conns[c].client # "none" => conns'[c].client = "closed"
    BY <1>2 DEF ClientHangUp, Connections
  <1> QED
    BY <1>1, <1>3 DEF AtFirst

\* What ended has no effect on the server, but for its end of the connections.
LEMMA ClientExitShakes ==
  ASSUME Single, TypeOK, Handshake, ~ClientStopped,
         NEW how \in {"done", "failed"}, ClientExit(how),
         how = "done" => cpc = "recv",
         UNCHANGED <<now, stimer, udpVars, crun, ci, serverVars>>
  PROVE  Handshake'
  <1> USE DEF ClientExit, udpVars, serverVars
  <1>1. First \in ConnIds /\ conns[First] \in Connections
    BY OneRunNames DEF TypeOK, NetworkTypeOK
  <1>2. FirstConnection'
    BY ClientHangUpFirst
    DEF Handshake, FirstConnection, AtFirst, Preparing, Early
  <1>3. FirstClient'
    <2>1. ~AtFirst({"none"}) => conns[First].client # "none"
      BY DEF Handshake, FirstClient
    <2> QED
      BY <2>1, ClientHangUpFirst DEF Handshake, FirstClient, AtFirst
  <1> QED
    BY <1>2, <1>3 DEF Handshake, Listening, Untouched

LEMMA ClientExitSeparates ==
  ASSUME OneRun, TypeOK, Separated, ~ClientStopped,
         NEW how \in {"done", "failed"}, ClientExit(how),
         how = "done" => cpc = "recv",
         UNCHANGED <<now, stimer, udpVars, crun, ci, serverVars>>
  PROVE  Separated'
  <1> USE DEF ClientExit, udpVars, serverVars, Separated
  <1>1. Handshake'
    BY ClientExitShakes DEF OneRun
  <1>2. HighIsLate'
    BY ClientHangUpFirst, HighFrame DEF OneRun, HighAbroad, Past, Preparing
  <1>3. Timing'
    BY DEF Timing, Asleep
  <1> QED
    BY <1>1, <1>2, <1>3, NoHighFrame

\* Dial adds the connection dialled and leaves the others alone.
LEMMA DialChanges ==
  ASSUME TypeOK, NEW c \in ConnIds, Dial(c)
  PROVE  /\ \A d \in ConnIds \ {c} : conns'[d] = conns[d]
         /\ conns'[c].server = "queued" /\ conns'[c].client = "open"
         /\ conns'[c].toServer = conns[c].toServer
         /\ backlog' = Append(backlog, c)
         /\ UNCHANGED listening
  <1>1. conns[c] \in Connections
    BY DEF TypeOK, NetworkTypeOK
  <1> QED
    BY <1>1 DEF Dial, Connections, TypeOK, NetworkTypeOK

LEMMA Connect1Shakes ==
  ASSUME Single, TypeOK, Handshake, Connect1, UNCHANGED serverVars
  PROVE  Handshake'
  <1> USE DEF Connect1, Connect, udpVars, serverVars
  <1>1. CASE ClientExit("failed")
    BY <1>1, ClientExitShakes DEF ClientStopped
  <1>2. CASE listening /\ Dial(Pre) /\ cpc' = "send" /\ UNCHANGED ctimer
    <2>1. Pre = First /\ First \in ConnIds
      BY OneRunNames
    <2>2. Untouched /\ Listening
      BY DEF Handshake
    <2>3. spc = "accept1" /\ backlog = <<>> /\ flight = {} /\ sockbuf = <<>>
      BY <1>2, <2>2 DEF Untouched, Listening
    <2>4. backlog' = <<First>> /\ conns'[First].server = "queued"
      <3>1. backlog' = Append(<<>>, First) /\ conns'[First].server = "queued"
        BY <1>2, <2>1, <2>3, DialChanges
      <3>2. Append(<<>>, First) = <<First>>
        OBVIOUS
      <3> QED
        BY <3>1, <3>2
    <2>5. FirstConnection'
      <3>1. \A c \in ConnIds : conns'[c].toServer = conns[c].toServer
        BY <1>2, <2>1, DialChanges
      <3> QED
        BY <1>2, <2>3, <2>4, <3>1
        DEF Handshake, FirstConnection, AtFirst, Preparing, Early
    <2>6. FirstClient'
      BY <1>2, <2>1, DialChanges DEF FirstClient, AtFirst
    <2> QED
      BY <1>2, <2>3, <2>5, <2>6 DEF Handshake, Listening, Untouched
  <1> QED
    BY <1>1, <1>2

LEMMA Connect1Separates ==
  ASSUME OneRun, TypeOK, Separated, Connect1, UNCHANGED serverVars
  PROVE  Separated'
  <1> USE DEF Connect1, Connect, udpVars, serverVars, Separated
  <1>1. Handshake'
    BY Connect1Shakes DEF OneRun
  <1>2. cpc' \notin Trains /\ flight = {} /\ sockbuf = <<>>
    BY DEF Handshake, Untouched, ClientExit, Trains
  <1>3. HighIsLate' /\ Timing'
    BY <1>2 DEF HighIsLate, HighAbroad, Timing, Asleep, Trains
  <1> QED
    BY <1>1, <1>3, NoHighFrame

LEMMA SendConfigShakes ==
  ASSUME Single, TypeOK, Handshake, SendConfig, UNCHANGED serverVars
  PROVE  /\ Handshake'
         /\ \A states : AtFirst(states)' <=> AtFirst(states)
  <1> USE DEF SendConfig, udpVars, serverVars
  <1>1. CASE ClientExit("failed")
    BY <1>1, ClientExitShakes, ClientHangUpFirst DEF ClientStopped, ClientExit
  <1>2. CASE /\ \/ conns' = [conns EXCEPT ![Pre].toServer = <<crun>>]
                \/ UNCHANGED conns
             /\ cpc' = "close" /\ UNCHANGED <<ctimer, listening, backlog>>
    <2>1. Pre = First /\ First \in ConnIds
      BY OneRunNames
    <2>2. \A d \in ConnIds : /\ conns'[d].server = conns[d].server
                             /\ conns'[d].client = conns[d].client
                             /\ d # First => conns'[d].toServer = conns[d].toServer
      BY <1>2, <2>1 DEF TypeOK, NetworkTypeOK, Connections
    <2>3. Handshake'
      BY <1>2, <2>1, <2>2
      DEF Handshake, Listening, Untouched, FirstConnection, FirstClient,
          AtFirst, Preparing, Early
    <2> QED
      BY <2>1, <2>2, <2>3 DEF AtFirst
  <1> QED
    BY <1>1, <1>2

LEMMA SendConfigSeparates ==
  ASSUME OneRun, TypeOK, Separated, SendConfig, UNCHANGED serverVars
  PROVE  Separated'
  <1> USE DEF SendConfig, udpVars, serverVars, Separated
  <1>1. Handshake' /\ (Past => Past')
    BY SendConfigShakes DEF OneRun, Past, Preparing
  <1>2. cpc' \notin Trains
    BY DEF ClientExit, Trains
  <1>3. HighIsLate' /\ Timing'
    BY <1>1, <1>2 DEF HighIsLate, HighAbroad, Timing, Asleep, Trains
  <1> QED
    BY <1>1, <1>3, NoHighFrame

LEMMA CloseConfigShakes ==
  ASSUME Single, TypeOK, Handshake, CloseConfig, UNCHANGED serverVars
  PROVE  Handshake'
  <1> USE DEF CloseConfig, CloseAndSleep, udpVars, serverVars
  <1>1. FirstConnection'
    BY ClientHangUpFirst DEF Handshake, FirstConnection, AtFirst, Preparing, Early
  <1>2. FirstClient'
    <2>1. ~AtFirst({"none"}) => conns[First].client # "none"
      BY DEF Handshake, FirstClient
    <2> QED
      BY <2>1, ClientHangUpFirst DEF Handshake, FirstClient
  <1> QED
    BY <1>1, <1>2 DEF Handshake, Listening, Untouched

LEMMA CloseConfigSeparates ==
  ASSUME OneRun, TypeOK, Separated, CloseConfig, UNCHANGED serverVars
  PROVE  Separated'
  <1> USE DEF CloseConfig, CloseAndSleep, udpVars, serverVars, Separated
  <1>1. Handshake'
    BY CloseConfigShakes DEF OneRun
  <1>2. HighIsLate'
    BY ClientHangUpFirst, HighFrame DEF OneRun, HighAbroad, Past, Preparing
  <1>3. Timing'
    BY DEF Timing, Asleep
  <1> QED
    BY <1>1, <1>2, <1>3, NoHighFrame

\* When the client sends, the first connection is long done with.
LEMMA SendingIsLate ==
  ASSUME Single, TypeOK, Handshake, cpc \in Trains, ctimer = 0
  PROVE  ~Early /\ ~Preparing /\ AtFirst({"closed", "reset"})
  <1>1. ~Early
    BY NetworkAssumption DEF Early, Trains
  <1>2. ~AtFirst({"none", "queued", "accepted"}) /\ ~Preparing
    BY <1>1 DEF Handshake, FirstConnection, FirstClient, AtFirst, Trains
  <1>3. conns[First] \in Connections
    BY OneRunNames DEF TypeOK, NetworkTypeOK
  <1> QED
    BY <1>1, <1>2, <1>3 DEF AtFirst, Connections

LEMMA SendTrainShakes ==
  ASSUME Single, TypeOK, Handshake, NEW train \in Trains,
         NEW next \in {"high", "connect2"}, NEW rest,
         SendTrain(train, next, rest), UNCHANGED serverVars
  PROVE  Handshake'
  <1>1. /\ cpc \in Trains /\ ctimer = 0
        /\ cpc' \in {"low", "high", "connect2"}
        /\ UNCHANGED <<conns, backlog, listening, spc, sess>>
    BY DEF SendTrain, Trains, tcpVars, serverVars
  <1>2. ~Preparing /\ AtFirst({"closed", "reset"})
    BY <1>1, SendingIsLate
  <1> QED
    BY <1>1, <1>2
    DEF Handshake, Listening, Untouched, FirstConnection, FirstClient,
        AtFirst, Preparing, Trains

\* The pause between the trains begins: no datagram is older than it is.
LEMMA SendLowSeparates ==
  ASSUME OneRun, TypeOK, Separated, SendLow, UNCHANGED serverVars
  PROVE  Separated'
  <1> USE DEF SendLow, SendTrain, Launch, tcpVars, serverVars, Separated
  <1>1. Handshake'
    BY SendTrainShakes DEF OneRun, Trains
  <1>2. HighIsLate'
    BY SendingIsLate DEF OneRun, HighIsLate, HighAbroad, Past, AtFirst, Preparing, Trains
  <1>3. Timing'
    <2>1. spc' = "low" => stimer' <= UdpTimeout
      BY DEF Timing
    <2>2. CASE cpc' = "low"
      BY <2>1, <2>2 DEF Timing, Asleep
    <2>3. CASE cpc' = "high" /\ ctimer' = InterTime
      <3>1. \A p \in flight' : p.age \in 0..MaxDelay
        BY NetworkAssumption DEF TypeOK, NetworkTypeOK, Packets
      <3>2. InterTime \in Nat /\ MaxDelay \in Nat /\ UdpTimeout \in Nat /\ stimer' \in Nat
        BY NetworkAssumption DEF TypeOK, NetworkTypeOK
      <3> QED
        BY <2>1, <2>3, <3>1, <3>2 DEF Timing, Asleep
    <2> QED
      BY <2>2, <2>3
  <1> QED
    BY <1>1, <1>2, <1>3, NoHighFrame

\* The pause is over, and so is the first loop: the heart of the argument.
LEMMA SleptLongEnough ==
  ASSUME OneRun, TypeOK, Separated, Asleep, ctimer = 0
  PROVE  spc # "low"
  <1>1. SUFFICES ASSUME spc = "low" PROVE FALSE
    OBVIOUS
  <1>2. stimer + (InterTime - 0) <= UdpTimeout + MaxDelay
    BY <1>1 DEF Separated, Timing
  <1>3. /\ stimer \in Nat /\ InterTime \in Nat
        /\ UdpTimeout \in Nat /\ MaxDelay \in Nat
    BY NetworkAssumption DEF TypeOK, NetworkTypeOK
  <1>4. UdpTimeout + MaxDelay < InterTime
    BY DEF OneRun, TimeoutRule
  <1> QED
    BY <1>2, <1>3, <1>4

LEMMA SendHighIsLate ==
  ASSUME OneRun, TypeOK, Separated, SendHigh, UNCHANGED serverVars
  PROVE  Past
  <1> USE DEF SendHigh, SendTrain, tcpVars, serverVars, Separated
  <1>1. CASE Asleep
    BY <1>1, SendingIsLate, SleptLongEnough DEF OneRun, Asleep, Past, Trains
  <1>2. CASE ~Asleep
    BY <1>2 DEF HighIsLate, HighAbroad, Asleep, TypeOK, ClientTypeOK
  <1> QED
    BY <1>1, <1>2

LEMMA SendHighSeparates ==
  ASSUME OneRun, TypeOK, Separated, SendHigh, UNCHANGED serverVars
  PROVE  Separated'
  <1>1. Past
    BY SendHighIsLate
  <1> USE DEF SendHigh, SendTrain, tcpVars, serverVars, Separated
  <1>2. Handshake'
    BY SendTrainShakes DEF OneRun, Trains
  <1>3. HighIsLate' /\ spc' # "low"
    BY <1>1 DEF HighIsLate, Past, AtFirst, Preparing
  <1>4. ~Asleep'
    BY NetworkAssumption DEF Asleep, TypeOK, ClientTypeOK
  <1>5. Timing'
    BY <1>3, <1>4 DEF Timing
  <1> QED
    BY <1>2, <1>3, <1>5, NoHighFrame

LEMMA Connect2Shakes ==
  ASSUME Single, TypeOK, Handshake, Connect2, UNCHANGED serverVars
  PROVE  /\ Handshake'
         /\ \A states : AtFirst(states)' <=> AtFirst(states)
  <1> USE DEF Connect2, Connect, udpVars, serverVars
  <1>1. CASE ClientExit("failed")
    BY <1>1, ClientExitShakes, ClientHangUpFirst DEF ClientStopped, ClientExit
  <1>2. CASE listening /\ Dial(Post) /\ cpc' = "recv" /\ UNCHANGED ctimer
    <2>1. Post \in ConnIds /\ Post # First /\ First \in ConnIds
      BY OneRunNames
    <2>2. UNCHANGED conns[First] /\ backlog' = Append(backlog, Post)
      BY <1>2, <2>1, DialChanges
    <2>3. ~Preparing /\ ~AtFirst({"queued", "accepted"})
      BY DEF Handshake, FirstConnection, Early, AtFirst
    <2>4. FirstConnection'
      <3>1. \A c \in ConnIds : conns'[c].toServer = conns[c].toServer
        BY <1>2, <2>1, DialChanges
      <3>2. \A i \in 1..Len(backlog') : backlog'[i] # First
        <4>1. \A i \in 1..Len(backlog') :
                IF i \in 1..Len(backlog) THEN backlog'[i] = backlog[i]
                                         ELSE backlog'[i] = Post
          BY <2>2 DEF TypeOK, NetworkTypeOK
        <4> QED
          BY <2>1, <2>3, <4>1 DEF Handshake, FirstConnection, AtFirst
      <3> QED
        BY <1>2, <2>2, <2>3, <3>1, <3>2
        DEF Handshake, FirstConnection, AtFirst, Preparing
    <2>5. Handshake'
      BY <1>2, <2>2, <2>4
      DEF Handshake, Listening, Untouched, FirstClient, AtFirst
    <2> QED
      BY <2>2, <2>5 DEF AtFirst
  <1> QED
    BY <1>1, <1>2

LEMMA Connect2Separates ==
  ASSUME OneRun, TypeOK, Separated, Connect2, UNCHANGED serverVars
  PROVE  Separated'
  <1> USE DEF Connect2, Connect, udpVars, serverVars, Separated
  <1>1. Handshake' /\ (Past => Past')
    BY Connect2Shakes DEF OneRun, Past, Preparing
  <1>2. cpc' \notin Trains
    BY DEF ClientExit, Trains
  <1>3. HighIsLate' /\ Timing'
    BY <1>1, <1>2 DEF HighIsLate, HighAbroad, Timing, Asleep, Trains
  <1> QED
    BY <1>1, <1>3, NoHighFrame

LEMMA ClientStepShakes ==
  ASSUME Single, TypeOK, Handshake, ClientNext
  PROVE  Handshake'
  <1> USE DEF ClientNext
  <1>1. CASE ReceiveVerdict
    BY <1>1, ClientExitShakes DEF ReceiveVerdict, ClientStopped
  <1>2. CASE SendLow
    BY <1>2, SendTrainShakes DEF SendLow, Trains
  <1>3. CASE SendHigh
    BY <1>3, SendTrainShakes DEF SendHigh, Trains
  <1> QED
    BY <1>1, <1>2, <1>3, Connect1Shakes, SendConfigShakes, CloseConfigShakes,
       Connect2Shakes DEF ClientStep

LEMMA ClientStepSeparates ==
  ASSUME OneRun, TypeOK, Separated, ClientNext
  PROVE  Separated'
  <1> USE DEF ClientNext
  <1>1. CASE ReceiveVerdict
    BY <1>1, ClientExitSeparates DEF ReceiveVerdict, ClientStopped
  <1> QED
    BY <1>1, Connect1Separates, SendConfigSeparates, CloseConfigSeparates,
       SendLowSeparates, SendHighSeparates, Connect2Separates DEF ClientStep

-----------------------------------------------------------------------------
(***************************************************************************)
(* The path and the clock.                                                 *)
(***************************************************************************)

LEMMA PathShakes ==
  ASSUME Single, TypeOK, Handshake, Deliver \/ Duplicate
  PROVE  Handshake'
  <1> USE DEF Deliver, Duplicate, timeVars, tcpVars, clientVars, serverVars
  <1>1. cpc \notin {"idle", "connect1"}
    BY DEF Handshake, Untouched
  <1> QED
    BY <1>1 DEF Handshake, Listening, Untouched, FirstConnection, FirstClient,
           AtFirst, Preparing, Early

LEMMA PathSeparates ==
  ASSUME OneRun, TypeOK, Separated, Deliver \/ Duplicate
  PROVE  Separated'
  <1> USE DEF Deliver, Duplicate, timeVars, tcpVars, clientVars, serverVars, Separated
  <1>1. PICK p \in flight : Arrive(p) \/ Lose(p) \/ ArriveTwice(p)
    OBVIOUS
  <1>2. p \in Packets /\ sockbuf \in Seq(Sources)
    BY DEF TypeOK, NetworkTypeOK
  <1> DEFINE src == [run |-> p.run, train |-> p.train]
  <1>3. flight' \in SUBSET flight
        /\ (sockbuf' = sockbuf \/ sockbuf' = Append(sockbuf, src))
    BY <1>1 DEF Arrive, Lose, ArriveTwice
  <1>4. Handshake'
    BY PathShakes DEF OneRun
  <1>5. HighIsLate'
    <2>1. HighAbroad' => HighAbroad
      <3>1. CASE sockbuf' = sockbuf
        BY <1>3, <3>1 DEF HighAbroad
      <3>2. CASE sockbuf' = Append(sockbuf, src)
        <4>1. src \in Sources
          BY <1>2 DEF Packets, Sources
        <4>2. \A i \in 1..Len(sockbuf') :
                IF i \in 1..Len(sockbuf) THEN sockbuf'[i] = sockbuf[i]
                                         ELSE sockbuf'[i] = src
          BY <1>2, <3>2, <4>1
        <4> QED
          BY <1>3, <4>2 DEF HighAbroad
      <3> QED
        BY <1>3, <3>1, <3>2
    <2>2. Past => Past'
      BY DEF Past, AtFirst, Preparing
    <2> QED
      BY <2>1, <2>2, HighFrame
  <1>6. Timing'
    <2>1. Asleep => InterTime - ctimer <= MaxDelay
      <3>1. SUFFICES ASSUME Asleep PROVE InterTime - ctimer <= MaxDelay
        OBVIOUS
      <3>2. InterTime - ctimer <= p.age
        BY <3>1 DEF Timing
      <3>3. p.age \in 0..MaxDelay
        BY <1>2 DEF Packets
      <3>4. InterTime \in Nat /\ ctimer \in Nat /\ MaxDelay \in Nat
        BY NetworkAssumption DEF TypeOK, NetworkTypeOK
      <3> QED
        BY <3>2, <3>3, <3>4
    <2> QED
      BY <1>3, <2>1 DEF Timing, Asleep
  <1> QED
    BY <1>4, <1>5, <1>6, NoHighFrame

\* The clock moves only when the server has nothing left to do.
LEMMA TickShakes ==
  ASSUME Single, TypeOK, Handshake, Tick
  PROVE  /\ Handshake'
         /\ ~Preparing
         /\ cpc \notin {"send", "close"}
         /\ ~AtFirst({"queued", "accepted"})
  <1> USE DEF Single, Tick
  <1>1. ~ClientReady /\ ~ServerReady
    OBVIOUS
  <1>3. ~Preparing
    BY <1>1 DEF Preparing, ServerReady, ServerStopped
  <1>4. cpc \notin {"send", "close"}
    BY <1>1 DEF ClientReady, ClientStopped, Handshake, FirstClient
  <1>7. ~AtFirst({"queued"})
    <2>1. SUFFICES ASSUME AtFirst({"queued"}) PROVE FALSE
      OBVIOUS
    <2>2. spc = "accept1" /\ backlog = <<First>>
      BY <2>1 DEF Handshake, FirstConnection
    <2> QED
      BY <1>1, <2>2 DEF ServerReady, ServerStopped
  <1>8. ~AtFirst({"accepted"})
    <2>1. SUFFICES ASSUME AtFirst({"accepted"}) PROVE FALSE
      OBVIOUS
    <2>2. spc \in {"recv", "parse"}
      BY <2>1 DEF Handshake, FirstConnection
    <2>3. conns[First].client = "closed"
      BY <1>4, <2>1 DEF Handshake, FirstClient, AtFirst
    <2>4. First \in ConnIds /\ Accepted(First)
      BY <2>1, OneRunNames DEF AtFirst, Accepted
    <2> QED
      BY <1>1, <2>2, <2>3, <2>4 DEF ServerReady, ServerStopped
  <1>9. ~AtFirst({"queued", "accepted"})
    BY <1>7, <1>8 DEF AtFirst
  <1>10. Handshake'
    BY <1>3, <1>4, <1>9
    DEF Handshake, Listening, Untouched, FirstConnection, FirstClient,
        AtFirst, Preparing, Countdown, tcpVars, clientVars, serverVars
  <1> QED
    BY <1>3, <1>4, <1>9, <1>10

LEMMA TickMeansIdle ==
  ASSUME OneRun, TypeOK, Separated, Tick
  PROVE  /\ spc = "low" => sockbuf = <<>> /\ stimer > 0
         /\ Asleep => ctimer > 0
  <1> USE DEF OneRun, Single, Tick
  <1>1. ~ClientReady /\ ~ServerReady
    OBVIOUS
  <1>2. ctimer \in Nat /\ stimer \in Nat
    BY DEF TypeOK, NetworkTypeOK
  <1>3. spc = "low" => sockbuf = <<>> /\ stimer > 0
    BY <1>1, <1>2 DEF ServerReady, ServerStopped, TimedOut, TimeoutRule
  <1>4. Asleep => ctimer > 0
    BY <1>1, <1>2 DEF Asleep, ClientReady, ClientStopped
  <1> QED
    BY <1>3, <1>4

LEMMA TickSeparates ==
  ASSUME OneRun, TypeOK, Separated, Tick
  PROVE  Separated'
  <1> USE DEF Tick, tcpVars, clientVars, serverVars, Separated
  <1>1. Handshake'
    BY TickShakes DEF OneRun
  <1>2. HighIsLate'
    <2>1. \A p \in flight : [p EXCEPT !.age = @ + 1].train = p.train
      BY DEF TypeOK, NetworkTypeOK, Packets
    <2>2. HighAbroad' => HighAbroad
      <3>1. ASSUME NEW q \in flight', q.train = "high"
            PROVE  \E p \in flight : p.train = "high"
        <4>1. PICK p \in flight : q = [p EXCEPT !.age = @ + 1]
          OBVIOUS
        <4> QED
          BY <2>1, <3>1, <4>1
      <3> QED
        BY <3>1 DEF HighAbroad
    <2>3. Past => Past'
      BY DEF Past, AtFirst, Preparing
    <2> QED
      BY <2>2, <2>3, HighFrame
  <1>3. Timing'
    <2>1. /\ ctimer \in Nat /\ stimer \in Nat /\ InterTime \in Nat
          /\ UdpTimeout \in Nat /\ MaxDelay \in Nat
      BY NetworkAssumption DEF TypeOK, NetworkTypeOK
    <2>2. spc' = "low" => /\ spc = "low" /\ sockbuf' = <<>>
                          /\ stimer > 0 /\ stimer' = stimer - 1
      BY <2>1, TickMeansIdle DEF Countdown
    <2>3. CASE ~Asleep
      BY <2>1, <2>2, <2>3 DEF Timing, Asleep
    <2>4. CASE Asleep
      <3>1. ctimer > 0 /\ ctimer' = ctimer - 1 /\ ctimer <= InterTime
        BY <2>1, <2>4, TickMeansIdle DEF Countdown, Timing
      <3>2. \A p \in flight' : InterTime - ctimer' <= p.age
        <4>1. SUFFICES ASSUME NEW p \in flight
                       PROVE  InterTime - ctimer' <= [p EXCEPT !.age = @ + 1].age
          OBVIOUS
        <4>2. InterTime - ctimer <= p.age
          BY <2>4 DEF Timing
        <4>3. p.age \in Int /\ [p EXCEPT !.age = @ + 1].age = p.age + 1
          BY NetworkAssumption DEF TypeOK, NetworkTypeOK, Packets
        <4> QED
          BY <2>1, <3>1, <4>2, <4>3
      <3>3. spc' = "low" => stimer' + (InterTime - ctimer') <= UdpTimeout + MaxDelay
        BY <2>1, <2>2, <2>4, <3>1 DEF Timing
      <3> QED
        BY <2>1, <2>2, <3>1, <3>2, <3>3 DEF Timing
    <2> QED
      BY <2>3, <2>4
  <1> QED
    BY <1>1, <1>2, <1>3, NoHighFrame

\* Up to the calculation server and client stand where pre_probing and the
\* sleeps put them: this needs no rule for udp_timeout.
LEMMA HandshakeStep == Single /\ TypeOK /\ Handshake /\ [Next]_vars => Handshake'
  <1> SUFFICES ASSUME Single, TypeOK, Handshake, [Next]_vars PROVE Handshake'
    OBVIOUS
  <1>1. CASE RunServer
    BY <1>1, StartServerShakes DEF RunServer
  <1>2. CASE ServerNext
    BY <1>2, ServerStepShakes DEF ServerNext
  <1>3. CASE ClientAbort /\ UNCHANGED serverVars
    BY <1>3, ClientExitShakes DEF ClientAbort, ClientStopped
  <1>4. CASE ServerAbort /\ UNCHANGED clientVars
    BY <1>4, ServerExitShakes DEF ServerAbort
  <1>5. CASE UNCHANGED vars
    BY <1>5
    DEF vars, timeVars, tcpVars, udpVars, clientVars, serverVars,
        Handshake, Listening, Untouched, FirstConnection, FirstClient,
        AtFirst, Preparing, Early
  <1> QED
    BY <1>1, <1>2, <1>3, <1>4, <1>5, StartClientShakes, ClientStepShakes,
       PathShakes, TickShakes DEF Next, Abort, Finished

LEMMA SeparatedStep == OneRun /\ TypeOK /\ Separated /\ [Next]_vars => Separated'
  <1> SUFFICES ASSUME OneRun, TypeOK, Separated, [Next]_vars PROVE Separated'
    OBVIOUS
  <1>1. CASE RunServer
    BY <1>1, StartServerSeparates DEF RunServer
  <1>2. CASE ServerNext
    BY <1>2, ServerStepSeparates DEF ServerNext
  <1>3. CASE ClientAbort /\ UNCHANGED serverVars
    BY <1>3, ClientExitSeparates DEF ClientAbort, ClientStopped
  <1>4. CASE ServerAbort /\ UNCHANGED clientVars
    BY <1>4, ServerExitSeparates DEF ServerAbort
  <1>5. CASE UNCHANGED vars
    BY <1>5
    DEF vars, timeVars, tcpVars, udpVars, clientVars, serverVars,
        Separated, Handshake, Listening, Untouched, FirstConnection, FirstClient,
        AtFirst, Preparing, Early, Timing, Asleep, HighIsLate, HighAbroad, Past,
        NoHighInLow
  <1> QED
    BY <1>1, <1>2, <1>3, <1>4, <1>5, StartClientSeparates, ClientStepSeparates,
       PathSeparates, TickSeparates DEF Next, Abort, Finished

\* If udp_timeout obeys the README's rule, the first receiving loop of probing
\* never counts a datagram of the high entropy train: whatever the size of the
\* trains, the times and the receive buffer, whatever the path loses, delays
\* up to MaxDelay or duplicates, and wherever either program fails.  One run of
\* the client is considered, and both programs run when they can.
THEOREM TrainsSeparated == OneRun /\ Spec => []NoHighInLow
  <1> SUFFICES ASSUME OneRun PROVE Spec => []NoHighInLow
    OBVIOUS
  <1>1. Init => TypeOK /\ Separated
    BY TypeInit, SeparatedInit
  <1>2. (TypeOK /\ Separated) /\ [Next]_vars => (TypeOK /\ Separated)'
    BY TypeStep, SeparatedStep
  <1>3. TypeOK /\ Separated => NoHighInLow
    BY DEF Separated
  <1> QED
    BY <1>1, <1>2, <1>3, PTL DEF Spec

\* The invariant that theorem rests on holds too: up to the calculation server
\* and client stand where pre_probing and the sleeps put them, relative to each
\* other and to the datagrams under way.
THEOREM SeparationInvariant == OneRun /\ Spec => []Separated
  <1> SUFFICES ASSUME OneRun PROVE Spec => []Separated
    OBVIOUS
  <1>1. Init => TypeOK /\ Separated
    BY TypeInit, SeparatedInit
  <1>2. (TypeOK /\ Separated) /\ [Next]_vars => (TypeOK /\ Separated)'
    BY TypeStep, SeparatedStep
  <1> QED
    BY <1>1, <1>2, PTL DEF Spec

-----------------------------------------------------------------------------
(***************************************************************************)
(* The path: what is abroad, and how many of it.                           *)
(***************************************************************************)

\* The clock makes every datagram a tick older, and changes nothing else of it.
LEMMA TickAges ==
  ASSUME TypeOK, Tick
  PROVE  /\ \A q \in flight' : \E p \in flight :
              q.train = p.train /\ q.id = p.id /\ q.age = p.age + 1
         /\ \A p \in flight : \E q \in flight' :
              q.train = p.train /\ q.id = p.id /\ q.age = p.age + 1
         /\ \A p \in flight : p.age \in Nat /\ p.id \in Nat
         /\ IsFiniteSet(flight) => IsFiniteSet(flight')
                                   /\ Cardinality(flight') = Cardinality(flight)
  <1> DEFINE older(p) == [p EXCEPT !.age = p.age + 1]
             grow == [p \in flight |-> older(p)]
  <1>1. flight' = {older(p) : p \in flight}
    BY DEF Tick
  <1>2. \A p \in flight : p \in Packets /\ p.age \in Nat /\ p.id \in Nat
    BY NetworkAssumption DEF TypeOK, NetworkTypeOK, Packets
  <1>3. \A p \in flight :
          /\ older(p).run = p.run /\ older(p).train = p.train
          /\ older(p).id = p.id /\ older(p).age = p.age + 1
    BY <1>2 DEF Packets
  <1>4. \A p, q \in flight : older(p) = older(q) => p = q
    <2>1. SUFFICES ASSUME NEW p \in flight, NEW q \in flight, older(p) = older(q)
                   PROVE  p = q
      OBVIOUS
    <2>2. p.run = q.run /\ p.train = q.train /\ p.id = q.id /\ p.age + 1 = q.age + 1
      BY <1>3, <2>1
    <2>3. p.age = q.age
      BY <1>2, <2>2
    <2> HIDE DEF older
    <2> QED
      BY <1>2, <2>2, <2>3 DEF Packets
  <1>5. grow \in Bijection(flight, flight')
    <2> HIDE DEF older
    <2>1. grow \in [flight -> flight']
      BY <1>1
    <2>2. \A p, q \in flight : grow[p] = grow[q] => p = q
      BY <1>4
    <2>3. \A q \in flight' : \E p \in flight : grow[p] = q
      BY <1>1
    <2> QED
      BY <2>1, <2>2, <2>3 DEF Bijection, Injection, Surjection, IsInjective
  <1>6. ExistsBijection(flight, flight')
    BY <1>5 DEF ExistsBijection
  <1>7. \A q \in flight' : \E p \in flight :
          q.train = p.train /\ q.id = p.id /\ q.age = p.age + 1
    BY <1>1, <1>3
  <1>8. \A p \in flight : \E q \in flight' :
          q.train = p.train /\ q.id = p.id /\ q.age = p.age + 1
    BY <1>1, <1>3
  <1>9. IsFiniteSet(flight) => IsFiniteSet(flight')
                               /\ Cardinality(flight') = Cardinality(flight)
    BY <1>6, FS_Bijection
  <1> QED
    BY <1>2, <1>7, <1>8, <1>9

\* What a datagram's arrival or loss does.
LEMMA PathMoves ==
  ASSUME TypeOK, IsFiniteSet(flight), Deliver \/ Duplicate
  PROVE  \E p \in flight :
           /\ p \in Packets /\ p.age \in 0..MaxDelay
           /\ flight' \in {flight, flight \ {p}} /\ IsFiniteSet(flight')
           /\ ~Duplicates =>
                flight' = flight \ {p} /\ Cardinality(flight') = Cardinality(flight) - 1
           /\ ~Lossy /\ udpBound /\ Len(sockbuf) < RcvBuf => sockbuf' # sockbuf
           /\ \/ sockbuf' = sockbuf
              \/ /\ Len(sockbuf') = Len(sockbuf) + 1
                 /\ \A i \in 1..Len(sockbuf') :
                      \/ i \in 1..Len(sockbuf) /\ sockbuf'[i] = sockbuf[i]
                      \/ sockbuf'[i].train = p.train
           /\ UNCHANGED <<timeVars, tcpVars, udpBound, clientVars, serverVars>>
  <1>1. PICK p \in flight : Arrive(p) \/ Lose(p) \/ ArriveTwice(p)
    BY DEF Deliver, Duplicate
  <1>2. p \in Packets /\ p.age \in 0..MaxDelay /\ sockbuf \in Seq(Sources)
    BY DEF TypeOK, NetworkTypeOK, Packets
  <1> DEFINE src == [run |-> p.run, train |-> p.train]
  <1>3. src \in Sources /\ src.train = p.train
    BY <1>2 DEF Packets, Sources
  <1>4. /\ flight' \in {flight, flight \ {p}}
        /\ ~Duplicates => flight' = flight \ {p}
        /\ sockbuf' = sockbuf \/ sockbuf' = Append(sockbuf, src)
        /\ ~Lossy /\ udpBound /\ Len(sockbuf) < RcvBuf => sockbuf' = Append(sockbuf, src)
        /\ UNCHANGED <<timeVars, tcpVars, udpBound, clientVars, serverVars>>
    BY <1>1 DEF Arrive, Lose, ArriveTwice, Deliver, Duplicate
  <1>5. /\ IsFiniteSet(flight \ {p})
        /\ Cardinality(flight \ {p}) = Cardinality(flight) - 1
    BY FS_RemoveElement
  <1> HIDE DEF src
  <1>6. sockbuf' = Append(sockbuf, src) =>
          /\ sockbuf' # sockbuf /\ Len(sockbuf') = Len(sockbuf) + 1
          /\ \A i \in 1..Len(sockbuf') :
               \/ i \in 1..Len(sockbuf) /\ sockbuf'[i] = sockbuf[i]
               \/ sockbuf'[i].train = p.train
    <2>1. SUFFICES ASSUME sockbuf' = Append(sockbuf, src)
                   PROVE  /\ sockbuf' # sockbuf /\ Len(sockbuf') = Len(sockbuf) + 1
                          /\ \A i \in 1..Len(sockbuf') :
                               \/ i \in 1..Len(sockbuf) /\ sockbuf'[i] = sockbuf[i]
                               \/ sockbuf'[i].train = p.train
      OBVIOUS
    <2>2. Len(sockbuf') = Len(sockbuf) + 1 /\ Len(sockbuf) \in Nat
      BY <1>2, <1>3, <2>1
    <2>3. \A i \in 1..Len(sockbuf') : IF i = Len(sockbuf) + 1
                                      THEN sockbuf'[i] = src
                                      ELSE sockbuf'[i] = sockbuf[i]
      BY <1>2, <1>3, <2>1
    <2> QED
      BY <1>3, <2>2, <2>3
  <1> QED
    BY <1>1, <1>2, <1>4, <1>5, <1>6

-----------------------------------------------------------------------------
(***************************************************************************)
(* Unsent is inductive.                                                    *)
(***************************************************************************)

\* The configuration comes due by the client's steps only.
LEMMA ServerDue ==
  ASSUME Single, TypeOK, Handshake, UNCHANGED clientVars,
         ServerStep \/ StartServer \/ ServerAbort
  PROVE  Due' => Due
  <1>1. CASE Listen1 \/ Listen2
    BY <1>1 DEF Listen1, Listen2, Listen, OpenListener, Due, AtFirst, Preparing
  <1>2. CASE Accept1 \/ Accept2
    <2>1. PICK c \in ConnIds : Accept(c)
      BY <1>2 DEF Accept1, Accept2, AcceptNext
    <2>2. First \in ConnIds /\ conns \in [ConnIds -> Connections]
          /\ backlog \in Seq(ConnIds)
      BY OneRunNames DEF TypeOK, NetworkTypeOK
    <2>3. ~Preparing'
      BY <1>2, AcceptShakes DEF Accept1, Accept2
    <2>4. CASE c = First
      <3>1. 1 \in 1..Len(backlog) /\ backlog[1] = First
        BY <2>1, <2>2, <2>4 DEF Accept
      <3> QED
        BY <3>1 DEF Handshake, FirstConnection, AtFirst, Due
    <2>5. CASE c # First
      BY <2>1, <2>2, <2>3, <2>5 DEF Accept, AtFirst, Due
    <2> QED
      BY <2>4, <2>5
  <1>3. CASE ReceiveConfig
    BY <1>3, ReceiveConfigShakes DEF Due, AtFirst
  <1>4. CASE CloseAndParse
    BY <1>4, HangUpFirst DEF CloseAndParse, CloseThen, Due, AtFirst, Preparing
  <1>5. CASE Bind
    BY <1>5 DEF Bind, tcpVars, Due, AtFirst, Preparing
  <1>6. ASSUME NEW loop \in Trains, ReceiveDatagram(loop) \/ TimeOut(loop)
        PROVE  Due' => Due
    BY <1>6 DEF ReceiveDatagram, ReceiveUpTo, TimeOut, TimeOutThen, LeaveLoop,
                Trains, tcpVars, Due, AtFirst, Preparing
  <1>7. CASE Judge
    BY <1>7 DEF Judge, tcpVars, Due, AtFirst, Preparing
  <1>8. CASE SendVerdict
    BY <1>8, SendVerdictShakes DEF SendVerdict, Due, Preparing
  <1>9. CASE CloseServer \/ ServerAbort
    BY <1>9, HangUpFirst DEF CloseServer, ServerAbort, ServerExit, Due, AtFirst, Preparing
  <1>10. CASE StartServer
    BY <1>10 DEF StartServer, tcpVars, Due, AtFirst, Preparing
  <1> QED
    BY <1>1, <1>2, <1>3, <1>4, <1>5, <1>6, <1>7, <1>8, <1>9, <1>10 DEF ServerStep

\* The server takes datagrams from its buffer and adds none.
LEMMA ServerTakes ==
  ASSUME TypeOK, ServerStep \/ StartServer \/ ServerAbort
  PROVE  /\ flight' = flight /\ now' = now /\ ctimer' = ctimer
         /\ \/ sockbuf' = sockbuf \/ sockbuf' = <<>>
            \/ /\ sockbuf # <<>> /\ Len(sockbuf') = Len(sockbuf) - 1
               /\ \A i \in 1..Len(sockbuf') :
                    i+1 \in 1..Len(sockbuf) /\ sockbuf'[i] = sockbuf[i+1]
  <1>1. ASSUME NEW loop \in Trains, ReceiveDatagram(loop)
        PROVE  /\ flight' = flight /\ now' = now /\ ctimer' = ctimer
               /\ sockbuf # <<>> /\ Len(sockbuf') = Len(sockbuf) - 1
               /\ \A i \in 1..Len(sockbuf') :
                    i+1 \in 1..Len(sockbuf) /\ sockbuf'[i] = sockbuf[i+1]
    <2>1. /\ sockbuf \in Seq(Sources) /\ sockbuf # <<>> /\ sockbuf' = Tail(sockbuf)
          /\ flight' = flight /\ now' = now /\ ctimer' = ctimer
      BY <1>1 DEF TypeOK, NetworkTypeOK, ReceiveDatagram, ReceiveUpTo
    <2> QED
      BY <2>1
  <1> QED
    BY <1>1
    DEF ServerStep, ServerAbort, StartServer, Listen1, Listen2, Listen, Accept1,
        Accept2, AcceptNext, ReceiveConfig, CloseAndParse, CloseThen, Bind,
        TimeOut, TimeOutThen, Judge, SendVerdict, CloseServer, ServerExit,
        timeVars, udpVars

\* A server step leaves none abroad of a train of which there was none.
LEMMA TakesNone ==
  ASSUME TypeOK, ServerStep \/ StartServer \/ ServerAbort, NEW train, NoneAbroad(train)
  PROVE  NoneAbroad(train)'
  <1>1. CASE sockbuf' = <<>>
    BY <1>1, ServerTakes DEF NoneAbroad
  <1>2. CASE sockbuf' # <<>>
    BY <1>2, ServerTakes DEF NoneAbroad
  <1> QED
    BY <1>1, <1>2

\* Nor does the path bring one up.
LEMMA PathBrings ==
  ASSUME TypeOK, IsFiniteSet(flight), Deliver \/ Duplicate, NEW train, NoneAbroad(train)
  PROVE  NoneAbroad(train)'
  BY PathMoves DEF NoneAbroad

\* Nor does time.
LEMMA TickBrings ==
  ASSUME TypeOK, Tick, NEW train, NoneAbroad(train)
  PROVE  NoneAbroad(train)'
  BY TickAges DEF NoneAbroad, Tick

\* One sendto(): the datagram is new unless one of the same train and number
\* is still on its way.
LEMMA LaunchAdds ==
  ASSUME TypeOK, IsFiniteSet(flight), NEW train \in Trains, NEW next, NEW rest,
         SendTrain(train, next, rest), UNCHANGED serverVars
  PROVE  \E p : /\ p.train = train /\ p.id = ci /\ p.age = 0
                /\ flight' = flight \cup {p} /\ IsFiniteSet(flight')
                /\ Cardinality(flight') <= Cardinality(flight) + 1
                /\ (\A q \in flight : q.train = train => q.id # ci) =>
                     Cardinality(flight') = Cardinality(flight) + 1
  <1> DEFINE p == [run |-> crun, train |-> train, id |-> ci, age |-> 0]
  <1>1. flight' = flight \cup {p}
    BY DEF SendTrain, Launch
  <1>2. p.train = train /\ p.id = ci /\ p.age = 0
    OBVIOUS
  <1> HIDE DEF p
  <1>3. /\ IsFiniteSet(flight \cup {p}) /\ Cardinality(flight) \in Nat
        /\ Cardinality(flight \cup {p}) =
             IF p \in flight THEN Cardinality(flight) ELSE Cardinality(flight) + 1
    BY FS_AddElement, FS_CardinalityType
  <1> QED
    BY <1>1, <1>2, <1>3

\* Unsent is inductive, whatever the times: it rests on Handshake alone.
LEMMA UnsentStep == Single /\ TypeOK /\ Handshake /\ Unsent /\ [Next]_vars => Unsent'
  <1> SUFFICES ASSUME Single, TypeOK, Handshake, Unsent, [Next]_vars PROVE Unsent'
    OBVIOUS
  <1>1. CASE RunServer \/ ServerNext \/ (ServerAbort /\ UNCHANGED clientVars)
    <2>1. UNCHANGED clientVars /\ (ServerStep \/ StartServer \/ ServerAbort)
      BY <1>1 DEF RunServer, ServerNext
    <2>2. (Due' => Due) /\ flight' = flight
      BY <2>1, ServerDue, ServerTakes
    <2>3. sockbuf = <<>> => sockbuf' = <<>>
      BY <2>1, ServerTakes
    <2>4. NoneAbroad("high") => NoneAbroad("high")'
      BY <2>1, TakesNone
    <2> QED
      BY <2>1, <2>2, <2>3, <2>4 DEF Unsent, Due, Asleep, clientVars
  <1>2. CASE RunClient
    <2>1. cpc = "idle" /\ cpc' = "connect1" /\ ci' = 0
      BY <1>2, StartClientShakes DEF RunClient, StartClient
    <2>2. flight = {} /\ sockbuf = <<>>
      BY <2>1 DEF Handshake, Untouched
    <2> QED
      BY <1>2, <2>1, <2>2
      DEF RunClient, StartClient, Unsent, Asleep, tcpVars, udpVars, serverVars,
          AtFirst, Preparing
  <1>3. CASE SendTrain("low", "high", InterTime) /\ UNCHANGED serverVars
    <2>1. PICK p : p.train = "low" /\ flight' = flight \cup {p} /\ IsFiniteSet(flight')
      BY <1>3, LaunchAdds DEF Unsent, Trains
    <2>2. /\ cpc = "low" /\ cpc' \in {"low", "high"} /\ sockbuf' = sockbuf
          /\ UNCHANGED conns /\ UNCHANGED serverVars
      BY <1>3 DEF SendTrain, tcpVars
    <2>3. ~Due
      BY <1>3, SendingIsLate DEF SendTrain, Due, AtFirst, Trains
    <2>4. NoneAbroad("high")'
      BY <2>1, <2>2 DEF Unsent, NoneAbroad
    <2> QED
      BY <2>1, <2>2, <2>3, <2>4 DEF Unsent, Due, AtFirst, Preparing, serverVars
  <1>4. CASE SendTrain("high", "connect2", UdpTimeout + Second) /\ UNCHANGED serverVars
    <2>1. IsFiniteSet(flight')
      BY <1>4, LaunchAdds DEF Unsent, Trains
    <2>2. cpc = "high" /\ (cpc' = "connect2" \/ (cpc' = "high" /\ ci' = ci + 1))
          /\ UNCHANGED conns /\ UNCHANGED serverVars
      BY <1>4 DEF SendTrain, tcpVars
    <2>3. ~Due
      BY <1>4, SendingIsLate DEF SendTrain, Due, AtFirst, Trains
    <2>4. ~Asleep' /\ cpc' # "low"
      BY <2>2, NetworkAssumption DEF Asleep, TypeOK, ClientTypeOK
    <2> QED
      BY <2>1, <2>2, <2>3, <2>4 DEF Unsent, Due, AtFirst, Preparing, serverVars
  <1>5. CASE (\E how \in {"done", "failed"} : ClientExit(how))
             /\ UNCHANGED <<udpVars, ci, serverVars>>
    <2>1. ClientHangUp /\ cpc' \in {"done", "failed"}
      BY <1>5 DEF ClientExit
    <2>2. Due' <=> Due
      BY <1>5, <2>1, ClientHangUpFirst DEF Due, Preparing, serverVars
    <2> QED
      BY <1>5, <2>1, <2>2 DEF Unsent, Due, Asleep, udpVars
  <1>6. CASE ClientNext /\ ~(\E how \in {"done", "failed"} : ClientExit(how))
             /\ ~SendLow /\ ~SendHigh
    <2>1. UNCHANGED <<udpVars, ci, serverVars>>
      BY <1>6 DEF ClientNext, ClientStep, Connect1, Connect2, Connect, SendConfig,
                  CloseConfig, CloseAndSleep, ReceiveVerdict
    <2>2. CASE cpc \in {"connect1", "send", "close"}
      BY <2>1, <2>2 DEF Unsent, NoneAbroad, udpVars
    <2>3. CASE cpc \notin {"connect1", "send", "close"}
      <3>1. Connect2 /\ cpc = "connect2" /\ cpc' = "recv"
        BY <1>6, <2>3 DEF ClientNext, ClientStep, Connect1, Connect2, Connect,
             SendConfig, CloseConfig, CloseAndSleep, ReceiveVerdict, ClientExit
      <3>2. Due' <=> Due
        BY <2>1, <3>1, Connect2Shakes DEF Due, Preparing, serverVars
      <3> QED
        BY <2>1, <3>1, <3>2 DEF Unsent, Due, Asleep, udpVars
    <2> QED
      BY <2>2, <2>3
  <1>7. CASE Deliver \/ Duplicate
    <2>1. flight # {} /\ IsFiniteSet(flight')
          /\ UNCHANGED <<tcpVars, clientVars, serverVars>>
      BY <1>7, PathMoves DEF Unsent
    <2>2. NoneAbroad("high") => NoneAbroad("high")'
      BY <1>7, PathBrings DEF Unsent
    <2> QED
      BY <2>1, <2>2
      DEF Unsent, Due, Asleep, AtFirst, Preparing, tcpVars, clientVars, serverVars
  <1>8. CASE Tick
    <2>1. IsFiniteSet(flight') /\ (flight = {} => flight' = {}) /\ sockbuf' = sockbuf
          /\ UNCHANGED <<tcpVars, clientVars, serverVars>>
      BY <1>8, TickAges DEF Unsent, Tick
    <2>2. NoneAbroad("high") => NoneAbroad("high")'
      BY <1>8, TickBrings
    <2> QED
      BY <2>1, <2>2
      DEF Unsent, Due, Asleep, AtFirst, Preparing, tcpVars, clientVars, serverVars
  <1>9. CASE UNCHANGED vars
    BY <1>9 DEF Unsent, Due, NoneAbroad, Asleep, AtFirst, Preparing, vars, timeVars,
                tcpVars, udpVars, clientVars, serverVars
  <1>10. CASE ClientNext /\ (\E how \in {"done", "failed"} : ClientExit(how))
    <2>1. UNCHANGED <<udpVars, ci, serverVars>>
      BY <1>10 DEF ClientNext, ClientStep, Connect1, Connect2, Connect, SendConfig,
          CloseConfig, CloseAndSleep, ReceiveVerdict, SendLow, SendHigh, SendTrain,
          ClientExit
    <2> QED
      BY <1>5, <1>10, <2>1
  <1>11. CASE ClientAbort /\ UNCHANGED serverVars
    BY <1>5, <1>11 DEF ClientAbort
  <1> QED
    BY <1>1, <1>2, <1>3, <1>4, <1>6, <1>7, <1>8, <1>9, <1>10, <1>11
    DEF Next, Abort, Finished, ClientNext, SendLow, SendHigh

-----------------------------------------------------------------------------
(***************************************************************************)
(* Counting: the sizes, the loops and their last datagram.                 *)
(***************************************************************************)

\* The types of what is counted and timed.
LEMMA Sizes ==
  ASSUME TypeOK, NEW train \in Trains
  PROVE  /\ TrainSize \in Nat \ {0} /\ UdpTimeout \in Nat /\ InterTime \in Nat
         /\ Second \in Nat /\ MaxDelay \in Nat /\ MaxGap \in Nat
         /\ ctimer \in Nat /\ stimer \in Nat /\ now \in Nat
         /\ ci \in 0..TrainSize-1
         /\ win[train].n \in 0..TrainSize
         /\ Len(sockbuf) \in Nat /\ (Len(sockbuf) = 0 <=> sockbuf = <<>>)
         /\ IsFiniteSet(flight) =>
              /\ Cardinality(flight) \in Nat
              /\ Cardinality(flight) = 0 <=> flight = {}
  <1>1. /\ win[train].n \in 0..TrainSize /\ ci \in 0..TrainSize-1
        /\ sockbuf \in Seq(Sources)
        /\ ctimer \in Nat /\ stimer \in Nat /\ now \in Nat
    BY DEF TypeOK, NetworkTypeOK, ClientTypeOK, ServerTypeOK, Windows
  <1>2. Len(sockbuf) \in Nat /\ (Len(sockbuf) = 0 <=> sockbuf = <<>>)
    BY <1>1
  <1>3. IsFiniteSet(flight) => /\ Cardinality(flight) \in Nat
                               /\ Cardinality(flight) = 0 <=> flight = {}
    BY FS_CardinalityType, FS_EmptySet
  <1> QED
    BY <1>1, <1>2, <1>3, NetworkAssumption

\* The time a train takes grows with what is sent of it.
LEMMA GapTimes ==
  /\ \A i \in 0..TrainSize-1 : /\ i * MaxGap \in Nat
                               /\ i * MaxGap <= (TrainSize - 1) * MaxGap
                               /\ (i + 1) * MaxGap = i * MaxGap + MaxGap
  /\ (TrainSize - 1) * MaxGap \in Nat
  <1>1. TrainSize \in Nat \ {0} /\ MaxGap \in Nat
    BY NetworkAssumption
  <1>2. \A a, b \in Nat : a <= b => a * MaxGap \in Nat /\ a * MaxGap <= b * MaxGap
    BY <1>1
  <1>3. TrainSize - 1 \in Nat
    BY <1>1
  <1>4. ASSUME NEW i \in 0..TrainSize-1
        PROVE  i * MaxGap \in Nat /\ i * MaxGap <= (TrainSize - 1) * MaxGap
    <2>1. i \in Nat /\ i <= TrainSize - 1
      BY <1>1
    <2> QED
      BY <1>2, <1>3, <2>1
  <1>5. \A i \in 0..TrainSize-1 : (i + 1) * MaxGap = i * MaxGap + MaxGap
    BY <1>1
  <1> QED
    BY <1>2, <1>3, <1>4, <1>5

\* A datagram received in a loop: what becomes of the window and the timeout.
LEMMA ReceiveCounts ==
  ASSUME TypeOK, NEW loop \in Trains, ReceiveDatagram(loop)
  PROVE  /\ spc = loop /\ sockbuf # <<>> /\ Len(sockbuf') = Len(sockbuf) - 1
         /\ win'[loop].n = win[loop].n + 1
         /\ win'[loop].end = now
         /\ win'[loop].start = IF win[loop].n = 0 THEN now ELSE win[loop].start
         /\ \A s \in win'[loop].from : s \in win[loop].from \/ s = sockbuf[1]
         /\ \A t \in Trains : t # loop => win'[t] = win[t]
         /\ win[loop].n < TrainSize
         /\ \/ spc' = spc /\ stimer' = UdpTimeout /\ win[loop].n + 1 < TrainSize
            \/ /\ win[loop].n + 1 = TrainSize
               /\ IF loop = "low" THEN spc' = "high" /\ stimer' = UdpTimeout
                                  ELSE spc' = "judge" /\ stimer' = 0
         /\ UNCHANGED <<now, ctimer, tcpVars, flight, udpBound, sboot, sess, verdict>>
  <1> USE DEF ReceiveDatagram, ReceiveUpTo
  <1>1. spc = loop /\ sockbuf # <<>> /\ sockbuf' = Tail(sockbuf) /\ sockbuf \in Seq(Sources)
    BY DEF TypeOK, NetworkTypeOK
  <1>2. Len(sockbuf') = Len(sockbuf) - 1 /\ Head(sockbuf) = sockbuf[1]
    BY <1>1
  <1>3. /\ win'[loop] = Stamp(win[loop], Head(sockbuf))
        /\ \A t \in Trains : t # loop => win'[t] = win[t]
        /\ win[loop].n \in 0..TrainSize /\ win[loop].n < TrainSize
    BY <1>1 DEF TypeOK, ServerTypeOK, Windows, Trains
  <1>4. win[loop].n + 1 < TrainSize \/ win[loop].n + 1 = TrainSize
    BY <1>3, NetworkAssumption
  <1> QED
    BY <1>1, <1>2, <1>3, <1>4 DEF Stamp, LeaveLoop, Trains

\* Which steps of the server enter, keep or leave the loops.
LEMMA ServerLoops ==
  ASSUME TypeOK, ServerStep \/ StartServer \/ ServerAbort
  PROVE  /\ spc' = "low" => Bind \/ ReceiveDatagram("low")
         /\ spc' = "high" => TimeOut("low") \/ ReceiveDatagram("low") \/ ReceiveDatagram("high")
         /\ spc' = "judge" => TimeOut("high") \/ ReceiveDatagram("high")
         /\ Judged' => Judged \/ Judge
         /\ \/ win' = win \/ StartServer
            \/ \E loop \in Trains : ReceiveDatagram(loop)
  <1>1. CASE \E loop \in Trains : ReceiveDatagram(loop) \/ TimeOut(loop)
    <2>1. PICK loop \in Trains : ReceiveDatagram(loop) \/ TimeOut(loop)
      BY <1>1
    <2>2. spc = loop /\ ((spc' = loop /\ ReceiveDatagram(loop))
                         \/ spc' = IF loop = "low" THEN "high" ELSE "judge")
      BY <2>1, ReceiveCounts DEF TimeOut, TimeOutThen, LeaveLoop
    <2>3. win' = win \/ ReceiveDatagram(loop)
      BY <2>1 DEF TimeOut, TimeOutThen
    <2> QED
      BY <2>1, <2>2, <2>3 DEF Trains, Judged
  <1>2. CASE CloseAndParse
    BY <1>2 DEF CloseAndParse, CloseThen, Judged
  <1>3. CASE StartServer \/ ServerAbort \/ CloseServer
    BY <1>3 DEF StartServer, ServerAbort, CloseServer, ServerExit, Judged
  <1>4. CASE \/ Listen1 \/ Accept1 \/ ReceiveConfig \/ Bind \/ Judge \/ Listen2
             \/ Accept2 \/ SendVerdict
    BY <1>4 DEF Listen1, Listen2, Listen, Accept1, Accept2, AcceptNext,
         ReceiveConfig, Bind, Judge, SendVerdict, Judged
  <1> QED
    BY <1>1, <1>2, <1>3, <1>4 DEF ServerStep

\* The last datagram a loop wants: there is no other, of either train.
LEMMA LastCounted ==
  ASSUME TypeOK, IsFiniteSet(flight), NEW loop \in Trains, ReceiveDatagram(loop),
         win[loop].n + 1 = TrainSize, Accounted(loop) <= Sent(loop)
  PROVE  /\ flight = {} /\ sockbuf' = <<>> /\ Sent(loop) = TrainSize
         /\ cpc \notin {"send", "close", loop}
  <1>1. /\ sockbuf # <<>> /\ sockbuf' = Tail(sockbuf) /\ sockbuf \in Seq(Sources)
    BY DEF TypeOK, NetworkTypeOK, ReceiveDatagram, ReceiveUpTo
  <1>2. /\ Cardinality(flight) \in Nat /\ Len(sockbuf) \in Nat /\ Len(sockbuf) > 0
        /\ TrainSize \in Nat \ {0} /\ win[loop].n \in Nat
    BY <1>1, Sizes
  <1>3. /\ Sent(loop) \in Nat /\ Sent(loop) <= TrainSize
        /\ cpc \in {"send", "close", loop} => Sent(loop) < TrainSize
    BY Sizes DEF Sent
  <1>4. win[loop].n + Len(sockbuf) + Cardinality(flight) <= Sent(loop)
    BY DEF Accounted
  <1>5. Sent(loop) = TrainSize
    BY <1>2, <1>3, <1>4
  <1>6. Cardinality(flight) = 0 /\ Len(sockbuf) = 1
    <2>1. Cardinality(flight) = 0
      BY <1>2, <1>4, <1>5
    <2>2. Len(sockbuf) = 1
      <3>1. \A n, l, c, s \in Nat : n + l + c <= s /\ l > 0 /\ n + 1 = s => l = 1
        OBVIOUS
      <3> QED
        BY <1>2, <1>3, <1>4, <1>5, <3>1
    <2> QED
      BY <2>1, <2>2
  <1>7. flight = {}
    BY <1>6, Sizes
  <1>8. sockbuf' = <<>>
    BY <1>1, <1>6
  <1>9. cpc \notin {"send", "close", loop}
    BY <1>2, <1>3, <1>5
  <1> QED
    BY <1>5, <1>7, <1>8, <1>9

\* The first loop has counted its last datagram: the client is asleep between
\* the trains, and has been for no longer than a delay.
LEMMA LastOfLow ==
  ASSUME Distinct, TypeOK, Separated, Unsent, LowLoop,
         ReceiveDatagram("low"), win["low"].n + 1 = TrainSize
  PROVE  /\ flight = {} /\ sockbuf' = <<>> /\ win["high"].n = 0
         /\ cpc = "failed" \/ (Asleep /\ InterTime - ctimer <= MaxDelay)
  <1>1. "low" \in Trains /\ spc = "low" /\ sockbuf # <<>>
    BY ReceiveCounts DEF Trains
  <1>2. Accounted("low") <= Sent("low") /\ IsFiniteSet(flight)
    BY <1>1 DEF LowLoop, Unsent
  <1>3. flight = {} /\ sockbuf' = <<>> /\ cpc \notin {"send", "close", "low"}
    BY <1>1, <1>2, LastCounted
  <1>4. win["high"].n = 0
    BY <1>1 DEF TypeOK, ServerTypeOK, Unmeasured
  <1>5. cpc = "failed" \/ Asleep
    BY <1>1, <1>3 DEF LowLoop
  <1>6. Asleep => InterTime - ctimer <= MaxDelay
    BY <1>1 DEF Separated, Timing
  <1> QED
    BY <1>3, <1>4, <1>5, <1>6

\* If the first loop times out, the low train is over and gone.
LEMMA LowTimedOut ==
  ASSUME Distinct, TypeOK, Separated, Unsent, LowLoop, TimeOut("low")
  PROVE  flight = {} /\ sockbuf = <<>> /\ cpc \notin {"idle", "connect1", "send", "close", "low"}
  <1>1. spc = "low" /\ sockbuf = <<>> /\ stimer = 0 /\ LowTime + MaxDelay < UdpTimeout
    BY DEF TimeOut, TimeOutThen, TimedOut, Distinct, LongEnough
  <1>2. /\ UdpTimeout \in Nat /\ MaxDelay \in Nat /\ Second \in Nat /\ ctimer \in Nat
        /\ ci \in 0..TrainSize-1
    BY Sizes DEF Trains
  <1>3. LowTime \in Nat /\ Second + ci * MaxGap <= LowTime /\ ci * MaxGap \in Nat
    BY <1>2, GapTimes DEF LowTime
  <1>4. cpc \notin {"send", "close"}
    BY <1>1, <1>2, <1>3 DEF LowLoop
  <1>5. cpc # "low"
    <2>1. SUFFICES ASSUME cpc = "low" PROVE FALSE
      OBVIOUS
    <2>2. (UdpTimeout - stimer) + ctimer <= Second + ci * MaxGap
      BY <1>1, <2>1 DEF LowLoop
    <2> QED
      BY <1>1, <1>2, <1>3, <2>2
  <1>6. flight = {}
    <2>1. SUFFICES ASSUME NEW p \in flight PROVE FALSE
      OBVIOUS
    <2>2. p.age \in 0..MaxDelay
      BY DEF TypeOK, NetworkTypeOK, Packets
    <2>3. UdpTimeout - stimer <= LowTime + p.age
      BY <1>1 DEF LowLoop
    <2> QED
      BY <1>1, <1>2, <1>3, <2>2, <2>3
  <1> QED
    BY <1>1, <1>4, <1>5, <1>6 DEF LowLoop, Asleep

-----------------------------------------------------------------------------
(***************************************************************************)
(* Told is inductive: the two loops and the trains.                        *)
(***************************************************************************)

\* LowLoop is inductive.
LEMMA LowLoopStep ==
  Distinct /\ TypeOK /\ Separated /\ Unsent /\ LowLoop /\ [Next]_vars => LowLoop'
  <1> SUFFICES ASSUME Distinct, TypeOK, Separated, Unsent, LowLoop, [Next]_vars,
                      spc' = "low"
               PROVE  LowLoop'
    BY DEF LowLoop
  <1>1. /\ "low" \in Trains /\ OneRun /\ Single /\ Handshake /\ IsFiniteSet(flight)
        /\ spc = "low" => stimer <= UdpTimeout
    BY DEF Trains, Distinct, OneRun, Separated, Unsent, Timing
  <1>2. /\ TrainSize \in Nat \ {0} /\ UdpTimeout \in Nat /\ Second \in Nat /\ MaxGap \in Nat
        /\ ctimer \in Nat /\ stimer \in Nat /\ ci \in 0..TrainSize-1
        /\ win["low"].n \in 0..TrainSize /\ Len(sockbuf) \in Nat
        /\ Cardinality(flight) \in Nat
    BY <1>1, Sizes
  <1>3. /\ LowTime \in Nat /\ ci * MaxGap \in Nat /\ Second + ci * MaxGap <= LowTime
        /\ (ci + 1) * MaxGap = ci * MaxGap + MaxGap
    BY <1>2, GapTimes DEF LowTime
  <1>4. \A p \in flight : p.age \in Nat
    BY NetworkAssumption DEF TypeOK, NetworkTypeOK, Packets
  <1>5. CASE Bind /\ UNCHANGED clientVars
    <2>1. Preparing /\ Early /\ cpc \notin {"idle", "connect1"}
      BY <1>1, <1>5, BindShakes
    <2>2. flight = {} /\ sockbuf = <<>> /\ ci = 0
      BY <2>1 DEF Unsent, Due
    <2>3. /\ flight' = {} /\ sockbuf' = <<>> /\ stimer' = UdpTimeout /\ win' = win
          /\ ctimer' = ctimer /\ cpc' = cpc /\ ci' = 0
      BY <1>5, <2>2 DEF Bind, clientVars
    <2>4. win["low"].n = 0
      BY <1>1, <1>5 DEF Bind, TypeOK, ServerTypeOK, Unmeasured
    <2>5. Accounted("low")' = 0
      BY <2>3, <2>4, FS_EmptySet DEF Accounted
    <2>6. Sent("low")' \in Nat
      BY <1>2, <2>3 DEF Sent
    <2>7. cpc \in {"send", "close", "failed"} \/ (cpc = "low" /\ ctimer = Second)
      BY <2>1 DEF Early
    <2> QED
      BY <1>2, <2>2, <2>3, <2>5, <2>6, <2>7, <1>3 DEF LowLoop
  <1>6. CASE ReceiveDatagram("low") /\ UNCHANGED clientVars
    <2>1. /\ spc = "low" /\ Len(sockbuf') = Len(sockbuf) - 1 /\ stimer' = UdpTimeout
          /\ win'["low"].n = win["low"].n + 1
          /\ UNCHANGED <<flight, ctimer, cpc, ci>>
      BY <1>1, <1>6, ReceiveCounts DEF clientVars
    <2>2. Accounted("low")' = Accounted("low")
      BY <1>2, <2>1 DEF Accounted
    <2>3. Sent("low")' = Sent("low")
      BY <2>1 DEF Sent
    <2>4. cpc' = "low" => (UdpTimeout - stimer') + ctimer' <= Second + ci' * MaxGap
      <3>1. SUFFICES ASSUME cpc = "low"
                     PROVE  (UdpTimeout - UdpTimeout) + ctimer <= Second + ci * MaxGap
        BY <2>1
      <3> DEFINE sent == ci * MaxGap
      <3>2. sent \in Nat /\ (UdpTimeout - stimer) + ctimer <= Second + sent
        BY <1>3, <2>1, <3>1 DEF LowLoop
      <3> HIDE DEF sent
      <3>3. (UdpTimeout - UdpTimeout) + ctimer <= Second + sent
        BY <1>1, <1>2, <2>1, <3>2
      <3> QED
        BY <3>3 DEF sent
    <2>5. \A p \in flight' : UdpTimeout - stimer' <= LowTime + p.age
      <3>1. UdpTimeout - stimer' = 0 /\ flight' = flight
        BY <1>2, <2>1
      <3>2. \A p \in flight : 0 <= LowTime + p.age
        BY <1>3, <1>4
      <3> QED
        BY <3>1, <3>2
    <2> QED
      BY <2>1, <2>2, <2>3, <2>4, <2>5 DEF LowLoop, Asleep
  <1> DEFINE clientOnly ==
        UNCHANGED <<spc, stimer, win, sockbuf, sboot, sess, verdict>>
  <1>7. CASE SendLow /\ UNCHANGED serverVars
    <2>1. /\ clientOnly /\ cpc = "low" /\ ctimer = 0 /\ spc = "low"
          /\ \/ /\ ci + 1 < TrainSize /\ ci' = ci + 1 /\ cpc' = "low"
                /\ ctimer' \in 0..MaxGap
             \/ ci + 1 >= TrainSize /\ ci' = 0 /\ cpc' = "high"
      BY <1>2, <1>7 DEF SendLow, SendTrain, serverVars
    <2>2. PICK p : /\ p.age = 0 /\ flight' = flight \cup {p} /\ IsFiniteSet(flight')
                   /\ Cardinality(flight') <= Cardinality(flight) + 1
      BY <1>1, <1>7, LaunchAdds DEF SendLow
    <2>3. Cardinality(flight') \in Nat
      BY <2>2, FS_CardinalityType
    <2>4. Accounted("low") <= ci
      BY <2>1 DEF LowLoop, Sent
    <2>5. Accounted("low")' <= ci + 1
      BY <1>2, <2>1, <2>2, <2>3, <2>4 DEF Accounted
    <2>6. Sent("low")' = ci + 1
      <3>1. cpc' = "high" => TrainSize = ci + 1
        BY <1>2, <2>1
      <3>2. cpc' = "low" => ci' = ci + 1
        BY <2>1
      <3> QED
        BY <2>1, <3>1, <3>2 DEF Sent
    <2>7. UdpTimeout - stimer <= Second + ci * MaxGap
      BY <1>2, <2>1 DEF LowLoop
    <2>8. \A q \in flight' : UdpTimeout - stimer' <= LowTime + q.age
      <3>1. \A q \in flight : UdpTimeout - stimer <= LowTime + q.age
        BY <2>1 DEF LowLoop
      <3>2. UdpTimeout - stimer <= LowTime + p.age
        BY <1>2, <1>3, <2>2, <2>7
      <3> QED
        BY <2>1, <2>2, <3>1, <3>2
    <2>9. cpc' = "low" => (UdpTimeout - stimer') + ctimer' <= Second + ci' * MaxGap
      <3>1. SUFFICES ASSUME cpc' = "low"
                     PROVE  (UdpTimeout - stimer) + ctimer' <= Second + (ci + 1) * MaxGap
        BY <2>1
      <3>2. ctimer' \in 0..MaxGap
        BY <2>1, <3>1
      <3> DEFINE sent == ci * MaxGap
                 next == (ci + 1) * MaxGap
      <3>3. /\ sent \in Nat /\ next = sent + MaxGap /\ next \in Nat
            /\ UdpTimeout - stimer <= Second + sent
        BY <1>2, <1>3, <2>7
      <3> HIDE DEF sent, next
      <3>4. (UdpTimeout - stimer) + ctimer' <= Second + next
        <4>1. \A u, s, c, a, x, g \in Nat : u - s <= a + x /\ c <= g => (u - s) + c <= a + (x + g)
          OBVIOUS
        <4>2. ctimer' \in Nat /\ ctimer' <= MaxGap
          BY <1>2, <3>2
        <4> QED
          BY <1>2, <3>3, <4>1, <4>2
      <3> QED
        BY <3>4 DEF next
    <2> QED
      BY <2>1, <2>5, <2>6, <2>8, <2>9 DEF LowLoop, Asleep
  <1>8. CASE ClientNext /\ ~SendLow
    <2>1. spc = "low" /\ clientOnly
      BY <1>8 DEF ClientNext, serverVars, ClientStep, Connect1, Connect2, Connect,
           SendConfig, CloseConfig, CloseAndSleep, ReceiveVerdict, SendHigh, SendTrain,
           udpVars
    <2>2. cpc \in {"send", "close", "low", "failed"} \/ Asleep
      BY <2>1 DEF LowLoop
    <2>3. ~SendHigh
      BY <1>1, <1>8, <2>1, SendHighIsLate DEF ClientNext, Past
    <2>4. CASE SendConfig
      <3>1. cpc = "send" /\ cpc' \in {"close", "failed"} /\ flight' = flight
            /\ (cpc' = "close" => ctimer' = ctimer)
        BY <2>4 DEF SendConfig, ClientExit, udpVars
      <3>2. Sent("low") <= Sent("low")'
        BY <1>2, <3>1 DEF Sent
      <3>3. Accounted("low")' = Accounted("low") /\ Accounted("low") \in Int
        BY <1>2, <2>1, <3>1 DEF Accounted
      <3>4. Sent("low") \in Int /\ Sent("low")' \in Int
        BY <1>2, <3>1 DEF Sent
      <3> QED
        BY <2>1, <3>1, <3>2, <3>3, <3>4 DEF LowLoop, Asleep
    <2>5. CASE CloseConfig
      <3>1. cpc = "close" /\ cpc' = "low" /\ flight' = flight /\ ctimer' = Second /\ ci' = ci
        BY <2>5 DEF CloseConfig, CloseAndSleep, udpVars
      <3>2. ci = 0 /\ stimer = UdpTimeout
        BY <2>1, <3>1 DEF LowLoop, Unsent
      <3>3. Accounted("low")' = Accounted("low") /\ Accounted("low") <= 0
        BY <2>1, <3>1 DEF Accounted, LowLoop, Sent
      <3>4. Sent("low")' = 0
        BY <3>1, <3>2 DEF Sent
      <3> QED
        BY <1>2, <1>3, <2>1, <3>1, <3>2, <3>3, <3>4 DEF LowLoop, Asleep
    <2> QED
      BY <1>8, <2>1, <2>2, <2>3, <2>4, <2>5 DEF ClientNext, ClientStep, Connect1,
         Connect2, Connect, ReceiveVerdict, Asleep
  <1>9. CASE ClientAbort /\ UNCHANGED serverVars
    <2>1. clientOnly /\ cpc' = "failed" /\ flight' = flight /\ spc = "low"
      BY <1>9 DEF ClientAbort, ClientExit, serverVars, udpVars
    <2>2. Accounted("low")' = Accounted("low") /\ Accounted("low") \in Int
      BY <1>2, <2>1 DEF Accounted
    <2>3. Sent("low") <= TrainSize /\ Sent("low")' = TrainSize /\ Sent("low") \in Int
      BY <1>2, <2>1 DEF Sent
    <2> QED
      BY <1>2, <2>1, <2>2, <2>3 DEF LowLoop, Asleep
  <1>10. CASE Deliver \/ Duplicate
    <2>1. PICK p \in flight :
             /\ flight' = flight \ {p} /\ Cardinality(flight') = Cardinality(flight) - 1
             /\ Len(sockbuf') \in {Len(sockbuf), Len(sockbuf) + 1}
             /\ UNCHANGED <<timeVars, tcpVars, clientVars, serverVars>>
      BY <1>1, <1>10, PathMoves DEF Distinct
    <2>2. Accounted("low")' <= Accounted("low") /\ Accounted("low") \in Int
          /\ Accounted("low")' \in Int
      <3>1. win' = win /\ win["low"].n \in Nat
        BY <1>2, <2>1 DEF serverVars
      <3>2. \A n, l, c, k \in Int : k <= l + 1 => n + k + (c - 1) <= n + l + c
        OBVIOUS
      <3>3. Len(sockbuf') \in Int /\ Len(sockbuf') <= Len(sockbuf) + 1
        BY <1>2, <2>1
      <3>4. Cardinality(flight') \in Int
        BY <1>2, <2>1
      <3>5. Accounted("low") = win["low"].n + Len(sockbuf) + Cardinality(flight)
            /\ Accounted("low")' = win["low"].n + Len(sockbuf') + (Cardinality(flight) - 1)
        BY <2>1, <3>1 DEF Accounted
      <3>6. Accounted("low")' <= Accounted("low")
        BY <1>2, <3>1, <3>2, <3>3, <3>5
      <3> QED
        BY <1>2, <3>1, <3>3, <3>5, <3>6
    <2>3. Sent("low")' = Sent("low") /\ Sent("low") \in Int
      BY <1>2, <2>1 DEF Sent, clientVars
    <2> QED
      BY <2>1, <2>2, <2>3 DEF LowLoop, Asleep, timeVars, clientVars, serverVars
  <1>11. CASE Tick
    <2>1. /\ UNCHANGED <<sockbuf, win, spc, cpc, ci>> /\ spc = "low"
          /\ stimer > 0 /\ stimer' = stimer - 1
          /\ cpc \notin {"send", "close"}
      BY <1>1, <1>2, <1>11, TickMeansIdle, TickShakes
      DEF Tick, Countdown, clientVars, serverVars
    <2>2. cpc = "low" => ctimer > 0 /\ ctimer' = ctimer - 1
      BY <1>1, <1>2, <1>11 DEF Tick, Countdown, ClientReady, ClientStopped, Single
    <2>3. Accounted("low")' = Accounted("low") /\ Sent("low")' = Sent("low")
      BY <1>1, <1>11, <2>1, TickAges DEF Accounted, Sent
    <2>4. \A q \in flight' : UdpTimeout - stimer' <= LowTime + q.age
      <3>1. SUFFICES ASSUME NEW q \in flight'
                     PROVE  UdpTimeout - stimer' <= LowTime + q.age
        OBVIOUS
      <3>2. PICK p \in flight : q.age = p.age + 1
        BY <1>11, TickAges
      <3>3. UdpTimeout - stimer <= LowTime + p.age /\ p.age \in Nat
        BY <1>4, <2>1 DEF LowLoop
      <3> QED
        BY <1>2, <1>3, <2>1, <3>2, <3>3
    <2>5. cpc = "low" => (UdpTimeout - stimer') + ctimer' <= Second + ci * MaxGap
      BY <1>2, <1>3, <2>1, <2>2 DEF LowLoop
    <2> QED
      BY <2>1, <2>3, <2>4, <2>5 DEF LowLoop, Asleep
  <1>12. CASE UNCHANGED vars
    BY <1>12 DEF LowLoop, Accounted, Sent, Asleep, vars, timeVars, tcpVars, udpVars,
                 clientVars, serverVars
  <1>13. CASE RunClient
    BY <1>13, <1>1, StartClientShakes
    DEF RunClient, StartClient, serverVars, Handshake, Untouched
  <1>14. CASE RunServer \/ ServerNext \/ (ServerAbort /\ UNCHANGED clientVars)
    BY <1>5, <1>6, <1>14, ServerLoops DEF RunServer, ServerNext
  <1>15. CASE SendLow /\ ClientNext
    BY <1>7, <1>15 DEF ClientNext
  <1> QED
    BY <1>8, <1>9, <1>10, <1>11, <1>12, <1>13, <1>14, <1>15 DEF Next, Abort, Finished

\* HighLoop is inductive: both ways out of the first loop leave nothing of the
\* low train behind.
LEMMA HighLoopStep ==
  Distinct /\ TypeOK /\ Separated /\ Unsent /\ LowLoop /\ HighLoop /\ [Next]_vars => HighLoop'
  <1> SUFFICES ASSUME Distinct, TypeOK, Separated, Unsent, LowLoop, HighLoop, [Next]_vars,
                      spc' = "high"
               PROVE  HighLoop'
    BY DEF HighLoop
  <1>1. OneRun /\ Single /\ Handshake /\ IsFiniteSet(flight)
    BY DEF Distinct, OneRun, Separated, Unsent
  <1>2. CASE TimeOut("low") /\ UNCHANGED clientVars
    <2>1. flight' = {} /\ sockbuf' = <<>> /\ UNCHANGED cpc
          /\ cpc \notin {"idle", "connect1", "send", "close", "low"}
      BY <1>2, LowTimedOut DEF TimeOut, TimeOutThen, udpVars, clientVars
    <2> QED
      BY <2>1 DEF HighLoop, NoneAbroad
  <1>3. CASE ReceiveDatagram("low") /\ UNCHANGED clientVars
    <2>1. win["low"].n + 1 = TrainSize
      BY <1>3, ReceiveCounts DEF Trains
    <2>2. flight' = {} /\ sockbuf' = <<>> /\ (cpc = "failed" \/ Asleep) /\ UNCHANGED cpc
      BY <1>3, <2>1, LastOfLow, ReceiveCounts DEF clientVars, Trains
    <2> QED
      BY <2>2 DEF HighLoop, NoneAbroad, Asleep
  <1>4. CASE ReceiveDatagram("high") /\ UNCHANGED clientVars
    <2>1. spc = "high" /\ ServerStep /\ UNCHANGED cpc
      BY <1>4 DEF ReceiveDatagram, ReceiveUpTo, ServerStep, Trains, clientVars
    <2> QED
      BY <2>1, TakesNone DEF HighLoop
  <1>5. CASE RunServer \/ ServerNext \/ (ServerAbort /\ UNCHANGED clientVars)
    BY <1>2, <1>3, <1>4, <1>5, ServerLoops DEF RunServer, ServerNext
  <1>6. CASE RunClient
    <2>1. cpc = "idle" /\ spc = "high"
      BY <1>1, <1>6, StartClientShakes DEF RunClient, serverVars
    <2> QED
      BY <2>1 DEF HighLoop
  <1>7. CASE SendHigh /\ UNCHANGED serverVars
    <2>1. PICK p : p.train = "high" /\ flight' = flight \cup {p}
      BY <1>1, <1>7, LaunchAdds DEF SendHigh, Trains
    <2>2. spc = "high" /\ cpc' \in {"high", "connect2"} /\ UNCHANGED sockbuf
      BY <1>7 DEF SendHigh, SendTrain, serverVars
    <2> QED
      BY <2>1, <2>2 DEF HighLoop, NoneAbroad
  <1>8. CASE (ClientNext /\ ~SendHigh) \/ (ClientAbort /\ UNCHANGED serverVars)
    <2>1. spc = "high" /\ cpc \notin {"idle", "connect1", "send", "close", "low"}
      BY <1>8 DEF ClientNext, serverVars, HighLoop
    <2>2. cpc' \in {"recv", "done", "failed"} /\ UNCHANGED udpVars
      BY <1>8, <2>1 DEF ClientNext, ClientStep, ClientAbort, Connect1, Connect2, Connect,
           SendConfig, CloseConfig, CloseAndSleep, SendLow, SendTrain, ReceiveVerdict,
           ClientExit
    <2> QED
      BY <2>1, <2>2 DEF HighLoop, NoneAbroad, udpVars
  <1>9. CASE Deliver \/ Duplicate
    <2>1. UNCHANGED <<clientVars, serverVars>>
      BY <1>9 DEF Deliver, Duplicate
    <2> QED
      BY <1>1, <1>9, <2>1, PathBrings DEF HighLoop, clientVars, serverVars
  <1>10. CASE Tick
    <2>1. UNCHANGED <<clientVars, serverVars>>
      BY <1>10 DEF Tick
    <2> QED
      BY <1>10, <2>1, TickBrings DEF HighLoop, clientVars, serverVars
  <1>11. CASE UNCHANGED vars
    BY <1>11 DEF HighLoop, NoneAbroad, vars, udpVars, clientVars, serverVars
  <1> QED
    BY <1>5, <1>6, <1>7, <1>8, <1>9, <1>10, <1>11 DEF Next, Abort, Finished, ClientNext

\* What the server has measured changes in a loop only, or is discarded.
LEMMA OthersMeasureNothing ==
  ASSUME [Next]_vars, ~RunServer, ~(ServerNext \/ (ServerAbort /\ UNCHANGED clientVars))
  PROVE  UNCHANGED serverVars
  BY DEF Next, Abort, Finished, RunServer, RunClient, ServerNext, ClientNext,
         Deliver, Duplicate, Tick, vars

\* Starved is inductive: the second loop times out before the client wakes up.
LEMMA StarvedStep ==
  Distinct /\ TypeOK /\ Separated /\ Told /\ [Next]_vars => Starved'
  <1> SUFFICES ASSUME Distinct, TypeOK, Separated, Told, [Next]_vars PROVE Starved'
    OBVIOUS
  <1>1. /\ OneRun /\ Single /\ Handshake /\ Unsent /\ LowLoop /\ Starved
        /\ IsFiniteSet(flight) /\ UdpTimeout + MaxDelay < InterTime /\ UdpTimeout > 0
    BY DEF Distinct, OneRun, Separated, Told, Unsent, TimeoutRule
  <1>2. /\ UdpTimeout \in Nat /\ InterTime \in Nat /\ MaxDelay \in Nat
        /\ ctimer \in Nat /\ stimer \in Nat /\ win["low"].n \in 0..TrainSize
        /\ TrainSize \in Nat /\ win["high"].n \in 0..TrainSize
    BY Sizes DEF Trains
  <1>3. ASSUME UNCHANGED clientVars, ServerStep \/ StartServer \/ ServerAbort
        PROVE  Starved'
    <2>1. CASE ReceiveDatagram("low")
      <3>1. /\ ctimer' = ctimer /\ flight' = flight /\ cpc' = cpc /\ ci' = ci
            /\ spc' # "judge" /\ win'["low"].n = win["low"].n + 1
            /\ win'["high"] = win["high"]
            /\ spc' = "high" => stimer' = UdpTimeout /\ win["low"].n + 1 = TrainSize
        BY <1>3, <2>1, ReceiveCounts DEF clientVars, Trains
      <3>2. CASE spc' = "high"
        <4>1. /\ flight' = {} /\ sockbuf' = <<>> /\ win'["high"].n = 0
              /\ cpc' = "failed" \/ (Asleep' /\ InterTime - ctimer' <= MaxDelay)
          BY <1>1, <2>1, <3>1, <3>2, LastOfLow DEF Asleep
        <4>2. InterTime - ctimer' <= MaxDelay
                => stimer' + (InterTime - ctimer') <= UdpTimeout + MaxDelay
          BY <1>2, <3>1, <3>2
        <4> QED
          BY <3>1, <4>1, <4>2 DEF Starved
      <3> QED
        BY <3>1, <3>2 DEF Starved
    <2>2. CASE TimeOut("low")
      <3>1. spc' # "judge" /\ win' = win /\ win["low"].n # TrainSize
        BY <1>2, <2>2 DEF TimeOut, TimeOutThen, LeaveLoop, TypeOK, ServerTypeOK
      <3> QED
        BY <3>1 DEF Starved
    <2>3. CASE ReceiveDatagram("high")
      <3>1. spc = "high" /\ sockbuf # <<>> /\ win'["low"] = win["low"]
        BY <2>3, ReceiveCounts DEF Trains
      <3> QED
        BY <1>1, <3>1 DEF Starved
    <2>4. CASE TimeOut("high")
      <3>1. spc = "high" /\ spc' = "judge" /\ win' = win
        BY <2>4 DEF TimeOut, TimeOutThen, LeaveLoop
      <3> QED
        BY <1>1, <3>1 DEF Starved
    <2> QED
      BY <1>3, <2>1, <2>2, <2>3, <2>4, ServerLoops DEF Starved
  <1>4. ASSUME ~RunServer, ~ServerNext, ~(ServerAbort /\ UNCHANGED clientVars)
        PROVE  Starved'
    <2>1. spc' = spc /\ win' = win
      BY <1>4, OthersMeasureNothing DEF serverVars
    <2>2. SUFFICES ASSUME spc = "high", win["low"].n = TrainSize
                   PROVE  /\ flight' = {} /\ sockbuf' = <<>>
                          /\ cpc' = "failed"
                             \/ (Asleep' /\ stimer' + (InterTime - ctimer') <= UdpTimeout + MaxDelay)
      BY <1>1, <2>1 DEF Starved
    <2>3. /\ flight = {} /\ sockbuf = <<>>
          /\ cpc = "failed"
             \/ (Asleep /\ stimer + (InterTime - ctimer) <= UdpTimeout + MaxDelay)
      BY <1>1, <2>2 DEF Starved
    <2>4. CASE RunClient
      BY <1>1, <2>3, <2>4, StartClientShakes DEF Asleep
    <2>5. CASE SendHigh
      <3>1. Asleep /\ ctimer = 0
        BY <2>3, <2>5 DEF SendHigh, SendTrain
      <3> QED
        BY <1>1, <1>2, <2>3, <3>1 DEF Asleep
    <2>6. CASE (ClientNext /\ ~SendHigh) \/ ClientAbort
      <3>1. cpc \in {"high", "failed"}
        BY <2>3 DEF Asleep
      <3>2. cpc' = "failed" /\ UNCHANGED udpVars
        BY <2>6, <3>1 DEF ClientNext, ClientStep, ClientAbort, Connect1, Connect2, Connect,
           SendConfig, CloseConfig, CloseAndSleep, SendLow, SendTrain, ReceiveVerdict,
           ClientExit, ClientStopped
      <3> QED
        BY <2>3, <3>2 DEF udpVars
    <2>7. CASE Deliver \/ Duplicate
      BY <2>3, <2>7 DEF Deliver, Duplicate
    <2>8. CASE Tick
      <3>1. flight' = {} /\ sockbuf' = <<>> /\ cpc' = cpc /\ ci' = ci
        BY <2>3, <2>8 DEF Tick, clientVars
      <3>2. stimer # 0
        BY <1>1, <2>2, <2>3, <2>8
        DEF Tick, Single, ServerReady, ServerStopped, TimedOut
      <3>3. Asleep => ctimer # 0
        BY <1>1, <2>8, TickMeansIdle
      <3>4. Asleep => stimer' = stimer - 1 /\ ctimer' = ctimer - 1
        BY <1>2, <2>8, <3>2, <3>3 DEF Tick, Countdown
      <3> QED
        BY <1>2, <2>3, <3>1, <3>4 DEF Asleep
    <2>9. CASE UNCHANGED vars
      BY <2>3, <2>9 DEF vars, timeVars, udpVars, clientVars, Asleep
    <2> QED
      BY <1>4, <2>4, <2>5, <2>6, <2>7, <2>8, <2>9
      DEF Next, Abort, Finished, ClientNext
  <1> QED
    BY <1>3, <1>4 DEF RunServer, ServerNext

\* Initially nothing has been sent and nothing is measured.
LEMMA ToldInit == Init => Told
  <1> SUFFICES ASSUME Init PROVE Told
    OBVIOUS
  <1>1. /\ cpc = "idle" /\ ci = 0 /\ spc = "off" /\ sess = 0
        /\ flight = {} /\ sockbuf = <<>> /\ Asleep = FALSE
    BY DEF Init, NetworkInit, ClientInit, ServerInit, Asleep
  <1>2. First \in ConnIds => conns[First].server = "none"
    BY DEF Init, NetworkInit
  <1>3. Unsent
    BY <1>1, FS_EmptySet DEF Unsent
  <1> QED
    BY <1>1, <1>3 DEF Told, LowLoop, HighLoop, Starved

\* The four together.
LEMMA ToldStep == Distinct /\ TypeOK /\ Separated /\ Told /\ [Next]_vars => Told'
  <1> SUFFICES ASSUME Distinct, TypeOK, Separated, Told, [Next]_vars PROVE Told'
    OBVIOUS
  <1>1. Single /\ Handshake /\ Unsent /\ LowLoop /\ HighLoop
    BY DEF Distinct, OneRun, Separated, Told
  <1> QED
    BY <1>1, UnsentStep, LowLoopStep, HighLoopStep, StarvedStep DEF Told

\* The head of the buffer is not low, so the second loop counts a high one.
LEMMA NoLowInHighStep ==
  Distinct /\ TypeOK /\ Told /\ NoLowInHigh /\ [Next]_vars => NoLowInHigh'
  <1> SUFFICES ASSUME Distinct, TypeOK, Told, NoLowInHigh, [Next]_vars
               PROVE  NoLowInHigh'
    OBVIOUS
  <1>1. CASE UNCHANGED win
    BY <1>1 DEF NoLowInHigh
  <1>2. CASE StartServer
    BY <1>2 DEF StartServer, NoLowInHigh, Unmeasured, Trains
  <1>3. CASE ReceiveDatagram("low")
    <2>1. win'["high"] = win["high"]
      BY <1>3, ReceiveCounts DEF Trains
    <2> QED
      BY <2>1 DEF NoLowInHigh
  <1>4. CASE ReceiveDatagram("high")
    <2>1. /\ spc = "high" /\ sockbuf # <<>>
          /\ \A s \in win'["high"].from : s \in win["high"].from \/ s = sockbuf[1]
      BY <1>4, ReceiveCounts DEF Trains
    <2>2. 1 \in 1..Len(sockbuf) /\ sockbuf[1].train \in Trains
      <3>1. sockbuf \in Seq(Sources) /\ Len(sockbuf) # 0
        BY <2>1 DEF TypeOK, NetworkTypeOK
      <3>2. 1 \in 1..Len(sockbuf) /\ sockbuf[1] \in Sources
        BY <3>1
      <3> QED
        BY <3>2 DEF Sources
    <2>3. sockbuf[1].train = "high"
      BY <2>1, <2>2 DEF Told, HighLoop, NoneAbroad, Trains
    <2> QED
      BY <2>1, <2>3 DEF NoLowInHigh
  <1> QED
    BY <1>1, <1>2, <1>3, <1>4, ServerLoops, OthersMeasureNothing
    DEF RunServer, ServerNext, serverVars, Trains

\* A verdict is computed once, from the windows as the loops left them.
LEMMA WholeTrainStarvesSecondStep ==
  TypeOK /\ Told /\ WholeTrainStarvesSecond /\ [Next]_vars => WholeTrainStarvesSecond'
  <1> SUFFICES ASSUME TypeOK, Told, WholeTrainStarvesSecond, [Next]_vars, Judged'
               PROVE  WholeTrainStarvesSecond'
    BY DEF WholeTrainStarvesSecond
  <1>1. CASE RunServer \/ ServerNext \/ (ServerAbort /\ UNCHANGED clientVars)
    <2>1. Judged \/ Judge
      BY <1>1, ServerLoops DEF RunServer, ServerNext
    <2>2. ~StartServer /\ \A loop \in Trains : ~ReceiveDatagram(loop)
      BY ReceiveCounts, <2>1 DEF Judged, Judge, StartServer, Trains
    <2>3. win' = win
      BY <1>1, <2>2, ServerLoops DEF RunServer, ServerNext
    <2> QED
      BY <2>1, <2>3 DEF WholeTrainStarvesSecond, Told, Starved, Judge
  <1>2. CASE UNCHANGED serverVars
    BY <1>2 DEF WholeTrainStarvesSecond, Judged, serverVars
  <1> QED
    BY <1>1, <1>2, OthersMeasureNothing

\* If udp_timeout obeys the README's rule and outlasts the sending of the first
\* train and a delay, the second receiving loop counts no datagram of the low
\* train: neither delta of probing mixes the trains, for every train size,
\* timeout, pause, delay and buffer, whatever the path loses and wherever
\* either program fails.  One run of the client, and no duplicates.
THEOREM LowTrainIsLeftBehind == Distinct /\ Spec => []NoLowInHigh
  <1> SUFFICES ASSUME Distinct PROVE Spec => []NoLowInHigh
    OBVIOUS
  <1> DEFINE Inv == TypeOK /\ Separated /\ Told /\ NoLowInHigh
  <1>1. Init => NoLowInHigh
    BY DEF Init, ServerInit, NoLowInHigh, Unmeasured, Trains
  <1>2. Init => Inv
    BY <1>1, TypeInit, SeparatedInit, ToldInit DEF Distinct
  <1>3. Inv /\ [Next]_vars => Inv'
    BY TypeStep, SeparatedStep, ToldStep, NoLowInHighStep DEF Distinct
  <1> QED
    BY <1>2, <1>3, PTL DEF Spec

\* Under the same conditions a first train that arrives whole makes the second
\* loop of probing start an inter_measurement_time early: it times out and has
\* measured nothing.  This is a flaw of the counting, not of one choice of times.
THEOREM SecondLoopStarves == Distinct /\ Spec => []WholeTrainStarvesSecond
  <1> SUFFICES ASSUME Distinct PROVE Spec => []WholeTrainStarvesSecond
    OBVIOUS
  <1> DEFINE Inv == TypeOK /\ Separated /\ Told /\ WholeTrainStarvesSecond
  <1>1. Init => WholeTrainStarvesSecond
    BY DEF Init, ServerInit, WholeTrainStarvesSecond, Judged
  <1>2. Init => Inv
    BY <1>1, TypeInit, SeparatedInit, ToldInit DEF Distinct
  <1>3. Inv /\ [Next]_vars => Inv'
    BY TypeStep, SeparatedStep, ToldStep, WholeTrainStarvesSecondStep DEF Distinct
  <1> QED
    BY <1>2, <1>3, PTL DEF Spec

-----------------------------------------------------------------------------
(***************************************************************************)
(* Spread is inductive: jitter is not compression.                         *)
(***************************************************************************)

\* Once there is a verdict, it and what it was computed from stay.
LEMMA DecisionStands ==
  ASSUME TypeOK, [Next]_vars, Judged'
  PROVE  /\ win' = win
         /\ Judge \/ (Judged /\ verdict' = verdict)
  <1>1. CASE RunServer \/ ServerNext \/ (ServerAbort /\ UNCHANGED clientVars)
    <2>1. Judged \/ Judge
      BY <1>1, ServerLoops DEF RunServer, ServerNext
    <2>2. ~StartServer /\ \A loop \in Trains : ~ReceiveDatagram(loop)
      BY ReceiveCounts, <2>1 DEF Judged, Judge, StartServer, Trains
    <2>3. win' = win
      BY <1>1, <2>2, ServerLoops DEF RunServer, ServerNext
    <2>4. Judge \/ verdict' = verdict
      BY <1>1, <2>1, <2>2
      DEF RunServer, ServerNext, ServerStep, ServerAbort, Listen1, Listen2, Listen,
          Accept1, Accept2, AcceptNext, ReceiveConfig, CloseAndParse, CloseThen, Bind,
          TimeOut, TimeOutThen, SendVerdict, CloseServer, ServerExit
    <2> QED
      BY <2>1, <2>3, <2>4
  <1>2. CASE UNCHANGED serverVars
    BY <1>2 DEF Judged, serverVars
  <1> QED
    BY <1>1, <1>2, OthersMeasureNothing

\* A datagram received was at most Jitter behind the first one.
LEMMA Jitters ==
  /\ Jitter \in Nat
  /\ \A i \in 0..TrainSize-1, age \in 0..MaxDelay : i * MaxGap + age <= Jitter
  <1>1. (TrainSize - 1) * MaxGap \in Nat /\ MaxDelay \in Nat
    BY GapTimes, NetworkAssumption
  <1>2. ASSUME NEW i \in 0..TrainSize-1, NEW age \in 0..MaxDelay
        PROVE  i * MaxGap + age <= Jitter
    <2> DEFINE a == i * MaxGap
               b == (TrainSize - 1) * MaxGap
    <2>1. a \in Nat /\ b \in Nat /\ a <= b
      BY GapTimes
    <2>2. Jitter = b + MaxDelay
      BY DEF Jitter
    <2> HIDE DEF a, b
    <2>3. a + age <= Jitter
      BY <1>1, <2>1, <2>2
    <2> QED
      BY <2>3 DEF a
  <1> QED
    BY <1>1, <1>2 DEF Jitter

\* Spread is inductive.
LEMMA SpreadStep == Distinct /\ TypeOK /\ Told /\ Spread /\ [Next]_vars => Spread'
  <1> SUFFICES ASSUME Distinct, TypeOK, Told, Spread, [Next]_vars PROVE Spread'
    OBVIOUS
  <1>1. Prompt /\ IsFiniteSet(flight) /\ Unsent /\ HighLoop
    BY DEF Distinct, OneRun, Single, Told, Unsent
  <1>2. /\ TrainSize \in Nat \ {0} /\ MaxGap \in Nat /\ MaxDelay \in Nat
        /\ ctimer \in Nat /\ now \in Nat /\ ci \in 0..TrainSize-1
        /\ win["high"].n \in 0..TrainSize
    BY Sizes DEF Trains
  <1>3. \A t \in Trains : win[t].start \in Nat /\ win[t].end \in Nat
    BY DEF TypeOK, ServerTypeOK, Windows
  <1>4. ci * MaxGap \in Nat /\ (ci + 1) * MaxGap = ci * MaxGap + MaxGap
        /\ (ci > 0 => MaxGap <= ci * MaxGap)
    <2>1. ci > 0 => MaxGap <= ci * MaxGap
      <3>1. SUFFICES ASSUME ci > 0 PROVE MaxGap <= ci * MaxGap
        OBVIOUS
      <3>2. ci - 1 \in 0..TrainSize-1
        BY <1>2, <3>1
      <3>3. (ci - 1) * MaxGap \in Nat /\ ((ci - 1) + 1) * MaxGap = (ci - 1) * MaxGap + MaxGap
        BY <3>2, GapTimes
      <3>4. (ci - 1) + 1 = ci
        BY <1>2
      <3> QED
        BY <1>2, <3>3, <3>4
    <2> QED
      BY <1>2, <2>1, GapTimes
  <1>5. \A p \in flight : p.age \in 0..MaxDelay /\ p.id \in 0..TrainSize-1
    BY DEF TypeOK, NetworkTypeOK, Packets
  <1>6. Jitter \in Nat
    BY Jitters
  <1>7. ASSUME UNCHANGED clientVars, ServerStep \/ StartServer \/ ServerAbort
        PROVE  Spread'
    <2>1. flight' = flight /\ now' = now /\ ctimer' = ctimer /\ cpc' = cpc /\ ci' = ci
      BY <1>7, ServerTakes DEF clientVars
    <2>2. CASE StartServer
      <3>1. spc' # "high" /\ \A t \in Trains : win'[t] = Unmeasured
        BY <2>2 DEF StartServer
      <3> QED
        BY <1>2, <1>6, <2>1, <3>1 DEF Spread, Unmeasured, Trains
    <2>3. CASE ReceiveDatagram("low")
      <3>1. /\ win'["low"].end = now /\ win'["high"] = win["high"] /\ spc = "low"
            /\ win'["low"].start = IF win["low"].n = 0 THEN now ELSE win["low"].start
        BY <2>3, ReceiveCounts DEF Trains
      <3>2. win["high"].n = 0
        BY <3>1 DEF TypeOK, ServerTypeOK, Unmeasured
      <3>3. win["low"].start <= now
        BY <1>2, <1>3 DEF Spread, Trains
      <3>4. \A t \in Trains : win'[t].start <= win'[t].end /\ win'[t].end <= now
        BY <1>2, <3>1, <3>3 DEF Spread, Trains
      <3> QED
        BY <2>1, <3>1, <3>2, <3>4 DEF Spread
    <2>4. CASE ReceiveDatagram("high")
      <3>1. /\ spc = "high" /\ sockbuf # <<>> /\ win'["low"] = win["low"]
            /\ win'["high"].end = now
            /\ win'["high"].start = IF win["high"].n = 0 THEN now ELSE win["high"].start
        BY <2>4, ReceiveCounts DEF Trains
      <3>2. win["high"].n > 0 => SinceFirst <= Jitter
        BY <3>1 DEF Spread
      <3>3. now - win'["high"].start = IF win["high"].n = 0 THEN 0 ELSE SinceFirst
        BY <1>2, <3>1 DEF SinceFirst
      <3>4. now - win'["high"].start <= Jitter
        BY <1>2, <1>6, <3>2, <3>3
      <3>5. win["high"].start <= now
        BY <1>2, <1>3 DEF Spread, Trains
      <3>6. \A t \in Trains : win'[t].start <= win'[t].end /\ win'[t].end <= now
        BY <1>2, <3>1, <3>5 DEF Spread, Trains
      <3>7. ~Asleep
        <4>1. sockbuf \in Seq(Sources) /\ Len(sockbuf) # 0
          BY <3>1 DEF TypeOK, NetworkTypeOK
        <4>4. 1 \in 1..Len(sockbuf) /\ sockbuf[1] \in Sources
          BY <4>1
        <4>2. 1 \in 1..Len(sockbuf) /\ sockbuf[1].train \in Trains
          BY <4>4 DEF Sources
        <4>3. sockbuf[1].train = "high"
          BY <3>1, <4>2, <1>1 DEF HighLoop, NoneAbroad, Trains
        <4> QED
          BY <1>1, <4>2, <4>3 DEF Unsent, NoneAbroad
      <3>8. SinceFirst' = now - win'["high"].start
        BY <2>1 DEF SinceFirst
      <3>9. cpc = "high" => ci > 0 /\ SinceFirst' + ctimer <= ci * MaxGap
        <4>1. SUFFICES ASSUME cpc = "high" PROVE ci > 0 /\ SinceFirst' + ctimer <= ci * MaxGap
          OBVIOUS
        <4>2. ci > 0
          BY <1>2, <3>7, <4>1 DEF Asleep
        <4>3. ctimer <= MaxGap
          BY <4>1, <4>2 DEF Spread
        <4>4. win["high"].n > 0 => SinceFirst + ctimer <= ci * MaxGap
          BY <3>1, <4>1 DEF Spread
        <4> QED
          BY <1>2, <1>4, <3>3, <3>8, <4>2, <4>3, <4>4
      <3>10. \A p \in flight : SinceFirst' <= p.id * MaxGap + p.age
        <4>1. SUFFICES ASSUME NEW p \in flight PROVE SinceFirst' <= p.id * MaxGap + p.age
          OBVIOUS
        <4>2. p.id * MaxGap \in Nat /\ p.age \in Nat
          BY <1>2, <1>5, GapTimes
        <4>3. win["high"].n > 0 => SinceFirst <= p.id * MaxGap + p.age
          BY <3>1 DEF Spread
        <4> QED
          BY <1>2, <3>3, <3>8, <4>2, <4>3
      <3> QED
        BY <2>1, <3>1, <3>4, <3>6, <3>8, <3>9, <3>10 DEF Spread
    <2>5. CASE win' = win /\ spc' = "high" /\ TimeOut("low")
      <3>1. win["high"].n = 0
        BY <2>5 DEF TimeOut, TimeOutThen, TypeOK, ServerTypeOK, Unmeasured
      <3> QED
        BY <2>1, <2>5, <3>1 DEF Spread
    <2>6. CASE win' = win /\ spc' # "high"
      BY <2>1, <2>6 DEF Spread
    <2> QED
      BY <1>7, <2>2, <2>3, <2>4, <2>5, <2>6, ServerLoops DEF Trains
  <1>8. CASE SendHigh /\ UNCHANGED serverVars
    <2>1. /\ cpc = "high" /\ ctimer = 0 /\ now' = now /\ sockbuf' = sockbuf
          /\ spc' = spc /\ win' = win
          /\ cpc' = "high" => ci' = ci + 1 /\ ctimer' \in 0..MaxGap
      BY <1>8 DEF SendHigh, SendTrain, serverVars
    <2>2. PICK p : p.id = ci /\ p.age = 0 /\ flight' = flight \cup {p}
      BY <1>1, <1>8, LaunchAdds DEF SendHigh, Trains
    <2>3. cpc' = "high" => ctimer' \in Nat /\ ctimer' <= MaxGap /\ ci' > 0
      BY <1>2, <2>1
    <2>4. SUFFICES ASSUME spc = "high", win["high"].n > 0
                   PROVE  /\ cpc' = "high" =>
                               ci' > 0 /\ SinceFirst' + ctimer' <= ci' * MaxGap
                          /\ \A q \in flight' : SinceFirst' <= q.id * MaxGap + q.age
      BY <2>1, <2>3 DEF Spread, SinceFirst
    <2>5. ci > 0 /\ SinceFirst + ctimer <= ci * MaxGap /\ SinceFirst' = SinceFirst
          /\ SinceFirst \in Int
      BY <1>2, <1>3, <2>1, <2>4 DEF Spread, SinceFirst, Trains
    <2> DEFINE before == ci * MaxGap
               after == (ci + 1) * MaxGap
    <2>6. before \in Nat /\ after = before + MaxGap /\ SinceFirst <= before
      BY <1>2, <1>4, <2>1, <2>5
    <2>7. cpc' = "high" => ci' * MaxGap = after
      BY <2>1
    <2>8. p.id * MaxGap = before
      BY <2>2
    <2> HIDE DEF before, after
    <2>9. cpc' = "high" => SinceFirst' + ctimer' <= ci' * MaxGap
      BY <1>2, <2>3, <2>5, <2>6, <2>7
    <2>10. SinceFirst' <= p.id * MaxGap + p.age
      BY <2>2, <2>5, <2>6, <2>8
    <2>11. \A q \in flight : SinceFirst' <= q.id * MaxGap + q.age
      BY <2>4, <2>5 DEF Spread
    <2> QED
      BY <2>2, <2>3, <2>9, <2>10, <2>11
  <1>9. CASE (RunClient \/ (ClientNext /\ ~SendHigh) \/ (ClientAbort /\ UNCHANGED serverVars))
    <2>1. /\ now' = now /\ win' = win /\ spc' = spc /\ sockbuf' = sockbuf
          /\ flight' = flight \/ SendLow
          /\ cpc' = "high" => ci' = 0
      BY <1>9, <1>2 DEF RunClient, StartClient, ClientNext, serverVars, ClientStep,
         ClientAbort, Connect1, Connect2, Connect, SendConfig, CloseConfig,
         CloseAndSleep, SendLow, SendTrain, ReceiveVerdict, ClientExit, udpVars
    <2>2. SUFFICES ASSUME spc = "high", win["high"].n > 0
                   PROVE  /\ cpc' # "high" /\ flight' = flight
      BY <1>2, <2>1 DEF Spread, SinceFirst
    <2>3. cpc \notin {"idle", "connect1", "send", "close", "low"}
      BY <1>1, <2>2 DEF HighLoop
    <2> QED
      BY <1>9, <2>1, <2>3 DEF RunClient, StartClient, ClientNext, ClientStep,
         ClientAbort, Connect1, Connect2, Connect, SendConfig, CloseConfig,
         CloseAndSleep, SendLow, SendTrain, ReceiveVerdict, ClientExit
  <1>10. CASE Deliver \/ Duplicate
    <2>1. PICK p \in flight :
             /\ flight' \in {flight, flight \ {p}}
             /\ UNCHANGED <<timeVars, tcpVars, clientVars, serverVars>>
      BY <1>1, <1>10, PathMoves
    <2>2. SinceFirst' = SinceFirst
      BY <2>1 DEF SinceFirst, timeVars, serverVars
    <2>3. spc = "high" /\ win["high"].n > 0 => SinceFirst <= Jitter
      <3>1. SUFFICES ASSUME spc = "high", win["high"].n > 0 PROVE SinceFirst <= Jitter
        OBVIOUS
      <3>2. SinceFirst <= p.id * MaxGap + p.age
        BY <3>1 DEF Spread
      <3>5. p.id \in 0..TrainSize-1 /\ p.age \in 0..MaxDelay
        BY <1>5
      <3>6. p.id * MaxGap + p.age <= Jitter
        BY <3>5, Jitters
      <3>3. p.id * MaxGap + p.age <= Jitter /\ p.id * MaxGap \in Nat /\ p.age \in Nat
        BY <1>2, <3>5, <3>6, GapTimes
      <3>4. SinceFirst \in Int
        BY <1>2, <1>3 DEF SinceFirst, Trains
      <3> QED
        BY <1>6, <3>2, <3>3, <3>4
    <2> QED
      BY <2>1, <2>2, <2>3 DEF Spread, timeVars, clientVars, serverVars
  <1>11. CASE Tick
    <2>1. /\ now' = now + 1 /\ UNCHANGED <<sockbuf, spc, win, cpc, ci>>
          /\ spc = "high" => sockbuf = <<>>
          /\ cpc = "high" => ctimer > 0
          /\ ctimer' = IF ctimer > 0 THEN ctimer - 1 ELSE 0
      BY <1>1, <1>2, <1>11 DEF Tick, Countdown, ClientReady, ClientStopped, ServerReady,
         ServerStopped, clientVars, serverVars
    <2>2. SinceFirst' = SinceFirst + 1 /\ SinceFirst \in Int
      BY <1>2, <1>3, <2>1 DEF SinceFirst, Trains
    <2>3. \A t \in Trains : win[t].start <= win[t].end /\ win[t].end <= now + 1
      BY <1>2, <1>3 DEF Spread
    <2>4. cpc = "high" /\ ci > 0 => ctimer' <= MaxGap
      BY <1>2, <2>1 DEF Spread
    <2>5. SUFFICES ASSUME spc = "high", win["high"].n > 0
                   PROVE  /\ cpc = "high" => ci > 0 /\ SinceFirst' + ctimer' <= ci * MaxGap
                          /\ \A q \in flight' : SinceFirst' <= q.id * MaxGap + q.age
      BY <2>1, <2>3, <2>4 DEF Spread
    <2>6. cpc = "high" => ci > 0 /\ SinceFirst + ctimer <= ci * MaxGap
      BY <2>5 DEF Spread
    <2>7. ASSUME NEW q \in flight'
          PROVE  SinceFirst' <= q.id * MaxGap + q.age
      <3>1. PICK p \in flight : q.id = p.id /\ q.age = p.age + 1
        BY <1>11, TickAges
      <3>2. SinceFirst <= p.id * MaxGap + p.age
        BY <2>5 DEF Spread
      <3>3. p.id * MaxGap \in Nat /\ p.age \in Nat
        BY <1>2, <1>5, GapTimes
      <3>4. q.id * MaxGap = p.id * MaxGap
        BY <3>1
      <3> QED
        BY <2>2, <3>1, <3>2, <3>3, <3>4
    <2> QED
      BY <1>2, <1>4, <2>1, <2>2, <2>6, <2>7
  <1>12. CASE UNCHANGED vars
    BY <1>12 DEF Spread, SinceFirst, vars, timeVars, udpVars, clientVars, serverVars
  <1> QED
    BY <1>7, <1>8, <1>9, <1>10, <1>11, <1>12
    DEF Next, Abort, Finished, ClientNext, RunServer, ServerNext
\* Rounding down both instants does not make a difference exceed a whole
\* number of milliseconds it did not exceed.
LEMMA Floors ==
  ASSUME NEW a \in Nat, NEW b \in Nat, NEW m \in Nat \ {0}, NEW t \in Int,
         b <= a + t * m
  PROVE  (b \div m) - (a \div m) <= t
  <1> DEFINE qa == a \div m
             ra == a % m
             qb == b \div m
             rb == b % m
  <1>1. /\ qa \in Int /\ ra \in 0..m-1 /\ a = m * qa + ra
        /\ qb \in Int /\ rb \in 0..m-1 /\ b = m * qb + rb
    OBVIOUS
  <1> HIDE DEF qa, ra, qb, rb
  <1>2. SUFFICES ASSUME qb - qa >= t + 1 PROVE FALSE
    BY <1>1 DEF qa, qb
  <1>3. m * (qb - qa) >= m * (t + 1)
    <2> DEFINE d == qb - qa
    <2>1. d \in Int /\ d >= t + 1
      BY <1>1, <1>2
    <2> HIDE DEF d
    <2>2. \A x, y \in Int : x >= y => m * x >= m * y
      OBVIOUS
    <2> QED
      BY <2>1, <2>2 DEF d
  <1>4. m * (qb - qa) = m * qb - m * qa /\ m * (t + 1) = t * m + m
    BY <1>1
  <1> QED
    BY <1>1, <1>3, <1>4

\* Before the first datagram every window is empty.
LEMMA SpreadInit == Init => Spread
  <1> SUFFICES ASSUME Init PROVE Spread
    OBVIOUS
  <1>1. /\ cpc = "idle" /\ spc = "off" /\ now = 0
        /\ \A t \in Trains : win[t].start = 0 /\ win[t].end = 0
    BY DEF Init, NetworkInit, ClientInit, ServerInit, Unmeasured
  <1> QED
    BY <1>1, Jitters DEF Spread, Trains

\* Two windows no longer than the path's jitter are not told apart.
LEMMA JitterIsNoCompression ==
  ASSUME TypeOK, Spread, Measured, Jitter <= Threshold * Milli
  PROVE  Outcomes = {Undetected}
  <1> DEFINE a == win["high"].start
             b == win["high"].end
             c == win["low"].start
             d == win["low"].end
  <1>1. a \in Nat /\ b \in Nat /\ c \in Nat /\ d \in Nat
        /\ Milli \in Nat \ {0} /\ Threshold \in Int /\ Jitter \in Nat
    BY NetworkAssumption, Jitters DEF TypeOK, ServerTypeOK, Windows, Trains
  <1>2. b - a <= Jitter /\ c <= d
    BY DEF Spread, Trains
  <1>3. Delta(win["high"]) = (b \div Milli) - (a \div Milli)
        /\ Delta(win["low"]) = (d \div Milli) - (c \div Milli)
    BY DEF Delta
  <1> HIDE DEF a, b, c, d
  <1>4. (b \div Milli) - (a \div Milli) <= Threshold
    <2>1. b <= a + Threshold * Milli
      <3> DEFINE most == Threshold * Milli
      <3>1. most \in Int /\ Jitter <= most
        BY <1>1
      <3> HIDE DEF most
      <3>2. b <= a + most
        BY <1>1, <1>2, <3>1
      <3> QED
        BY <3>2 DEF most
    <2> QED
      BY <1>1, <2>1, Floors
  <1>5. (c \div Milli) - (d \div Milli) <= 0
    <2>1. c <= d + 0 * Milli
      BY <1>1, <1>2
    <2> QED
      BY <1>1, <2>1, Floors
  <1>6. /\ b \div Milli \in Int /\ a \div Milli \in Int
        /\ d \div Milli \in Int /\ c \div Milli \in Int
    BY <1>1
  <1>7. ~(Delta(win["high"]) - Delta(win["low"]) > Threshold)
    BY <1>1, <1>3, <1>4, <1>5, <1>6
  <1> QED
    BY <1>7 DEF Outcomes

\* The calculation of probing reports no jitter.
LEMMA NoFalseDetectionStep ==
  TypeOK /\ Spread /\ NoFalseDetection /\ [Next]_vars => NoFalseDetection'
  <1> SUFFICES ASSUME TypeOK, Spread, NoFalseDetection, [Next]_vars, Judged', Measured',
                      Jitter <= Threshold * Milli
               PROVE  verdict' = Undetected
    BY DEF NoFalseDetection
  <1>1. Measured /\ (Judge \/ (Judged /\ verdict' = verdict))
    BY DecisionStands DEF Measured
  <1>2. CASE Judge
    <2>1. verdict' \in Outcomes
      BY <1>2 DEF Judge
    <2> QED
      BY <1>1, <2>1, JitterIsNoCompression
  <1> QED
    BY <1>1, <1>2 DEF NoFalseDetection

\* A path that only jitters is not reported as compressing, whatever it loses:
\* if the sending gaps and the delay stay below the threshold, every verdict on
\* two measured trains is that there is no compression.
THEOREM JitterIsNotReported == Distinct /\ Spec => []NoFalseDetection
  <1> SUFFICES ASSUME Distinct PROVE Spec => []NoFalseDetection
    OBVIOUS
  <1> DEFINE Inv == TypeOK /\ Separated /\ Told /\ Spread /\ NoFalseDetection
  <1>1. Init => NoFalseDetection
    BY DEF Init, ServerInit, NoFalseDetection, Judged
  <1>2. Init => Inv
    BY <1>1, TypeInit, SeparatedInit, ToldInit, SpreadInit DEF Distinct
  <1>3. Inv /\ [Next]_vars => Inv'
    BY TypeStep, SeparatedStep, ToldStep, SpreadStep, NoFalseDetectionStep DEF Distinct
  <1> QED
    BY <1>2, <1>3, PTL DEF Spec

-----------------------------------------------------------------------------
(***************************************************************************)
(* Handed and InTime are inductive: the verdict is ready.                  *)
(***************************************************************************)

\* While the client has not dialled again, accept() returns its first connection.
LEMMA AcceptsFirst ==
  ASSUME Single, TypeOK, Handshake, Handed, NEW c \in ConnIds, Accept(c),
         cpc \notin {"recv", "done", "failed"}
  PROVE  c = First /\ spc = "accept1" /\ AtFirst({"queued"})
  <1>1. backlog \in Seq(ConnIds) /\ backlog # <<>> /\ c = Head(backlog)
    BY DEF Accept, TypeOK, NetworkTypeOK
  <1>2. 1 \in 1..Len(backlog) /\ c = backlog[1]
    BY <1>1
  <1>3. c = First
    BY <1>2 DEF Handed, Alone
  <1> QED
    BY <1>2, <1>3 DEF Handshake, FirstConnection, AtFirst

\* The server's steps hand the configuration over.
LEMMA ServerTakesOver ==
  ASSUME Single, ~Faults, TypeOK, Handshake, Handed, UNCHANGED clientVars,
         ServerStep \/ StartServer \/ ServerAbort
  PROVE  Handed'
  <1> USE DEF clientVars
  <1>1. /\ First \in ConnIds /\ conns \in [ConnIds -> Connections]
        /\ backlog \in Seq(ConnIds)
    BY OneRunNames DEF TypeOK, NetworkTypeOK
  <1>12. cpc' = "failed" => ~Due'
    BY ServerDue DEF Handed
  <1>2. CASE Listen1 \/ Listen2
    BY <1>2, <1>12 DEF Listen1, Listen2, Listen, OpenListener, Handed, AtFirst, Alone,
                Offered, Served, Toward
  <1>3. CASE Accept1 \/ Accept2
    <2>1. PICK c \in ConnIds : Accept(c)
      BY <1>3 DEF Accept1, Accept2, AcceptNext
    <2>2. /\ \A d \in ConnIds : conns'[d].toServer = conns[d].toServer
          /\ \A d \in ConnIds \ {c} : conns'[d].server = conns[d].server
          /\ conns'[c].server = "accepted" /\ sess' = sess
          /\ backlog' = Tail(backlog) /\ backlog # <<>>
          /\ spc' = "recv" \/ (spc = "accept2" /\ spc' = "send")
      BY <1>1, <1>3, <2>1 DEF Accept, Accept1, Accept2, AcceptNext, Connections
    <2>3. AtFirst({"none"})' => AtFirst({"none"})
      BY <1>1, <2>2 DEF AtFirst
    <2>4. CASE cpc \in {"recv", "done", "failed"}
      BY <1>1, <1>12, <2>2, <2>3, <2>4 DEF Handed, Toward
    <2>5. CASE cpc \notin {"recv", "done", "failed"}
      <3>1. c = First /\ spc = "accept1" /\ spc' = "recv" /\ AtFirst({"queued"})
        BY <2>1, <2>2, <2>5, AcceptsFirst
      <3>2. \A i \in 1..Len(backlog') : backlog'[i] = First
        BY <1>1, <2>2, <2>5 DEF Handed, Alone
      <3>3. Alone'
        BY <1>1, <2>2, <2>5, <3>1, <3>2 DEF Handed, Alone
      <3>4. Offered' /\ Offered /\ ~Served /\ Toward' = Toward
        BY <1>1, <2>2, <3>1 DEF Offered, Served, AtFirst, Toward
      <3> QED
        BY <1>12, <2>2, <2>3, <3>1, <3>3, <3>4 DEF Handed
    <2> QED
      BY <2>4, <2>5
  <1>4. CASE ReceiveConfig
    <2>1. PICK c \in ConnIds :
            /\ Accepted(c)
            /\ \/ conns[c].toServer # <<>> /\ sess' = Head(conns[c].toServer)
               \/ conns[c].toServer = <<>> /\ conns[c].client = "closed"
            /\ conns' = [conns EXCEPT ![c].toServer = <<>>]
      BY <1>4 DEF ReceiveConfig
    <2>2. /\ spc = "recv" /\ spc' = "parse" /\ UNCHANGED <<listening, backlog>>
          /\ \A d \in ConnIds : conns'[d].server = conns[d].server
          /\ Toward' \in {Toward, <<>>}
      BY <1>1, <1>4, <2>1 DEF ReceiveConfig, Connections, Toward
    <2>3. Alone => Alone'
      BY <2>2 DEF Alone
    <2>4. cpc \notin {"idle", "connect1"}
      BY <2>2 DEF Handshake, Untouched
    <2>5. cpc \in {"send", "close", "low", "high", "connect2"} =>
            cpc # "send" /\ Served'
      <3>1. SUFFICES ASSUME cpc \in {"send", "close", "low", "high", "connect2"}
                     PROVE  cpc # "send" /\ Served'
        OBVIOUS
      <3>2. c = First
        BY <2>1, <3>1 DEF Handed, Alone, Accepted
      <3>3. cpc = "send" => Toward = <<>> /\ conns[First].client = "open"
        BY <2>1, <3>2 DEF Handed, Accepted, Handshake, FirstClient, AtFirst
      <3>4. cpc # "send"
        BY <2>1, <3>2, <3>3 DEF Toward
      <3>5. Toward = <<1>>
        BY <2>2, <3>1, <3>4 DEF Handed, Served
      <3>6. sess' = 1
        BY <2>1, <3>2, <3>5 DEF Toward
      <3> QED
        BY <2>2, <3>4, <3>6 DEF Served
    <2>6. AtFirst({"none"})' => AtFirst({"none"})
      BY <1>1, <2>2 DEF AtFirst
    <2> QED
      BY <1>4, <1>12, <2>2, <2>3, <2>4, <2>5, <2>6 DEF Handed, ReceiveConfig
  <1>5. ASSUME ServerHangUp, sess' = sess, spc' # "accept2",
               cpc \in {"send", "close", "low", "high", "connect2"} =>
                 ~Offered /\ (Served => Served')
        PROVE  Handed'
    <2>1. AtFirst({"none"})' => AtFirst({"none"}) /\ Toward' = Toward
      BY <1>1, <1>5, HangUpFirst DEF AtFirst, Toward
    <2>2. Alone => Alone'
      <3>1. SUFFICES ASSUME Alone PROVE Alone'
        OBVIOUS
      <3>2. backlog' = <<>>
        BY <1>5 DEF ServerHangUp
      <3>3. \A c \in ConnIds : conns[c].server = "none" => conns'[c].server = "none"
        BY <1>5, HangUpFirst
      <3> QED
        BY <3>1, <3>2, <3>3 DEF Alone
    <2> QED
      BY <1>5, <1>12, <2>1, <2>2 DEF Handed
  <1>6. CASE CloseAndParse
    BY <1>5, <1>6 DEF CloseAndParse, CloseThen, Offered, Served
  <1>7. CASE CloseServer
    BY <1>5, <1>7 DEF CloseServer, ServerExit, Offered, Served
  <1>8. CASE Bind \/ Judge \/ \E loop \in Trains : ReceiveDatagram(loop) \/ TimeOut(loop)
    <2>1. spc \in {"bind", "low", "high", "judge"} /\ UNCHANGED <<tcpVars, sess>>
          /\ spc' \in {"low", "high", "judge", "listen2"}
      BY <1>8 DEF Bind, Judge, ReceiveDatagram, ReceiveUpTo, TimeOut, TimeOutThen,
                  LeaveLoop, Trains, timeVars
    <2> QED
      BY <1>12, <2>1 DEF Handed, AtFirst, Alone, Offered, Served, Toward, tcpVars
  <1>9. CASE SendVerdict
    <2>1. /\ \A d \in ConnIds : /\ conns'[d].server = conns[d].server
                                /\ conns'[d].toServer = conns[d].toServer
          /\ spc = "send" /\ spc' = "close" /\ UNCHANGED <<listening, backlog>>
      BY <1>1, <1>9 DEF SendVerdict, Connections
    <2> QED
      BY <1>1, <1>12, <2>1 DEF Handed, AtFirst, Alone, Offered, Served, Toward
  <1>10. CASE StartServer
    <2>1. ServerStopped /\ spc' = "listen1" /\ UNCHANGED tcpVars
      BY <1>10 DEF StartServer
    <2> QED
      BY <1>12, <2>1 DEF Handed, AtFirst, Alone, Offered, Served, Toward, tcpVars, ServerStopped
  <1>11. ~ServerAbort
    BY DEF ServerAbort
  <1> QED
    BY <1>2, <1>3, <1>4, <1>6, <1>7, <1>8, <1>9, <1>10, <1>11 DEF ServerStep

\* The client's steps.
LEMMA ClientHandsOver ==
  ASSUME Single, ~Faults, TypeOK, Handshake, Handed,
         RunClient \/ ClientNext \/ (ClientAbort /\ UNCHANGED serverVars)
  PROVE  Handed'
  <1>1. /\ First \in ConnIds /\ conns \in [ConnIds -> Connections]
        /\ backlog \in Seq(ConnIds) /\ UNCHANGED <<spc, sess>>
        /\ cpc # "idle" => crun = 1 /\ Pre = First /\ Post # First /\ Post \in ConnIds
    BY OneRunNames DEF TypeOK, NetworkTypeOK, RunClient, ClientNext, serverVars
  <1>2. CASE RunClient
    BY <1>1, <1>2, StartClientShakes
    DEF RunClient, StartClient, tcpVars, Handed, AtFirst, Alone, Toward
  <1>3. ASSUME NEW how \in {"done", "failed"}, ClientExit(how), ~Due
        PROVE  Handed'
    <2>1. /\ cpc' = how /\ UNCHANGED <<listening, backlog>>
          /\ Toward' = Toward /\ \A states : AtFirst(states)' <=> AtFirst(states)
      BY <1>1, <1>3, ClientHangUpFirst DEF ClientExit, Toward
    <2>2. ~Due'
      BY <1>1, <1>3, <2>1 DEF Due, Preparing
    <2> QED
      BY <1>1, <2>1, <2>2 DEF Handed
  <1>11. ~Early => ~Due
    BY DEF Handshake, FirstConnection, AtFirst, Due
  <1>4. CASE Connect1
    <2>1. cpc = "connect1" /\ (ClientExit("failed") \/ (listening /\ Dial(Pre) /\ cpc' = "send"))
      BY <1>4 DEF Connect1, Connect
    <2>2. CASE listening /\ Dial(Pre) /\ cpc' = "send"
      <3>1. spc = "accept1" /\ AtFirst({"none"}) /\ backlog = <<>> /\ Toward = <<>>
        BY <1>1, <2>1, <2>2 DEF Handshake, Listening, Untouched, AtFirst, Handed
      <3>2. /\ \A d \in ConnIds \ {First} : conns'[d] = conns[d]
            /\ conns'[First].server = "queued"
            /\ conns'[First].toServer = conns[First].toServer
            /\ backlog' = Append(backlog, First) /\ UNCHANGED listening
        BY <1>1, <2>1, <2>2, DialChanges
      <3>3. Alone
        BY <2>1 DEF Handed
      <3>4. \A i \in 1..Len(backlog') : backlog'[i] = First
        BY <3>1, <3>2
      <3>5. Alone' /\ Offered' /\ Toward' = <<>> /\ ~AtFirst({"none"})'
        BY <1>1, <3>1, <3>2, <3>3, <3>4 DEF Alone, Offered, AtFirst, Toward
      <3> QED
        BY <1>1, <2>2, <3>1, <3>5 DEF Handed
    <2>3. ~Due
      BY <1>1, <2>1 DEF Handshake, Untouched, AtFirst, Due, Preparing
    <2> QED
      BY <1>3, <2>1, <2>2, <2>3
  <1>5. CASE SendConfig
    <2>1. ~(conns[Pre].server = "reset" /\ ClientExit("failed"))
      BY <1>1, <1>5 DEF SendConfig, Handed, Offered, AtFirst
    <2>2. cpc = "send" /\ cpc' = "close" /\ UNCHANGED <<listening, backlog>> /\ Offered
      BY <1>5, <2>1 DEF SendConfig, Handed
    <2>3. conns' = [conns EXCEPT ![First].toServer = <<1>>]
      BY <1>1, <1>5, <2>1, <2>2 DEF SendConfig, Offered, AtFirst
    <2>4. (\A d \in ConnIds : conns'[d].server = conns[d].server) /\ Toward' = <<1>>
      BY <1>1, <2>3 DEF Connections, Toward
    <2>5. Alone' /\ Offered' /\ ~AtFirst({"none"})'
      BY <1>1, <2>2, <2>4 DEF Handed, Alone, Offered, AtFirst
    <2> QED
      BY <1>1, <2>2, <2>4, <2>5 DEF Handed
  <1>6. CASE CloseConfig
    <2>1. /\ cpc = "close" /\ cpc' = "low" /\ UNCHANGED <<listening, backlog>>
          /\ \A d \in ConnIds : conns'[d].server = conns[d].server
          /\ Toward' = Toward
      BY <1>1, <1>6, ClientHangUpFirst DEF CloseConfig, CloseAndSleep, Toward
    <2> QED
      BY <1>1, <2>1 DEF Handed, Alone, Offered, Served, AtFirst, Toward
  <1>7. CASE SendLow \/ SendHigh
    <2>1. cpc \in {"low", "high"} /\ cpc' \in {"low", "high", "connect2"} /\ UNCHANGED tcpVars
      BY <1>7 DEF SendLow, SendHigh, SendTrain
    <2> QED
      BY <1>1, <2>1 DEF Handed, Alone, Offered, Served, AtFirst, Toward, tcpVars
  <1>8. CASE Connect2
    <2>1. cpc = "connect2" /\ (ClientExit("failed") \/ (Dial(Post) /\ cpc' = "recv"))
      BY <1>8 DEF Connect2, Connect
    <2>2. CASE Dial(Post) /\ cpc' = "recv"
      <3>1. conns'[First] = conns[First] /\ UNCHANGED listening
        BY <1>1, <2>1, <2>2, DialChanges
      <3> QED
        BY <1>1, <2>2, <3>1 DEF Handed, AtFirst, Toward
    <2>3. ~Due
      BY <1>11, <2>1 DEF Early
    <2> QED
      BY <1>3, <2>1, <2>2, <2>3
  <1>9. CASE ReceiveVerdict
    BY <1>3, <1>9, <1>11 DEF ReceiveVerdict, Early
  <1>10. ~ClientAbort
    BY DEF ClientAbort
  <1> QED
    BY <1>2, <1>4, <1>5, <1>6, <1>7, <1>8, <1>9, <1>10 DEF ClientNext, ClientStep

\* At first nobody has connected.
LEMMA HandedInit == Single /\ Init => Handed
  <1> SUFFICES ASSUME Single, Init PROVE Handed
    OBVIOUS
  <1> QED
    BY OneRunNames DEF Init, NetworkInit, ClientInit, ServerInit, Handed, Alone, Toward

\* Handed is inductive, whatever the times, if no call fails.
LEMMA HandedStep == Single /\ ~Faults /\ TypeOK /\ Handshake /\ Handed /\ [Next]_vars => Handed'
  <1> SUFFICES ASSUME Single, ~Faults, TypeOK, Handshake, Handed, [Next]_vars PROVE Handed'
    OBVIOUS
  <1>1. CASE Deliver \/ Duplicate \/ Tick \/ UNCHANGED vars
    <2>1. UNCHANGED <<tcpVars, clientVars, serverVars>>
      BY <1>1 DEF Deliver, Duplicate, Tick, vars
    <2> QED
      BY <2>1 DEF Handed, Alone, Offered, Served, AtFirst, Due, Preparing, Toward, tcpVars, clientVars,
                  serverVars
  <1> QED
    BY <1>1, ServerTakesOver, ClientHandsOver
    DEF Next, Abort, Finished, RunServer, ServerNext

\* While the client waits to dial again the server has the configuration.
LEMMA ServedByNow ==
  ASSUME Single, TypeOK, Handshake, Handed, cpc = "connect2"
  PROVE  Served
  BY DEF Handed, Offered, Handshake, FirstConnection, AtFirst, Early

\* Initially nobody sleeps.
LEMMA InTimeInit == Init => InTime
  BY DEF Init, NetworkInit, ClientInit, ServerInit, InTime

\* A verdict is computed and the server listens again before the client dials.
LEMMA TickOpens ==
  ASSUME OneRun, Calm, TypeOK, Separated, Handed, InTime, Tick, cpc = "connect2", ctimer' = 0
  PROVE  spc' = "accept2"
  <1>1. /\ Prompt /\ Single /\ Handshake /\ MaxDelay < Second /\ UdpTimeout > 0
        /\ UNCHANGED <<cpc, spc>>
    BY DEF OneRun, Single, Separated, Calm, TimeoutRule, Tick, clientVars, serverVars
  <1>2. /\ UdpTimeout \in Nat /\ Second \in Nat /\ MaxDelay \in Nat
        /\ ctimer \in Nat /\ stimer \in Nat
    BY Sizes DEF Trains
  <1>3. ctimer = 1
    BY <1>1, <1>2 DEF Tick, Countdown, ClientReady, ClientStopped
  <1>4. Served
    BY <1>1, ServedByNow
  <1>5. spc # "low"
    BY DEF InTime
  <1>6. spc \notin {"parse", "bind", "judge", "listen2"}
    BY <1>1 DEF Tick, ServerReady, ServerStopped
  <1>7. spc # "high"
    <2>1. SUFFICES ASSUME spc = "high" PROVE FALSE
      OBVIOUS
    <2>2. stimer # 0
      BY <1>1, <2>1 DEF Tick, ServerReady, ServerStopped, TimedOut
    <2>3. stimer + (UdpTimeout + Second - ctimer) <= UdpTimeout + MaxDelay
      BY <2>1 DEF InTime, SinceLast
    <2> QED
      BY <1>1, <1>2, <1>3, <2>2, <2>3
  <1> QED
    BY <1>1, <1>4, <1>5, <1>6, <1>7 DEF Served

\* InTime is inductive.
LEMMA InTimeStep ==
  OneRun /\ Calm /\ TypeOK /\ Separated /\ Unsent /\ Handed /\ InTime /\ [Next]_vars => InTime'
  <1> SUFFICES ASSUME OneRun, Calm, TypeOK, Separated, Unsent, Handed, InTime, [Next]_vars
               PROVE  InTime'
    OBVIOUS
  <1>1. /\ Single /\ Prompt /\ Handshake /\ IsFiniteSet(flight)
        /\ MaxDelay < Second /\ ~Faults /\ UdpTimeout > 0
    BY DEF OneRun, Single, Separated, Unsent, Calm, TimeoutRule
  <1>2. /\ UdpTimeout \in Nat /\ Second \in Nat /\ MaxDelay \in Nat
        /\ ctimer \in Nat /\ stimer \in Nat
    BY Sizes DEF Trains
  <1>3. \A p \in flight : p.age \in 0..MaxDelay
    BY DEF TypeOK, NetworkTypeOK, Packets
  <1>4. ASSUME UNCHANGED clientVars, ServerStep \/ StartServer \/ ServerAbort
        PROVE  InTime'
    <2>1. /\ flight' = flight /\ ctimer' = ctimer /\ cpc' = cpc /\ SinceLast' = SinceLast
          /\ sockbuf' # <<>> => sockbuf # <<>>
      BY <1>4, ServerTakes DEF clientVars, SinceLast
    <2>2. cpc \in {"connect2", "recv", "done"} => spc' # "low"
      <3>1. Bind => cpc \notin {"connect2", "recv", "done"}
        BY <1>1, <1>4, BindShakes DEF Early
      <3>2. ReceiveDatagram("low") => spc = "low"
        BY DEF ReceiveDatagram, ReceiveUpTo
      <3> QED
        BY <1>4, <3>1, <3>2, ServerLoops DEF InTime
    <2>3. spc' = "high" => stimer' = UdpTimeout
      BY <1>4, ServerLoops, ReceiveCounts
      DEF TimeOut, TimeOutThen, LeaveLoop, Trains
    <2>4. cpc = "connect2" /\ ctimer = 0 => spc' = "accept2"
      <3>1. SUFFICES ASSUME cpc = "connect2", ctimer = 0 PROVE spc' = "accept2"
        OBVIOUS
      <3>2. spc = "accept2"
        BY <3>1 DEF InTime
      <3>3. Accept2
        BY <1>1, <1>4, <3>2
        DEF ServerStep, StartServer, ServerAbort, Listen1, Listen2, Listen, Accept1,
            Accept2, AcceptNext, ReceiveConfig, CloseAndParse, CloseThen, Bind,
            ReceiveDatagram, ReceiveUpTo, TimeOut, TimeOutThen, Judge, SendVerdict,
            CloseServer, ServerStopped, Trains
      <3> QED
        BY <1>1, <3>1, <3>2, <3>3, AcceptsFirst DEF Accept2, AcceptNext
    <2>5. cpc = "connect2" /\ spc' = "high" =>
            /\ sockbuf' # <<>> => SinceLast <= MaxDelay
            /\ stimer' + SinceLast <= UdpTimeout + MaxDelay
      <3>1. SUFFICES ASSUME cpc = "connect2", spc' = "high"
                     PROVE  sockbuf # <<>> /\ SinceLast <= MaxDelay
        BY <1>2, <2>1, <2>3 DEF SinceLast
      <3>2. spc # "low"
        BY <3>1 DEF InTime
      <3>3. ReceiveDatagram("high")
        BY <1>4, <3>1, <3>2, ServerLoops
        DEF TimeOut, TimeOutThen, ReceiveDatagram, ReceiveUpTo
      <3>4. spc = "high" /\ sockbuf # <<>>
        BY <3>3 DEF ReceiveDatagram, ReceiveUpTo
      <3> QED
        BY <3>1, <3>4 DEF InTime
    <2> QED
      BY <1>2, <2>1, <2>2, <2>3, <2>4, <2>5 DEF InTime
  <1>5. CASE RunClient \/ (ClientNext /\ ~SendHigh) \/ (ClientAbort /\ UNCHANGED serverVars)
    <2>1. /\ UNCHANGED <<spc, stimer, sockbuf>>
          /\ cpc' # "connect2"
          /\ cpc' \in {"recv", "done"} => cpc \in {"connect2", "recv"}
      BY <1>5, <1>1
      DEF RunClient, StartClient, ClientNext, serverVars, ClientStep, ClientAbort,
          Connect1, Connect2, Connect, SendConfig, CloseConfig, CloseAndSleep, SendLow,
          SendTrain, ReceiveVerdict, ClientExit, udpVars
    <2> QED
      BY <2>1 DEF InTime
  <1>6. CASE SendHigh /\ UNCHANGED serverVars
    <2>1. /\ UNCHANGED <<spc, stimer, sockbuf>> /\ cpc = "high"
          /\ cpc' = "high" \/ (cpc' = "connect2" /\ ctimer' = UdpTimeout + Second)
      BY <1>6 DEF SendHigh, SendTrain, serverVars
    <2>2. spc # "low"
      BY <1>6, SendHighIsLate DEF Past
    <2>3. cpc' = "connect2" => SinceLast' = 0
      BY <1>2, <2>1 DEF SinceLast
    <2>4. PICK p : p.age = 0 /\ flight' = flight \cup {p}
      BY <1>1, <1>6, LaunchAdds DEF SendHigh, Trains
    <2>5. \A q \in flight' : q.age >= 0
      BY <1>2, <1>3, <2>4
    <2>6. Second > 0
      BY <1>1, <1>2
    <2> QED
      BY <1>1, <1>2, <2>1, <2>2, <2>3, <2>5, <2>6 DEF InTime
  <1>7. CASE Deliver \/ Duplicate
    <2>1. PICK p \in flight :
             /\ flight' \in {flight, flight \ {p}}
             /\ UNCHANGED <<timeVars, clientVars, serverVars>>
      BY <1>1, <1>7, PathMoves
    <2>2. SinceLast' = SinceLast
      BY <2>1 DEF SinceLast, timeVars
    <2>3. cpc = "connect2" => SinceLast <= MaxDelay
      <3>1. SUFFICES ASSUME cpc = "connect2" PROVE SinceLast <= MaxDelay
        OBVIOUS
      <3>2. SinceLast <= p.age /\ p.age \in 0..MaxDelay
        BY <1>3, <3>1 DEF InTime
      <3> QED
        BY <1>2, <3>2 DEF SinceLast
    <2> QED
      BY <2>1, <2>2, <2>3 DEF InTime, timeVars, clientVars, serverVars
  <1>8. CASE Tick
    <2>1. /\ UNCHANGED <<cpc, spc, sockbuf>>
          /\ ctimer' = IF ctimer > 0 THEN ctimer - 1 ELSE 0
          /\ stimer' = IF stimer > 0 THEN stimer - 1 ELSE 0
          /\ spc = "high" => sockbuf = <<>> /\ stimer > 0
          /\ cpc = "connect2" => ctimer > 0
      BY <1>1, <1>2, <1>8 DEF Tick, Countdown, ClientReady, ClientStopped, ServerReady,
         ServerStopped, TimedOut, clientVars, serverVars
    <2>2. cpc = "connect2" => SinceLast' = SinceLast + 1 /\ SinceLast \in Int
      BY <1>2, <2>1 DEF SinceLast
    <2>3. cpc = "connect2" => \A q \in flight' : SinceLast' <= q.age
      <3>1. SUFFICES ASSUME cpc = "connect2", NEW q \in flight' PROVE SinceLast' <= q.age
        OBVIOUS
      <3>2. PICK p \in flight : q.age = p.age + 1
        BY <1>8, TickAges
      <3>3. SinceLast <= p.age /\ p.age \in 0..MaxDelay
        BY <1>3, <3>1 DEF InTime
      <3> QED
        BY <1>2, <2>2, <3>1, <3>2, <3>3
    <2>4. cpc = "connect2" /\ ctimer' = 0 => spc = "accept2"
      BY <1>8, <2>1, TickOpens
    <2>5. cpc = "connect2" => ctimer' <= UdpTimeout + Second
      BY <1>2, <2>1 DEF InTime
    <2>6. spc = "high" => stimer' = stimer - 1 /\ stimer' <= UdpTimeout
      BY <1>2, <2>1 DEF InTime
    <2>7. cpc = "connect2" /\ spc = "high" => stimer' + SinceLast' <= UdpTimeout + MaxDelay
      BY <1>2, <2>1, <2>2, <2>6 DEF InTime
    <2> QED
      BY <2>1, <2>3, <2>4, <2>5, <2>6, <2>7 DEF InTime
  <1>9. CASE UNCHANGED vars
    BY <1>9 DEF InTime, SinceLast, vars, timeVars, udpVars, clientVars, serverVars
  <1> QED
    BY <1>4, <1>5, <1>6, <1>7, <1>8, <1>9
    DEF Next, Abort, Finished, ClientNext, RunServer, ServerNext

\* The sleep before post_probing ("ensure server opens TCP") is long enough: if
\* no call fails, udp_timeout obeys the README's rule and a datagram is no later
\* than the second main adds, the server has its verdict and is back in listen()
\* whenever the client dials for it.
THEOREM VerdictIsReady == OneRun /\ Calm /\ Spec => []ServerOpenInTime
  <1> SUFFICES ASSUME OneRun, Calm PROVE Spec => []ServerOpenInTime
    OBVIOUS
  <1> DEFINE Inv == TypeOK /\ Separated /\ Unsent /\ Handed /\ InTime
  <1>1. Init => Inv
    BY TypeInit, SeparatedInit, ToldInit, HandedInit, InTimeInit DEF OneRun, Told
  <1>2. Inv /\ [Next]_vars => Inv'
    BY TypeStep, SeparatedStep, UnsentStep, HandedStep, InTimeStep
    DEF OneRun, Separated, Calm
  <1>3. Inv => ServerOpenInTime
    BY DEF InTime, Handed, ServerOpenInTime, Judged
  <1> QED
    BY <1>1, <1>2, <1>3, PTL DEF Spec

-----------------------------------------------------------------------------
(***************************************************************************)
(* Whole is inductive: what a patient server measures.                     *)
(***************************************************************************)

\* Pauses is inductive: no pause of the client outlasts the server's timeout.
LEMMA PausesStep ==
  Single /\ Reliable /\ Patient /\ TypeOK /\ Handshake /\ Unsent /\ Pauses /\ [Next]_vars
    => Pauses'
  <1> SUFFICES ASSUME Single, Reliable, Patient, TypeOK, Handshake, Unsent, Pauses, [Next]_vars
               PROVE  Pauses'
    OBVIOUS
  <1>1. /\ Prompt /\ IsFiniteSet(flight) /\ 0 + MaxDelay < UdpTimeout
        /\ \A pause \in {Second, MaxGap, InterTime} : pause + MaxDelay < UdpTimeout
    BY Sizes DEF Single, Unsent, Patient, Trains
  <1>2. /\ UdpTimeout \in Nat /\ Second \in Nat /\ MaxDelay \in Nat /\ MaxGap \in Nat
        /\ InterTime \in Nat /\ ctimer \in Nat /\ ci \in 0..TrainSize-1
    BY Sizes DEF Trains
  <1>3. \A p \in flight : p.age \in 0..MaxDelay /\ p.id \in 0..TrainSize-1
    BY DEF TypeOK, NetworkTypeOK, Packets
  <1>4. ASSUME UNCHANGED clientVars, ServerStep \/ StartServer \/ ServerAbort
        PROVE  Pauses'
    <2>1. /\ flight' = flight /\ ctimer' = ctimer /\ UNCHANGED <<cpc, ci>>
          /\ SinceLast' = SinceLast
      BY <1>4, ServerTakes DEF clientVars, SinceLast
    <2>2. spc' \in {"low", "high"} => udpBound'
      <3>1. Bind => udpBound'
        BY DEF Bind
      <3>2. ASSUME NEW loop \in Trains, ReceiveDatagram(loop) \/ TimeOut(loop)
            PROVE  udpBound'
        BY <3>2 DEF ReceiveDatagram, ReceiveUpTo, TimeOut, TimeOutThen, udpVars, Trains, Pauses
      <3> QED
        BY <1>4, <3>1, <3>2, ServerLoops DEF Trains
    <2> QED
      BY <2>1, <2>2 DEF Pauses, Asleep
  <1>5. ASSUME NEW train \in Trains, NEW next, NEW rest \in Nat,
               SendTrain(train, next, rest), UNCHANGED serverVars,
               train = "low" => next = "high" /\ rest = InterTime,
               train = "high" => next = "connect2" /\ rest = UdpTimeout + Second
        PROVE  Pauses'
    <2>1. PICK p : p.train = train /\ p.id = ci /\ p.age = 0 /\ flight' = flight \cup {p}
      BY <1>1, <1>5, LaunchAdds
    <2>2. /\ cpc = train /\ ctimer = 0 /\ UNCHANGED <<spc, udpBound>>
          /\ \/ cpc' = train /\ ci' = ci + 1 /\ ctimer' \in 0..MaxGap
             \/ cpc' = next /\ ci' = 0 /\ ctimer' = rest
      BY <1>5 DEF SendTrain, serverVars
    <2>3. \A q \in flight' : q.age >= 0 /\ q.age \in Int
      BY <1>2, <1>3, <2>1
    <2>4. CASE cpc' = train /\ ci' = ci + 1 /\ ctimer' \in 0..MaxGap
      <3>1. ctimer' + MaxDelay < UdpTimeout
        <4>1. MaxGap + MaxDelay < UdpTimeout /\ ctimer' \in Nat /\ ctimer' <= MaxGap
          BY <1>1, <1>2, <2>4
        <4>2. \A c, g, d, u \in Nat : g + d < u /\ c <= g => c + d < u
          OBVIOUS
        <4> QED
          BY <1>2, <4>1, <4>2
      <3>2. \A q \in flight' : q.train = train => q.id < ci'
        <4>1. \A q \in flight : q.train = train => q.id < ci
          BY <1>5, <2>2 DEF Pauses
        <4> QED
          BY <1>2, <1>3, <2>1, <2>4, <4>1
      <3>3. ~Asleep' /\ cpc' # "connect2"
        BY <1>2, <1>5, <2>4 DEF Asleep, Trains
      <3> QED
        BY <2>2, <2>4, <3>1, <3>2, <3>3 DEF Pauses
    <2>5. CASE cpc' = next /\ ci' = 0 /\ ctimer' = rest /\ train = "low"
      <3>1. cpc' = "high" /\ ctimer' = InterTime /\ InterTime - ctimer' = 0
        BY <1>2, <1>5, <2>5
      <3>2. \A q \in flight' : q.train # "high"
        BY <2>1, <2>2, <2>5 DEF Unsent, NoneAbroad
      <3> QED
        BY <1>1, <1>2, <2>2, <2>3, <3>1, <3>2 DEF Pauses
    <2>6. CASE cpc' = next /\ ci' = 0 /\ ctimer' = rest /\ train = "high"
      <3>1. cpc' = "connect2" /\ ctimer' = UdpTimeout + Second /\ SinceLast' = 0
        BY <1>2, <1>5, <2>6 DEF SinceLast
      <3> QED
        BY <1>2, <2>2, <2>3, <3>1 DEF Pauses, Asleep, Trains
    <2> QED
      BY <2>2, <2>4, <2>5, <2>6 DEF Trains
  <1>6. CASE SendLow /\ UNCHANGED serverVars
    BY <1>2, <1>5, <1>6 DEF SendLow, Trains
  <1>7. CASE SendHigh /\ UNCHANGED serverVars
    BY <1>2, <1>5, <1>7 DEF SendHigh, Trains
  <1>8. CASE RunClient \/ (ClientNext /\ ~SendLow /\ ~SendHigh)
             \/ (ClientAbort /\ UNCHANGED serverVars)
    <2>1. /\ UNCHANGED <<spc, udpVars>>
          /\ \/ cpc' \notin {"low", "high", "connect2"}
             \/ cpc = "close" /\ cpc' = "low" /\ ctimer' = Second
      BY <1>8 DEF RunClient, StartClient, ClientNext, serverVars, ClientStep, ClientAbort,
          Connect1, Connect2, Connect, SendConfig, CloseConfig, CloseAndSleep,
          ReceiveVerdict, ClientExit
    <2>2. cpc = "close" => flight = {}
      BY DEF Unsent
    <2> QED
      BY <1>1, <2>1, <2>2 DEF Pauses, Asleep, udpVars, Trains
  <1>9. CASE Deliver \/ Duplicate
    <2>1. PICK p \in flight :
             /\ flight' \in {flight, flight \ {p}}
             /\ UNCHANGED <<timeVars, udpBound, clientVars, serverVars>>
      BY <1>1, <1>9, PathMoves
    <2>2. flight' \subseteq flight /\ SinceLast' = SinceLast
          /\ UNCHANGED <<ctimer, cpc, ci, spc, udpBound>>
      BY <2>1 DEF SinceLast, timeVars, clientVars, serverVars
    <2> QED
      BY <2>2 DEF Pauses, Asleep
  <1>10. CASE Tick
    <2>1. /\ UNCHANGED <<cpc, ci, spc, udpBound>>
          /\ ctimer' = IF ctimer > 0 THEN ctimer - 1 ELSE 0
          /\ cpc \in {"low", "high", "connect2"} => ctimer > 0
      BY <1>1, <1>2, <1>10 DEF Tick, Countdown, ClientReady, ClientStopped,
         clientVars, serverVars
    <2>2. \A q \in flight' : \E p \in flight :
            q.train = p.train /\ q.id = p.id /\ q.age = p.age + 1
      BY <1>10, TickAges
    <2>3. cpc \in Trains => /\ ctimer' + MaxDelay < UdpTimeout
                            /\ \A q \in flight' : q.train = cpc => q.id < ci
      BY <1>2, <2>1, <2>2 DEF Pauses, Trains
    <2>4. Asleep => /\ ctimer' <= InterTime
                    /\ \A q \in flight' : InterTime - ctimer' <= q.age
      <3>1. SUFFICES ASSUME Asleep
                     PROVE  /\ ctimer' <= InterTime
                            /\ \A q \in flight' : InterTime - ctimer' <= q.age
        OBVIOUS
      <3>2. ctimer' = ctimer - 1 /\ ctimer <= InterTime
        BY <1>2, <2>1, <3>1 DEF Pauses, Asleep
      <3>3. \A p \in flight : InterTime - ctimer <= p.age
        BY <3>1 DEF Pauses
      <3> QED
        BY <1>2, <1>3, <2>2, <3>2, <3>3
    <2>5. cpc = "connect2" => /\ ctimer' <= UdpTimeout + Second
                              /\ \A q \in flight' : SinceLast' <= q.age
      <3>1. SUFFICES ASSUME cpc = "connect2"
                     PROVE  /\ ctimer' <= UdpTimeout + Second
                            /\ \A q \in flight' : SinceLast' <= q.age
        OBVIOUS
      <3>2. ctimer' = ctimer - 1 /\ ctimer <= UdpTimeout + Second
        BY <1>2, <2>1, <3>1 DEF Pauses
      <3>3. \A p \in flight : UdpTimeout + Second - ctimer <= p.age
        BY <3>1 DEF Pauses, SinceLast
      <3> QED
        BY <1>2, <1>3, <2>2, <3>2, <3>3 DEF SinceLast
    <2> QED
      BY <2>1, <2>3, <2>4, <2>5 DEF Pauses, Asleep
  <1>11. CASE UNCHANGED vars
    BY <1>11 DEF Pauses, Asleep, SinceLast, vars, timeVars, udpVars, clientVars, serverVars
  <1> QED
    BY <1>4, <1>6, <1>7, <1>8, <1>9, <1>10, <1>11
    DEF Next, Abort, Finished, ClientNext, RunServer, ServerNext

\* Nobody times out while it has something to expect.
LEMMA NoTimeOut ==
  ASSUME TypeOK, Counting, NEW loop \in Trains, TimeOut(loop)
  PROVE  FALSE
  <1>1. spc = loop /\ sockbuf = <<>> /\ UdpTimeout > 0 /\ stimer = 0
    BY DEF TimeOut, TimeOutThen, TimedOut
  <1>2. Expecting
    BY <1>1 DEF Counting, Trains
  <1>3. \A p \in flight : p.age \in 0..MaxDelay
    BY DEF TypeOK, NetworkTypeOK, Packets
  <1>4. MaxDelay \in Nat /\ ctimer \in Nat /\ UdpTimeout \in Nat
    BY Sizes
  <1> QED
    BY <1>1, <1>2, <1>3, <1>4 DEF Expecting

\* What is left of the first conjuncts when a loop is entered or goes on.
LEMMA ServerCounts ==
  ASSUME Single, Reliable, Patient, TypeOK, Handshake, Unsent, Handed, Pauses, Counting,
         UNCHANGED clientVars, ServerStep \/ StartServer \/ ServerAbort
  PROVE  Counting'
  <1>1. /\ IsFiniteSet(flight) /\ UNCHANGED <<flight, ctimer, cpc, ci>>
        /\ SinceLast' = SinceLast
    BY ServerTakes DEF Unsent, clientVars, SinceLast
  <1>2. /\ TrainSize \in Nat \ {0} /\ UdpTimeout \in Nat /\ Second \in Nat /\ MaxDelay \in Nat
        /\ InterTime \in Nat /\ ctimer \in Nat /\ ci \in 0..TrainSize-1
        /\ Cardinality(flight) \in Nat /\ Len(sockbuf) \in Nat
        /\ Len(sockbuf) = 0 <=> sockbuf = <<>>
        /\ win["low"].n \in Nat /\ win["high"].n \in Nat
    BY <1>1, Sizes DEF Trains
  <1>3. Second + MaxDelay < UdpTimeout
    BY DEF Patient
  <1>4. \A loop \in Trains : ~TimeOut(loop)
    BY NoTimeOut
  <1>5. CASE Bind
    <2>1. Preparing /\ Early /\ cpc \notin {"idle", "connect1"}
      BY <1>5, BindShakes
    <2>2. cpc = "close" \/ (cpc = "low" /\ ctimer = Second)
      BY <1>5, <2>1 DEF Early, Handed, Offered, Due, Bind
    <2>3. flight = {} /\ sockbuf = <<>> /\ ci = 0
      BY <2>1 DEF Unsent, Due
    <2>4. spc' = "low" /\ sockbuf' = <<>> /\ stimer' = UdpTimeout /\ win' = win
      BY <1>5, <2>3 DEF Bind
    <2>5. win["low"].n = 0
      BY <1>5 DEF Bind, TypeOK, ServerTypeOK, Unmeasured, Trains
    <2>6. Accounted("low")' = 0
      BY <1>1, <2>3, <2>4, <2>5, FS_EmptySet DEF Accounted
    <2>7. Sent("low")' = 0
      BY <1>1, <2>2, <2>3 DEF Sent
    <2>8. Expecting'
      BY <1>1, <1>2, <1>3, <2>2, <2>4 DEF Expecting, Trains
    <2> QED
      BY <1>1, <2>2, <2>4, <2>6, <2>7, <2>8 DEF Counting
  <1>6. CASE ReceiveDatagram("low")
    <2>1. /\ spc = "low" /\ sockbuf # <<>> /\ Len(sockbuf') = Len(sockbuf) - 1
          /\ win'["low"].n = win["low"].n + 1 /\ win'["high"] = win["high"]
          /\ stimer' = UdpTimeout
          /\ \/ spc' = "low" /\ win["low"].n + 1 < TrainSize
             \/ spc' = "high" /\ win["low"].n + 1 = TrainSize
      BY <1>6, ReceiveCounts DEF Trains
    <2>2. /\ cpc \in {"close", "low"} \/ Asleep
          /\ Accounted("low") = Sent("low")
          /\ Asleep => InterTime - ctimer <= MaxDelay
      BY <2>1 DEF Counting
    <2>3. Expecting'
      <3>1. cpc \in Trains => ctimer + MaxDelay < UdpTimeout
        BY DEF Pauses
      <3> QED
        BY <1>1, <2>1, <2>2, <3>1 DEF Expecting, Asleep, Trains
    <2>4. Asleep' <=> Asleep
      BY <1>1 DEF Asleep
    <2>5. CASE spc' = "low"
      <3>1. Accounted("low")' = Accounted("low") /\ Sent("low")' = Sent("low")
        BY <1>1, <1>2, <2>1 DEF Accounted, Sent
      <3> QED
        BY <1>1, <2>2, <2>3, <2>4, <2>5, <3>1 DEF Counting
    <2>6. CASE spc' = "high"
      <3>1. Accounted("low") <= Sent("low") /\ win["low"].n + 1 = TrainSize
        BY <1>2, <2>1, <2>2, <2>6 DEF Accounted
      <3>2. flight = {} /\ sockbuf' = <<>> /\ cpc \notin {"send", "close", "low"}
        BY <1>1, <1>6, <3>1, LastCounted DEF Trains
      <3>3. cpc = "high" /\ ci = 0
        BY <2>2, <3>2 DEF Asleep
      <3>4. win["high"].n = 0
        BY <2>1 DEF TypeOK, ServerTypeOK, Unmeasured
      <3>5. Accounted("high")' = 0 /\ Sent("high")' = 0
        <4>1. win'["high"].n = 0 /\ Len(sockbuf') = 0 /\ Cardinality(flight') = 0
          BY <1>1, <2>1, <3>2, <3>4, FS_EmptySet
        <4>2. cpc' = "high" /\ ci' = 0
          BY <1>1, <3>3
        <4> QED
          BY <4>1, <4>2 DEF Accounted, Sent
      <3>6. NoneAbroad("low")'
        BY <1>1, <3>2 DEF NoneAbroad
      <3>7. win'["low"].n = TrainSize
        BY <2>1, <3>1
      <3> QED
        BY <1>1, <2>3, <2>6, <3>2, <3>3, <3>5, <3>6, <3>7 DEF Counting
    <2> QED
      BY <2>1, <2>5, <2>6
  <1>7. CASE ReceiveDatagram("high")
    <2>1. /\ spc = "high" /\ sockbuf # <<>> /\ Len(sockbuf') = Len(sockbuf) - 1
          /\ win'["high"].n = win["high"].n + 1 /\ win'["low"] = win["low"]
          /\ \/ spc' = "high" /\ win["high"].n + 1 < TrainSize /\ stimer' = UdpTimeout
             \/ spc' = "judge" /\ win["high"].n + 1 = TrainSize
      BY <1>7, ReceiveCounts DEF Trains
    <2>2. /\ cpc \in {"high", "connect2"} /\ Accounted("high") = Sent("high")
          /\ cpc = "connect2" => SinceLast <= MaxDelay
          /\ NoneAbroad("low") /\ win["low"].n = TrainSize
      BY <2>1 DEF Counting
    <2>3. CASE spc' = "high"
      <3>1. Accounted("high")' = Accounted("high") /\ Sent("high")' = Sent("high")
        BY <1>1, <1>2, <2>1 DEF Accounted, Sent
      <3>2. NoneAbroad("low")'
        BY <2>2, TakesNone
      <3>3. cpc = "high" => Expecting'
        <4>1. cpc \in Trains => ctimer + MaxDelay < UdpTimeout
          BY DEF Pauses
        <4> QED
          BY <1>1, <2>1, <2>3, <4>1 DEF Expecting, Trains
      <3>4. cpc = "connect2" => Expecting'
        <4>1. SUFFICES ASSUME cpc = "connect2", sockbuf' = <<>>
                       PROVE  \E p \in flight : MaxDelay < UdpTimeout + p.age
          BY <1>1, <2>1, <2>3 DEF Expecting
        <4>2. Sent("high") = TrainSize
          BY <4>1 DEF Sent
        <4>3. Len(sockbuf) = 1
          BY <1>2, <2>1, <4>1
        <4>4. Cardinality(flight) # 0
          BY <1>2, <2>1, <2>2, <2>3, <4>2, <4>3 DEF Accounted
        <4>5. PICK p \in flight : TRUE
          BY <4>4, FS_EmptySet
        <4>6. p.age \in 0..MaxDelay
          BY DEF TypeOK, NetworkTypeOK, Packets
        <4> QED
          BY <1>2, <1>3, <4>6
      <3> QED
        BY <1>1, <2>1, <2>2, <2>3, <3>1, <3>2, <3>3, <3>4 DEF Counting
    <2>4. CASE spc' = "judge"
      <3>1. ~Asleep
        <4>1. SUFFICES ASSUME Asleep PROVE FALSE
          OBVIOUS
        <4>2. Sent("high") = 0
          BY <4>1 DEF Asleep, Sent
        <4>3. Len(sockbuf) > 0
          BY <1>2, <2>1
        <4> QED
          BY <1>2, <2>2, <4>2, <4>3 DEF Accounted
      <3>2. \A t \in Trains : win'[t].n = TrainSize
        BY <1>2, <2>1, <2>2, <2>4 DEF Trains
      <3>3. ~Asleep' /\ cpc' \notin {"idle", "connect1", "send", "close", "low"}
        BY <1>1, <2>2, <3>1 DEF Asleep
      <3> QED
        BY <2>4, <3>2, <3>3 DEF Counting
    <2> QED
      BY <2>1, <2>3, <2>4
  <1>8. CASE ~Bind /\ \A loop \in Trains : ~ReceiveDatagram(loop)
    <2>1. spc' \notin {"low", "high", "judge"}
      BY <1>4, <1>8, ServerLoops DEF Trains
    <2> QED
      BY <2>1 DEF Counting
  <1> QED
    BY <1>5, <1>6, <1>7, <1>8 DEF Trains

\* One datagram more is sent, and it is on its way.
LEMMA SendingCounts ==
  ASSUME Single, Reliable, Patient, TypeOK, Handshake, Unsent, Pauses, Counting,
         NEW train \in Trains, NEW next, NEW rest,
         SendTrain(train, next, rest), UNCHANGED serverVars,
         train = "low" => next = "high" /\ rest = InterTime,
         train = "high" => next = "connect2" /\ rest = UdpTimeout + Second
  PROVE  Counting'
  <1>1. /\ TrainSize \in Nat \ {0} /\ UdpTimeout \in Nat /\ Second \in Nat /\ MaxDelay \in Nat
        /\ InterTime \in Nat /\ ctimer \in Nat /\ stimer \in Nat /\ ci \in 0..TrainSize-1
        /\ Len(sockbuf) \in Nat
        /\ Len(sockbuf) = 0 <=> sockbuf = <<>>
        /\ win["low"].n \in Nat /\ win["high"].n \in Nat
    BY Sizes DEF Trains
  <1>2. /\ IsFiniteSet(flight) /\ Cardinality(flight) \in Nat /\ MaxDelay < InterTime
        /\ (Cardinality(flight) = 0 <=> flight = {})
    BY Sizes DEF Unsent, Patient, Trains
  <1>3. \A q \in flight : q.train = train => q.id # ci
    <2>1. \A q \in flight : q.train = train => q.id < ci
      BY DEF Pauses, SendTrain
    <2>2. \A q \in flight : q.id \in 0..TrainSize-1
      BY DEF TypeOK, NetworkTypeOK, Packets
    <2> QED
      BY <1>1, <2>1, <2>2
  <1>4. PICK p : /\ p.train = train /\ p.age = 0 /\ flight' = flight \cup {p}
                 /\ Cardinality(flight') = Cardinality(flight) + 1
    BY <1>2, <1>3, LaunchAdds
  <1>5. /\ cpc = train /\ ctimer = 0 /\ UNCHANGED <<spc, win, sockbuf, stimer>>
        /\ \/ cpc' = train /\ ci' = ci + 1 /\ ci + 1 < TrainSize
           \/ cpc' = next /\ ci' = 0 /\ ctimer' = rest /\ ci + 1 = TrainSize
    BY <1>1 DEF SendTrain, serverVars
  <1>6. Sent(train) = ci /\ Sent(train)' = ci + 1
    <2>1. cpc' = train => Sent(train)' = ci + 1
      BY <1>5 DEF Sent, Trains
    <2>2. cpc' = next /\ cpc' # train => Sent(train)' = TrainSize
      BY <1>5 DEF Sent, Trains
    <2> QED
      BY <1>5, <2>1, <2>2 DEF Sent, Trains
  <1>7. \A loop \in Trains : Accounted(loop)' = Accounted(loop) + 1
    BY <1>1, <1>2, <1>4, <1>5 DEF Accounted, Trains
  <1>8. spc \in Trains => Expecting'
    <2>1. SUFFICES ASSUME spc \in Trains PROVE Expecting'
      OBVIOUS
    <2>2. Expecting
      BY <2>1 DEF Counting, Trains
    <2>3. \/ sockbuf # <<>>
          \/ \E q \in flight : MaxDelay < stimer + q.age
          \/ MaxDelay < stimer
      BY <1>1, <1>5, <2>2 DEF Expecting, Trains
    <2>4. p \in flight' /\ flight \subseteq flight'
      BY <1>4
    <2>5. MaxDelay < stimer => MaxDelay < stimer + p.age
      BY <1>1, <1>4
    <2> QED
      BY <1>5, <2>3, <2>4, <2>5 DEF Expecting
  <1>9. CASE spc = "low"
    <2>1. /\ cpc \in {"close", "low"} \/ Asleep
          /\ Accounted("low") = Sent("low")
          /\ Asleep /\ sockbuf # <<>> => InterTime - ctimer <= MaxDelay
      BY <1>9 DEF Counting
    <2>2. train = "low"
      <3>1. SUFFICES ASSUME train = "high" PROVE FALSE
        BY DEF Trains
      <3>2. Asleep
        BY <1>5, <2>1, <3>1
      <3>3. sockbuf = <<>>
        BY <1>1, <1>2, <1>5, <2>1, <3>2
      <3>4. flight = {}
        <4>1. SUFFICES ASSUME NEW q \in flight PROVE FALSE
          OBVIOUS
        <4>2. InterTime - ctimer <= q.age /\ q.age \in 0..MaxDelay
          BY <3>2 DEF Pauses, TypeOK, NetworkTypeOK, Packets
        <4> QED
          BY <1>1, <1>2, <1>5, <4>2
      <3>5. Sent("low") = TrainSize
        BY <3>2 DEF Sent, Asleep
      <3>6. win["low"].n < TrainSize
        BY <1>9 DEF TypeOK, ServerTypeOK
      <3> QED
        BY <1>1, <1>2, <2>1, <3>3, <3>4, <3>5, <3>6 DEF Accounted
    <2>3. Accounted("low")' = Sent("low")'
      BY <1>6, <1>7, <2>1, <2>2 DEF Trains
    <2>4. cpc' = "low" \/ (Asleep' /\ InterTime - ctimer' <= MaxDelay)
      BY <1>1, <1>5, <2>2 DEF Asleep
    <2>5. ~(cpc' = "low" /\ Asleep')
      BY DEF Asleep
    <2> QED
      BY <1>5, <1>8, <1>9, <2>3, <2>4, <2>5 DEF Counting, Trains
  <1>10. CASE spc = "high"
    <2>1. /\ cpc \in {"high", "connect2"} /\ Accounted("high") = Sent("high")
          /\ NoneAbroad("low") /\ win["low"].n = TrainSize
      BY <1>10 DEF Counting
    <2>2. train = "high"
      BY <1>5, <2>1 DEF Trains
    <2>3. Accounted("high")' = Sent("high")'
      BY <1>6, <1>7, <2>1, <2>2 DEF Trains
    <2>4. NoneAbroad("low")'
      BY <1>4, <1>5, <2>1, <2>2 DEF NoneAbroad
    <2>5. cpc' = "connect2" => SinceLast' <= MaxDelay
      BY <1>1, <1>5, <2>2 DEF SinceLast
    <2> QED
      BY <1>5, <1>8, <1>10, <2>1, <2>2, <2>3, <2>4, <2>5 DEF Counting, Trains
  <1>11. CASE spc = "judge"
    <2>1. /\ cpc \notin {"idle", "connect1", "send", "close", "low"} /\ ~Asleep
          /\ \A t \in Trains : win[t].n = TrainSize
      BY <1>11 DEF Counting
    <2>2. train = "high"
      BY <1>5, <2>1 DEF Trains
    <2>3. ~Asleep' /\ cpc' \in {"high", "connect2"}
      BY <1>1, <1>5, <2>2 DEF Asleep
    <2> QED
      BY <1>5, <1>11, <2>1, <2>3 DEF Counting
  <1>12. CASE spc \notin {"low", "high", "judge"}
    BY <1>5, <1>12 DEF Counting
  <1> QED
    BY <1>9, <1>10, <1>11, <1>12

\* The client dials for the verdict only when the second loop is over.
LEMMA DialsAfterTheTrain ==
  ASSUME Reliable, Patient, TypeOK, Unsent, Pauses, Counting, cpc = "connect2", ctimer = 0
  PROVE  spc \notin Trains
  <1>1. SUFFICES ASSUME spc = "high" PROVE FALSE
    BY DEF Counting, Trains, Asleep
  <1>2. /\ UdpTimeout \in Nat /\ Second \in Nat /\ MaxDelay \in Nat /\ Len(sockbuf) \in Nat
        /\ Len(sockbuf) = 0 <=> sockbuf = <<>>
        /\ win["high"].n \in Nat /\ TrainSize \in Nat
    BY Sizes DEF Trains
  <1>3. Second + MaxDelay < UdpTimeout /\ SinceLast = UdpTimeout + Second
    BY <1>2 DEF Patient, SinceLast
  <1>4. sockbuf = <<>>
    BY <1>1, <1>2, <1>3 DEF Counting
  <1>5. flight = {}
    <2>1. SUFFICES ASSUME NEW p \in flight PROVE FALSE
      OBVIOUS
    <2>2. SinceLast <= p.age /\ p.age \in 0..MaxDelay
      BY DEF Pauses, TypeOK, NetworkTypeOK, Packets
    <2> QED
      BY <1>2, <1>3, <2>2
  <1>6. Accounted("high") = TrainSize
    BY <1>1 DEF Counting, Sent
  <1>7. win["high"].n < TrainSize
    BY <1>1 DEF TypeOK, ServerTypeOK
  <1>8. Cardinality(flight) = 0 /\ Len(sockbuf) = 0
    BY <1>2, <1>4, <1>5, FS_EmptySet
  <1> QED
    BY <1>2, <1>6, <1>7, <1>8 DEF Accounted

\* The client's other steps leave the counts alone.
LEMMA ClientCounts ==
  ASSUME Single, Reliable, Patient, TypeOK, Handshake, Unsent, Pauses, Counting,
         RunClient \/ ClientNext \/ (ClientAbort /\ UNCHANGED serverVars)
  PROVE  Counting'
  <1>1. CASE SendLow /\ UNCHANGED serverVars
    BY <1>1, SendingCounts DEF SendLow, Trains
  <1>2. CASE SendHigh /\ UNCHANGED serverVars
    BY <1>2, SendingCounts DEF SendHigh, Trains
  <1>3. CASE CloseConfig /\ UNCHANGED serverVars
    <2>1. /\ cpc = "close" /\ cpc' = "low" /\ ctimer' = Second /\ ci' = ci
          /\ UNCHANGED <<stimer, udpVars, spc, win>>
      BY <1>3 DEF CloseConfig, CloseAndSleep, serverVars
    <2>2. spc \notin {"high", "judge"} /\ ~Asleep'
      BY <2>1 DEF Counting, Asleep
    <2>3. flight = {} /\ sockbuf = <<>> /\ ci = 0
      BY <2>1 DEF Unsent
    <2>4. Sent("low") = 0 /\ Sent("low")' = 0 /\ Accounted("low")' = Accounted("low")
      BY <2>1, <2>3 DEF Sent, Accounted, udpVars
    <2>5. Second + MaxDelay < UdpTimeout
      BY DEF Patient
    <2>6. spc = "low" => Expecting'
      <3>1. SUFFICES ASSUME spc = "low" PROVE Expecting'
        OBVIOUS
      <3>2. Expecting
        BY <3>1 DEF Counting
      <3>3. stimer = UdpTimeout
        BY <2>1, <2>3, <3>2 DEF Expecting, Trains
      <3> QED
        BY <2>1, <2>5, <3>3 DEF Expecting, Trains
    <2> QED
      BY <2>1, <2>2, <2>4, <2>6 DEF Counting
  <1>4. CASE RunClient \/ (ClientNext /\ ~SendLow /\ ~SendHigh /\ ~CloseConfig)
    <2>1. UNCHANGED <<spc, win, udpVars>>
      BY <1>4 DEF RunClient, StartClient, ClientNext, serverVars, ClientStep, Connect1,
          Connect2, Connect, SendConfig, ReceiveVerdict
    <2>2. cpc \in {"idle", "connect1"} => spc \notin {"low", "high", "judge"}
      BY DEF Handshake, Untouched
    <2>3. cpc = "send" => spc \notin {"low", "high", "judge"}
      BY DEF Counting, Asleep
    <2>4. cpc = "connect2" /\ ctimer = 0 => spc \notin {"low", "high"}
      BY DialsAfterTheTrain DEF Trains
    <2>5. /\ cpc = "recv" => spc \notin {"low", "high"}
          /\ cpc \in {"done", "failed"} => spc \notin {"low", "high"}
      BY DEF Counting, Asleep
    <2>6. /\ cpc \in {"idle", "connect1", "send", "recv", "done", "failed"}
             \/ (cpc = "connect2" /\ ctimer = 0)
          /\ spc = "judge" => cpc' \in {"recv", "done", "failed"}
      <3>1. CASE RunClient
        BY <3>1, <2>2, StartClientShakes DEF RunClient, StartClient
      <3>2. CASE ClientNext /\ ~SendLow /\ ~SendHigh /\ ~CloseConfig
        BY <3>2, <2>2, <2>3
        DEF ClientNext, ClientStep, Connect1, Connect2, Connect, SendConfig,
            ReceiveVerdict, ClientExit
      <3> QED
        BY <1>4, <3>1, <3>2
    <2>7. spc \notin {"low", "high"}
      BY <2>2, <2>3, <2>4, <2>5, <2>6
    <2> QED
      BY <2>1, <2>6, <2>7 DEF Counting, Asleep
  <1>5. ~ClientAbort
    BY DEF ClientAbort, Reliable
  <1> QED
    BY <1>1, <1>2, <1>3, <1>4, <1>5 DEF ClientNext

\* A datagram the path has taken over reaches the buffer.
LEMMA PathCounts ==
  ASSUME Reliable, Patient, TypeOK, Unsent, Pauses, Counting, Deliver \/ Duplicate
  PROVE  Counting'
  <1>1. IsFiniteSet(flight) /\ ~Lossy /\ ~Duplicates /\ TrainSize <= RcvBuf
    BY DEF Unsent, Reliable
  <1>2. PICK p \in flight :
           /\ p.age \in 0..MaxDelay
           /\ flight' \subseteq flight /\ Cardinality(flight') = Cardinality(flight) - 1
           /\ udpBound /\ Len(sockbuf) < RcvBuf => sockbuf' # sockbuf
           /\ sockbuf' = sockbuf \/ Len(sockbuf') = Len(sockbuf) + 1
           /\ UNCHANGED <<timeVars, clientVars, serverVars>>
    BY <1>1, PathMoves
  <1>3. UNCHANGED <<ctimer, stimer, cpc, ci, spc, win>> /\ SinceLast' = SinceLast
    BY <1>2 DEF timeVars, clientVars, serverVars, SinceLast
  <1>4. /\ TrainSize \in Nat \ {0} /\ RcvBuf \in Nat /\ MaxDelay \in Nat
        /\ Len(sockbuf) \in Nat /\ Cardinality(flight) \in Nat
        /\ win["low"].n \in Nat /\ win["high"].n \in Nat /\ ci \in 0..TrainSize-1
    BY <1>1, Sizes, NetworkAssumption DEF Trains
  <1>5. Cardinality(flight) > 0
    BY <1>1, <1>4, Sizes DEF Trains
  <1>6. ASSUME NEW loop \in Trains, spc = loop, Accounted(loop) = Sent(loop)
        PROVE  /\ Accounted(loop)' = Sent(loop)'
               /\ Expecting'
    <2>1. Sent(loop) <= TrainSize /\ Sent(loop)' = Sent(loop) /\ Sent(loop) \in Nat
      BY <1>3, <1>4 DEF Sent
    <2>2. win[loop].n \in Nat
      BY <1>4 DEF Trains
    <2>3. win[loop].n + Len(sockbuf) + Cardinality(flight) <= RcvBuf
      BY <1>1, <1>4, <1>6, <2>1, <2>2 DEF Accounted
    <2>4. Len(sockbuf) < RcvBuf
      BY <1>4, <1>5, <2>2, <2>3
    <2>5. Len(sockbuf') = Len(sockbuf) + 1
      BY <1>2, <1>6, <2>4 DEF Pauses, Trains
    <2>6. Accounted(loop)' = Accounted(loop)
      <3>1. \A n, l, c \in Int : n + (l + 1) + (c - 1) = n + l + c
        OBVIOUS
      <3>2. Accounted(loop)' = win[loop].n + (Len(sockbuf) + 1) + (Cardinality(flight) - 1)
        BY <1>2, <1>3, <2>5 DEF Accounted
      <3> QED
        BY <1>4, <2>2, <3>1, <3>2 DEF Accounted
    <2>7. sockbuf' # <<>>
      BY <1>4, <2>5
    <2> QED
      BY <1>6, <2>1, <2>6, <2>7 DEF Expecting
  <1>7. Asleep => InterTime - ctimer <= MaxDelay
    <2>1. Asleep => InterTime - ctimer <= p.age
      BY <1>2 DEF Pauses
    <2> QED
      BY <1>2, <1>4, <2>1, Sizes DEF Trains
  <1>8. cpc = "connect2" => SinceLast <= MaxDelay
    <2>1. cpc = "connect2" => SinceLast <= p.age
      BY <1>2 DEF Pauses
    <2>2. SinceLast \in Int
      BY Sizes DEF SinceLast, Trains
    <2> QED
      BY <1>2, <1>4, <2>1, <2>2
  <1>9. NoneAbroad("low") => NoneAbroad("low")'
    BY <1>1, PathBrings
  <1> QED
    BY <1>3, <1>6, <1>7, <1>8, <1>9 DEF Counting, Asleep, Trains

\* A tick brings every datagram and every timer nearer by the same.
LEMMA TickCounts ==
  ASSUME Single, Reliable, Patient, TypeOK, Handshake, Unsent, Counting, Tick
  PROVE  Counting'
  <1>1. IsFiniteSet(flight) /\ Prompt
    BY DEF Unsent, Single
  <1>2. /\ MaxDelay \in Nat /\ ctimer \in Nat /\ stimer \in Nat
    BY Sizes DEF Trains
  <1>3. /\ UNCHANGED <<sockbuf, cpc, ci, spc, win>>
        /\ Cardinality(flight') = Cardinality(flight)
        /\ ctimer' = (IF ctimer > 0 THEN ctimer - 1 ELSE 0)
        /\ stimer' = (IF stimer > 0 THEN stimer - 1 ELSE 0)
    BY <1>1, TickAges DEF Tick, Countdown, clientVars, serverVars
  <1>4. Patient => UdpTimeout > 0
    BY Sizes DEF Patient, Trains
  <1>5. spc \in Trains => sockbuf = <<>> /\ stimer > 0
    BY <1>1, <1>2, <1>4 DEF Tick, ServerReady, ServerStopped, TimedOut, Trains
  <1>6. cpc \in Trains => ctimer > 0
    BY <1>1, <1>2 DEF Tick, ClientReady, ClientStopped, Trains
  <1>7. cpc # "close"
    BY TickShakes
  <1>8. \A loop \in Trains : Accounted(loop)' = Accounted(loop) /\ Sent(loop)' = Sent(loop)
    BY <1>3 DEF Accounted, Sent
  <1>9. spc \in Trains => Expecting'
    <2>1. SUFFICES ASSUME spc \in Trains PROVE Expecting'
      OBVIOUS
    <2>2. \/ \E p \in flight : MaxDelay < stimer + p.age
          \/ cpc \in Trains /\ ctimer + MaxDelay < stimer
      BY <1>5, <1>7, <2>1 DEF Counting, Expecting, Trains
    <2>3. stimer' = stimer - 1 /\ (cpc \in Trains => ctimer' = ctimer - 1)
      BY <1>2, <1>3, <1>5, <1>6, <2>1
    <2>4. CASE \E p \in flight : MaxDelay < stimer + p.age
      <3>1. PICK p \in flight : MaxDelay < stimer + p.age
        BY <2>4
      <3>2. PICK q \in flight' : q.age = p.age + 1 /\ p.age \in Nat
        BY TickAges
      <3>3. MaxDelay < stimer' + q.age
        BY <1>2, <2>3, <3>1, <3>2
      <3> QED
        BY <3>3 DEF Expecting
    <2>5. CASE cpc \in Trains /\ ctimer + MaxDelay < stimer
      BY <1>2, <1>3, <2>3, <2>5 DEF Expecting
    <2> QED
      BY <2>2, <2>4, <2>5
  <1>10. NoneAbroad("low") => NoneAbroad("low")'
    BY TickBrings
  <1> QED
    BY <1>3, <1>5, <1>8, <1>9, <1>10 DEF Counting, Asleep, Trains

\* Counting is inductive.
LEMMA CountingStep ==
  Single /\ Reliable /\ Patient /\ TypeOK /\ Handshake /\ Unsent /\ Handed /\ Pauses
    /\ Counting /\ [Next]_vars => Counting'
  <1> SUFFICES ASSUME Single, Reliable, Patient, TypeOK, Handshake, Unsent, Handed, Pauses,
                      Counting, [Next]_vars
               PROVE  Counting'
    OBVIOUS
  <1>1. CASE UNCHANGED vars
    <2>1. Expecting' = Expecting /\ Asleep' = Asleep /\ SinceLast' = SinceLast
      BY <1>1 DEF Expecting, Asleep, SinceLast, vars, timeVars, udpVars, clientVars
    <2>2. \A loop \in Trains : /\ Accounted(loop)' = Accounted(loop)
                               /\ Sent(loop)' = Sent(loop)
      BY <1>1 DEF Accounted, Sent, vars, udpVars, clientVars, serverVars
    <2>3. NoneAbroad("low")' = NoneAbroad("low")
      BY <1>1 DEF NoneAbroad, vars, udpVars
    <2> QED
      BY <1>1, <2>1, <2>2, <2>3
      DEF Counting, Trains, vars, timeVars, udpVars, clientVars, serverVars
  <1> QED
    BY <1>1, ServerCounts, ClientCounts, PathCounts, TickCounts
    DEF Next, Abort, Finished, RunServer, ServerNext

\* What a loop counts is of its own train.
LEMMA OwnTrainStep ==
  TypeOK /\ Unsent /\ Counting /\ OwnTrain /\ [Next]_vars => OwnTrain'
  <1> SUFFICES ASSUME TypeOK, Unsent, Counting, OwnTrain, [Next]_vars PROVE OwnTrain'
    OBVIOUS
  <1>1. CASE UNCHANGED win
    BY <1>1 DEF OwnTrain
  <1>2. CASE StartServer
    BY <1>2 DEF StartServer, OwnTrain, Unmeasured, Trains
  <1>3. ASSUME NEW loop \in Trains, ReceiveDatagram(loop)
        PROVE  OwnTrain'
    <2>1. /\ spc = loop /\ sockbuf # <<>>
          /\ \A s \in win'[loop].from : s \in win[loop].from \/ s = sockbuf[1]
          /\ \A t \in Trains : t # loop => win'[t] = win[t]
      BY <1>3, ReceiveCounts
    <2>2. sockbuf \in Seq(Sources) /\ Len(sockbuf) # 0
      BY <2>1 DEF TypeOK, NetworkTypeOK
    <2>3. 1 \in 1..Len(sockbuf) /\ sockbuf[1] \in Sources
      BY <2>2
    <2>4. sockbuf[1].train \in Trains
      BY <2>3 DEF Sources
    <2>5. loop = "low" => NoneAbroad("high")
      BY <2>1 DEF Counting, Unsent
    <2>6. loop = "high" => NoneAbroad("low")
      BY <2>1 DEF Counting
    <2>7. sockbuf[1].train = loop
      BY <2>3, <2>4, <2>5, <2>6 DEF NoneAbroad, Trains
    <2> QED
      BY <2>1, <2>7 DEF OwnTrain
  <1> QED
    BY <1>1, <1>2, <1>3, ServerLoops, OthersMeasureNothing
    DEF RunServer, ServerNext, serverVars

\* Windows with whole trains of their own stay so.
LEMMA WholeMeasurementStep ==
  TypeOK /\ Counting /\ OwnTrain /\ WholeMeasurement /\ [Next]_vars => WholeMeasurement'
  <1> SUFFICES ASSUME TypeOK, Counting, OwnTrain, WholeMeasurement, [Next]_vars, Judged'
               PROVE  \A t \in Trains : /\ win'[t].n = TrainSize
                                        /\ \A s \in win'[t].from : s.train = t
    BY DEF WholeMeasurement
  <1>1. win' = win /\ (Judge \/ Judged)
    BY DecisionStands
  <1> QED
    BY <1>1 DEF Judge, Counting, OwnTrain, WholeMeasurement

\* Whole is inductive where nothing is lost and the timeout is patient.
LEMMA WholeInit == Init => Whole
  <1> SUFFICES ASSUME Init PROVE Whole
    OBVIOUS
  <1>1. /\ cpc = "idle" /\ spc = "off" /\ \A t \in Trains : win[t].from = {}
    BY DEF Init, ClientInit, ServerInit, Unmeasured
  <1>2. Unsent
    BY ToldInit DEF Told
  <1> QED
    BY <1>1, <1>2
    DEF Whole, Pauses, Counting, OwnTrain, WholeMeasurement, Judged, Asleep, Trains

\* The conjuncts of the invariant, one step.
LEMMA WholeStep ==
  Single /\ Reliable /\ Patient /\ TypeOK /\ Handshake /\ Handed /\ Whole /\ [Next]_vars
    => Handshake' /\ Handed' /\ Whole'
  BY HandshakeStep, HandedStep, UnsentStep, PausesStep, CountingStep, OwnTrainStep,
     WholeMeasurementStep DEF Whole, Reliable

\* If nothing is lost, duplicated or failing, the buffer holds a train and
\* udp_timeout outlasts every pause of the client by a delay, then each loop of
\* probing counts every datagram of its train and no other: for every train
\* size, pause, gap and delay.
THEOREM TrainsAreMeasuredWhole == Single /\ Reliable /\ Patient /\ Spec => []WholeMeasurement
  <1> SUFFICES ASSUME Single, Reliable, Patient PROVE Spec => []WholeMeasurement
    OBVIOUS
  <1> DEFINE Inv == TypeOK /\ Handshake /\ Handed /\ Whole
  <1>1. Init => Inv
    BY TypeInit, HandshakeInit, HandedInit, WholeInit
  <1>2. Inv /\ [Next]_vars => Inv'
    BY TypeStep, WholeStep
  <1>3. Inv => WholeMeasurement
    BY DEF Whole
  <1> QED
    BY <1>1, <1>2, <1>3, PTL DEF Spec

\* Under the same conditions the second loop is not over before the client has
\* begun the second train, as the README asks of udp_timeout.
THEOREM SecondLoopWaits == Single /\ Reliable /\ Patient /\ Spec => []SecondTrainAwaited
  <1> SUFFICES ASSUME Single, Reliable, Patient PROVE Spec => []SecondTrainAwaited
    OBVIOUS
  <1> DEFINE Inv == TypeOK /\ Handshake /\ Handed /\ Whole
  <1>1. Init => Inv
    BY TypeInit, HandshakeInit, HandedInit, WholeInit
  <1>2. Inv /\ [Next]_vars => Inv'
    BY TypeStep, WholeStep
  <1>3. Inv => SecondTrainAwaited
    BY DEF Whole, Counting, SecondTrainAwaited, Asleep
  <1> QED
    BY <1>1, <1>2, <1>3, PTL DEF Spec

=============================================================================
