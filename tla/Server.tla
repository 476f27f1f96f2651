------------------------------- MODULE Server --------------------------------
(***************************************************************************)
(* src/compdetect_server.c.  One process serves one measurement: it        *)
(* accepts a connection and reads the configuration (pre_probing), times   *)
(* the arrival of two trains of udp_train_size datagrams on a UDP socket   *)
(* with a receive timeout (probing), and accepts a second connection on    *)
(* which it writes the verdict (post_probing).                             *)
(*                                                                         *)
(* spc names the call the process is about to make, or is blocked in.  The *)
(* server cannot tell the two trains apart: the first receiving loop ends  *)
(* after TrainSize datagrams or one timeout, whatever it has received, and *)
(* the second loop takes the rest.                                         *)
(***************************************************************************)
EXTENDS Network

CONSTANT MaxBoots  \* bound: how often the operator starts the server

ASSUME ServerAssumption == MaxBoots \in Nat \ {0}

VARIABLES
    spc,           \* the next call of the server
    sboot,         \* how often it has been started
    sess,          \* the client run whose configuration it parsed, 0 if none
    win,           \* what each receiving loop measured
    verdict        \* result, "none" before it is computed

serverVars == <<spc, sboot, sess, win, verdict>>

ServerPcs == {"off", "listen1", "accept1", "recv", "parse", "bind", "low",
              "high", "judge", "listen2", "accept2", "send", "close",
              "done", "failed"}

\* The local variables of one receiving loop: the instants of its first and
\* last datagram, and the loop counter.  begin is n # 0, and while n = 0 the
\* two struct timeval are uninitialised.  from, the sources of the datagrams
\* counted, is not in the code: the properties are about it.
Windows == [start: Nat, end: Nat, n: 0..TrainSize, from: SUBSET Sources]

Unmeasured == [start |-> 0, end |-> 0, n |-> 0, from |-> {}]

ServerTypeOK ==
    /\ spc \in ServerPcs
    /\ sboot \in 0..MaxBoots
    /\ sess \in 0..MaxRuns
    /\ win \in [Trains -> Windows]
    /\ verdict \in Verdicts \cup {"none"}
    /\ spc \in {"listen1", "accept1", "recv", "parse", "bind"}
         => win = [t \in Trains |-> Unmeasured]
    /\ spc = "low" => win["high"] = Unmeasured
    /\ spc \in {"low", "high"} => win[spc].n < TrainSize
    /\ spc \in {"bind", "low", "high", "judge", "listen2", "accept2", "send"}
         => sess # 0
    /\ spc \in {"listen2", "accept2", "send"} => verdict # "none"

ServerInit ==
    /\ spc = "off"
    /\ sboot = 0
    /\ sess = 0
    /\ win = [t \in Trains |-> Unmeasured]
    /\ verdict = "none"

ServerStopped == spc \in {"off", "done", "failed"}

\* "the server must first be up and running"
ServerUp == ~ServerStopped /\ spc # "listen1"

ServerExit(how) ==
    /\ spc' = how
    /\ stimer' = 0
    /\ ServerHangUp
    /\ udpBound' = FALSE
    /\ sockbuf' = <<>>

-----------------------------------------------------------------------------
(***************************************************************************)
(* pre_probing                                                             *)
(***************************************************************************)
StartServer ==
    /\ ServerStopped
    /\ sboot < MaxBoots
    /\ sboot' = sboot + 1
    /\ spc' = "listen1"
    /\ sess' = 0
    /\ win' = [t \in Trains |-> Unmeasured]
    /\ verdict' = "none"
    /\ UNCHANGED <<timeVars, tcpVars, udpVars>>

Listen(at, next) ==
    /\ spc = at
    /\ OpenListener
    /\ spc' = next
    /\ UNCHANGED <<timeVars, udpVars, sboot, sess, win, verdict>>

Listen1 == Listen("listen1", "accept1")

AcceptNext(at, next) ==
    /\ spc = at
    /\ \E c \in ConnIds : Accept(c)
    /\ spc' = next
    /\ UNCHANGED <<timeVars, udpVars, sboot, sess, win, verdict>>

Accept1 == AcceptNext("accept1", "recv")

\* receive_stream: one recv().  It returns the configuration, or nothing if
\* the client closed without sending any, or only a prefix, which does not
\* parse.  Left out here: a text longer than the buffer fills it, no NUL marks
\* its end (sockets.c:283-286), and what is behind the buffer may complete it
\* with other values.  That is cutOff in Configuration.
ReceiveConfig ==
    /\ spc = "recv"
    /\ \E c \in ConnIds :
         /\ Accepted(c)
         /\ \/ /\ conns[c].toServer # <<>>
               /\ \/ sess' = Head(conns[c].toServer)
                  \/ Faults /\ sess' = 0
            \/ /\ conns[c].toServer = <<>>
               /\ conns[c].client = "closed"
               /\ sess' = 0
         /\ conns' = [conns EXCEPT ![c].toServer = <<>>]
    /\ spc' = "parse"
    /\ UNCHANGED <<timeVars, listening, backlog, udpVars, sboot, win, verdict>>

\* Both sockets are closed, then parse_config runs.  Text that does not parse
\* makes cJSON_GetObjectItem return NULL, and parse_config dereferences it.
CloseThen(next) ==
    /\ spc = "parse"
    /\ ServerHangUp
    /\ spc' = next
    /\ UNCHANGED <<timeVars, udpVars, sboot, sess, win, verdict>>

\* Defect: parse_config falls back to defaults when the text does not parse.
CloseAndParseDefaults == CloseThen("bind")

CloseAndParse == CloseThen(IF sess = 0 THEN "failed" ELSE "bind")

-----------------------------------------------------------------------------
(***************************************************************************)
(* probing                                                                 *)
(***************************************************************************)
Bind ==
    /\ spc = "bind"
    /\ udpBound' = TRUE
    /\ spc' = "low"
    /\ stimer' = UdpTimeout
    /\ UNCHANGED <<now, ctimer, tcpVars, flight, sockbuf, sboot, sess, win, verdict>>

\* The loop body after a recvfrom() that returned a datagram of source src.
Stamp(w, src) ==
    [start |-> IF w.n = 0 THEN now ELSE w.start,
     end   |-> now,
     n     |-> w.n + 1,
     from  |-> w.from \cup {src}]

\* The call after the loop: the first recvfrom() of the other loop, whose
\* timeout starts anew, or the calculation.
LeaveLoop(loop) ==
    IF loop = "low"
    THEN spc' = "high" /\ stimer' = UdpTimeout
    ELSE spc' = "judge" /\ stimer' = 0

\* A recvfrom() that returns a datagram, in a loop that wants size of them.
ReceiveUpTo(loop, size) ==
    /\ spc = loop
    /\ sockbuf # <<>>
    /\ sockbuf' = Tail(sockbuf)
    /\ win' = [win EXCEPT ![loop] = Stamp(@, Head(sockbuf))]
    /\ IF win[loop].n + 1 < size
       THEN stimer' = UdpTimeout /\ UNCHANGED spc
       ELSE LeaveLoop(loop)
    /\ UNCHANGED <<now, ctimer, tcpVars, flight, udpBound, sboot, sess, verdict>>

\* Defect: the loops run to i <= udp_train_size.
ReceiveDatagramPast(loop) == ReceiveUpTo(loop, TrainSize + 1)

\* Defect: the loops run to i < udp_train_size - 1.
ReceiveDatagramShort(loop) == ReceiveUpTo(loop, TrainSize - 1)

ReceiveDatagram(loop) == ReceiveUpTo(loop, TrainSize)

\* Defect: probing does not set SO_RCVTIMEO on the socket.
TimedOutNever == FALSE

\* add_timeout_opt.  A SO_RCVTIMEO of 0 means no timeout at all.
TimedOut == UdpTimeout > 0 /\ stimer = 0

\* recvfrom() fails with EAGAIN, and the loop is left with break.
TimeOutThen(loop, leave) ==
    /\ spc = loop
    /\ sockbuf = <<>>
    /\ TimedOut
    /\ leave
    /\ UNCHANGED <<now, ctimer, tcpVars, udpVars, sboot, sess, win, verdict>>

\* Defect: a timeout ends probing, not just the loop.
TimeOutEndsProbing(loop) == TimeOutThen(loop, LeaveLoop("high"))

TimeOut(loop) == TimeOutThen(loop, LeaveLoop(loop))

Measured == win["low"].n > 0 /\ win["high"].n > 0

\* time_diff_milli: the rest of the microseconds is dropped from both instants.
Delta(w) == w.end \div Milli - w.start \div Milli

\* Defect: the deltas are compared with >=.
OutcomesAtLeast ==
    IF Measured
    THEN {IF Delta(win["high"]) - Delta(win["low"]) >= Threshold
          THEN Detected ELSE Undetected}
    ELSE Verdicts

\* The calculation.  A loop that received nothing leaves its two timestamps
\* uninitialised, and the comparison may go either way.
Outcomes ==
    IF Measured
    THEN {IF Delta(win["high"]) - Delta(win["low"]) > Threshold
          THEN Detected ELSE Undetected}
    ELSE Verdicts

Judge ==
    /\ spc = "judge"
    /\ verdict' \in Outcomes
    /\ spc' = "listen2"
    /\ udpBound' = FALSE
    /\ sockbuf' = <<>>
    /\ UNCHANGED <<timeVars, tcpVars, flight, sboot, sess, win>>

-----------------------------------------------------------------------------
(***************************************************************************)
(* post_probing                                                            *)
(***************************************************************************)
Listen2 == Listen("listen2", "accept2")

\* Defect: post_probing closes the connection it accepted without sending.
Accept2NoSend == AcceptNext("accept2", "close")

\* Defect: post_probing reads from the connection before it answers.
Accept2ThenRecv == AcceptNext("accept2", "recv")

Accept2 == AcceptNext("accept2", "send")

\* send_stream.  Whoever connected gets the verdict.
SendVerdict ==
    /\ spc = "send"
    /\ \E c \in ConnIds :
         /\ Accepted(c)
         /\ conns' = [conns EXCEPT ![c].toClient =
                        <<[text |-> verdict, sess |-> sess,
                           from |-> {s.run : s \in win["low"].from \cup
                                                   win["high"].from}]>>]
    /\ spc' = "close"
    /\ UNCHANGED <<timeVars, listening, backlog, udpVars, sboot, sess, win, verdict>>

\* Defect: main loops, serving one measurement after the other.
CloseServerLoops ==
    /\ spc = "close"
    /\ ServerExit("listen1")
    /\ sess' = 0
    /\ win' = [t \in Trains |-> Unmeasured]
    /\ verdict' = "none"
    /\ UNCHANGED <<now, ctimer, flight, sboot>>

CloseServer ==
    /\ spc = "close"
    /\ ServerExit("done")
    /\ UNCHANGED <<now, ctimer, flight, sboot, sess, win, verdict>>

\* Some call of the server fails and main returns EXIT_FAILURE, or it is killed.
ServerAbort ==
    /\ Faults
    /\ ~ServerStopped
    /\ ServerExit("failed")
    /\ UNCHANGED <<now, ctimer, flight, sboot, sess, win, verdict>>

-----------------------------------------------------------------------------
\* The next call of the server does not block.
ServerReady ==
    /\ ~ServerStopped
    /\ spc \in {"accept1", "accept2"} => backlog # <<>>
    /\ spc = "recv" => \E c \in ConnIds :
                          /\ Accepted(c)
                          /\ conns[c].toServer # <<>> \/ conns[c].client = "closed"
    /\ spc \in {"low", "high"} => sockbuf # <<>> \/ TimedOut

ServerStep ==
    \/ Listen1 \/ Accept1 \/ ReceiveConfig \/ CloseAndParse
    \/ Bind
    \/ \E loop \in Trains : ReceiveDatagram(loop) \/ TimeOut(loop)
    \/ Judge
    \/ Listen2 \/ Accept2 \/ SendVerdict \/ CloseServer

=============================================================================
