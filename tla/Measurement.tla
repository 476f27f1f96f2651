---------------------------- MODULE Measurement -----------------------------
(***************************************************************************)
(* What the two receiving loops of probing measure when the client runs    *)
(* once: the inductive invariants behind NoLowInHigh, NoFalseDetection,    *)
(* WholeTrainStarvesSecond, ServerOpenInTime, WholeMeasurement and         *)
(* SecondTrainAwaited.                                                     *)
(*                                                                         *)
(* The server tells the trains apart by counting and by waiting only, so   *)
(* the invariants count datagrams (sent, in flight, in the buffer, counted *)
(* by the loop) and relate the three clocks that run: the client's sleep,  *)
(* the server's timeout and the age of each datagram.                      *)
(***************************************************************************)
EXTENDS Separation, FiniteSets

\* Nothing of the train is on the path or in the socket's buffer.
NoneAbroad(train) ==
    /\ \A p \in flight : p.train # train
    /\ \A i \in 1..Len(sockbuf) : sockbuf[i].train # train

\* Datagrams loop has counted or may still count.
Accounted(loop) == win[loop].n + Len(sockbuf) + Cardinality(flight)

\* Datagrams of each train the client has sent, at most.
Sent(train) ==
    IF cpc \in {"send", "close"} THEN 0
    ELSE IF cpc = train THEN ci
    ELSE TrainSize

\* The configuration is on its way to the server, or has just arrived.
Due == Preparing \/ AtFirst({"queued", "accepted"})

\* Before the first train is sent nothing is abroad, and while the server
\* prepares it has not begun.  No high datagram is abroad before that train.
Unsent ==
    /\ IsFiniteSet(flight)
    /\ cpc \in {"connect1", "send", "close"} => ci = 0 /\ flight = {} /\ sockbuf = <<>>
    /\ Due => ci = 0 /\ flight = {} /\ sockbuf = <<>>
    /\ cpc = "low" \/ Asleep => NoneAbroad("high")

-----------------------------------------------------------------------------
(***************************************************************************)
(* The second loop counts no low datagram.                                 *)
(***************************************************************************)

\* udp_timeout outlasts the sleep of main, the sending of a train, and a delay.
LowTime == Second + (TrainSize - 1) * MaxGap
LongEnough == LowTime + MaxDelay < UdpTimeout

Distinct == OneRun /\ LongEnough /\ ~Duplicates

\* While the first loop waits it knows of every low datagram: it can leave for
\* having counted them all, or for a timeout that began before the last was
\* sent and ends after the last has gone.
LowLoop == spc = "low" =>
    /\ cpc \in {"send", "close", "low", "failed"} \/ Asleep
    /\ Accounted("low") <= Sent("low")
    /\ cpc \in {"send", "close"} => stimer = UdpTimeout
    /\ cpc = "low" => (UdpTimeout - stimer) + ctimer <= Second + ci * MaxGap
    /\ \A p \in flight : UdpTimeout - stimer <= LowTime + p.age

\* When the second loop runs, the low train is over and gone.
HighLoop == spc = "high" =>
    /\ cpc \notin {"idle", "connect1", "send", "close", "low"}
    /\ NoneAbroad("low")

\* If the first loop counted the whole train, the second waits while the client
\* sleeps, and will time out before it wakes up.
Starved ==
    /\ spc = "high" /\ win["low"].n = TrainSize =>
         /\ win["high"].n = 0
         /\ flight = {} /\ sockbuf = <<>>
         /\ cpc = "failed"
            \/ (Asleep /\ stimer + (InterTime - ctimer) <= UdpTimeout + MaxDelay)
    /\ spc = "judge" /\ win["low"].n = TrainSize => win["high"].n = 0

Told == Unsent /\ LowLoop /\ HighLoop /\ Starved

\* The instants of the second loop against the moments its train was sent:
\* since the first datagram was received, no more time has passed than the
\* client needed to send those it has sent.
SinceFirst == now - win["high"].start

Spread ==
    /\ \A t \in Trains : win[t].start <= win[t].end /\ win[t].end <= now
    /\ cpc = "high" /\ ci > 0 => ctimer <= MaxGap
    /\ spc = "high" /\ win["high"].n > 0 =>
         /\ cpc = "high" => ci > 0 /\ SinceFirst + ctimer <= ci * MaxGap
         /\ \A p \in flight : SinceFirst <= p.id * MaxGap + p.age
         /\ sockbuf # <<>> => SinceFirst <= Jitter
    /\ win["high"].end - win["high"].start <= Jitter

-----------------------------------------------------------------------------
(***************************************************************************)
(* When nothing fails the configuration is handed over, and the server is  *)
(* back in listen() when the client dials again.                           *)
(***************************************************************************)
\* No call fails, and the second main adds to udp_timeout outlasts a delay.
Calm == ~Faults /\ MaxDelay < Second

Toward == conns[First].toServer

\* Nobody but the client's first connection has come to the server.
Alone ==
    /\ \A c \in ConnIds : c # First => conns[c].server = "none"
    /\ \A i \in 1..Len(backlog) : backlog[i] = First

\* The first connection waits to be accepted, or to be read.
Offered ==
    \/ spc = "accept1" /\ AtFirst({"queued"})
    \/ spc = "recv" /\ AtFirst({"accepted"})

\* The server has the configuration, and has not accepted a second connection.
Served ==
    /\ spc \in {"parse", "bind", "low", "high", "judge", "listen2", "accept2"}
    /\ sess = 1

Handed ==
    /\ AtFirst({"none"}) => Toward = <<>>
    /\ cpc \notin {"recv", "done", "failed"} => Alone
    /\ spc = "accept2" => listening
    /\ cpc = "failed" => ~Due
    /\ cpc = "send" => Offered /\ Toward = <<>>
    /\ cpc \in {"close", "low", "high", "connect2"} =>
         (Offered /\ Toward = <<1>>) \/ Served

\* Ticks since the last datagram was sent, while the client sleeps for the
\* server's timeout and a second.
SinceLast == UdpTimeout + Second - ctimer

InTime ==
    /\ cpc \in {"connect2", "recv", "done"} => spc # "low"
    /\ spc = "high" => stimer <= UdpTimeout
    /\ cpc = "connect2" => ctimer <= UdpTimeout + Second
                           /\ \A p \in flight : SinceLast <= p.age
    /\ cpc = "connect2" /\ spc = "high" =>
         /\ sockbuf # <<>> => SinceLast <= MaxDelay
         /\ stimer + SinceLast <= UdpTimeout + MaxDelay
    /\ cpc = "connect2" /\ ctimer = 0 => spc = "accept2"

-----------------------------------------------------------------------------
(***************************************************************************)
(* When nothing is lost and the timeout outlasts every pause, each loop    *)
(* counts its whole train.                                                 *)
(***************************************************************************)
Reliable == ~Lossy /\ ~Duplicates /\ ~Faults /\ TrainSize <= RcvBuf

Patient ==
    /\ MaxDelay < InterTime
    /\ \A pause \in {Second, MaxGap, InterTime} : pause + MaxDelay < UdpTimeout

\* A receiving loop has reason to wait: a datagram is there, is under way and
\* will arrive, or will be sent and arrive, before the timeout.
Expecting ==
    \/ sockbuf # <<>>
    \/ \E p \in flight : MaxDelay < stimer + p.age
    \/ cpc \in Trains /\ ctimer + MaxDelay < stimer
    \/ cpc = "close" /\ stimer = UdpTimeout

Pauses ==
    /\ cpc \in Trains => /\ ctimer + MaxDelay < UdpTimeout
                         /\ \A p \in flight : p.train = cpc => p.id < ci
    /\ Asleep => ctimer <= InterTime /\ \A p \in flight : InterTime - ctimer <= p.age
    /\ cpc = "connect2" => ctimer <= UdpTimeout + Second
                           /\ \A p \in flight : SinceLast <= p.age
    /\ spc \in {"low", "high"} => udpBound

Counting ==
    /\ spc = "low" =>
         /\ cpc \in {"close", "low"} \/ Asleep
         /\ Accounted("low") = Sent("low")
         /\ Asleep /\ sockbuf # <<>> => InterTime - ctimer <= MaxDelay
    /\ spc = "high" =>
         /\ cpc \in {"high", "connect2"}
         /\ Accounted("high") = Sent("high")
         /\ cpc = "connect2" /\ sockbuf # <<>> => SinceLast <= MaxDelay
         /\ NoneAbroad("low")
         /\ win["low"].n = TrainSize
    /\ spc \in {"low", "high"} => Expecting
    /\ spc = "judge" => /\ cpc \notin {"idle", "connect1", "send", "close", "low"}
                        /\ ~Asleep
                        /\ \A t \in Trains : win[t].n = TrainSize

OwnTrain == \A t \in Trains : \A s \in win[t].from : s.train = t

Whole == Unsent /\ Pauses /\ Counting /\ OwnTrain /\ WholeMeasurement

=============================================================================
