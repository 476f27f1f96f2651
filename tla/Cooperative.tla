----------------------------- MODULE Cooperative -----------------------------
(***************************************************************************)
(* The cooperative application: the client, the server, the path between   *)
(* them and the passage of time.                                           *)
(***************************************************************************)
EXTENDS Client, Server

vars == <<timeVars, tcpVars, udpVars, clientVars, serverVars>>

TypeOK ==
    /\ NetworkTypeOK
    /\ ClientTypeOK
    /\ ServerTypeOK

Init ==
    /\ NetworkInit
    /\ ClientInit
    /\ ServerInit

-----------------------------------------------------------------------------
\* A tick is only worth taking while somebody waits for it.
Awaited == ctimer > 0 \/ stimer > 0 \/ flight # {}

Countdown(t) == IF t > 0 THEN t - 1 ELSE 0

\* One tick.  No datagram outlives MaxDelay; if the processes are Prompt, each
\* is asleep or blocked when the clock moves.
Tick ==
    /\ Awaited
    /\ \A p \in flight : p.age < MaxDelay
    /\ Prompt => ~ClientReady /\ ~ServerReady
    /\ now' = now + 1
    /\ ctimer' = Countdown(ctimer)
    /\ stimer' = Countdown(stimer)
    /\ flight' = {[p EXCEPT !.age = @ + 1] : p \in flight}
    /\ UNCHANGED <<tcpVars, sockbuf, udpBound, clientVars, serverVars>>

Deliver ==
    /\ \E p \in flight : Arrive(p) \/ Lose(p)
    /\ UNCHANGED <<timeVars, tcpVars, clientVars, serverVars>>

Duplicate ==
    /\ \E p \in flight : ArriveTwice(p)
    /\ UNCHANGED <<timeVars, tcpVars, clientVars, serverVars>>

\* The user and the operator.  The client is run against a running server.
RunClient == ServerUp /\ StartClient /\ UNCHANGED serverVars
RunServer == StartServer /\ UNCHANGED clientVars

ClientNext == ClientStep /\ UNCHANGED serverVars
ServerNext == ServerStep /\ UNCHANGED clientVars

Abort ==
    \/ ClientAbort /\ UNCHANGED serverVars
    \/ ServerAbort /\ UNCHANGED clientVars

\* Neither process is left running.
Finished ==
    /\ ClientStopped
    /\ ServerStopped
    /\ UNCHANGED vars

Next ==
    \/ RunServer \/ RunClient
    \/ ClientNext \/ ServerNext
    \/ Deliver \/ Duplicate \/ Tick
    \/ Abort
    \/ Finished

Spec == Init /\ [][Next]_vars

\* Both processes are scheduled, the path delivers or drops what it carries,
\* and time passes.  Nobody has to start a process, and nothing has to fail.
Fairness ==
    /\ WF_vars(ClientNext)
    /\ WF_vars(ServerNext)
    /\ WF_vars(Deliver)
    /\ WF_vars(Tick)

FairSpec == Spec /\ Fairness

-----------------------------------------------------------------------------
(***************************************************************************)
(* The README's rule for udp_timeout: "shorter than the inter measurement  *)
(* time so as to not receive train 2 packets as train 1 packets".  The     *)
(* slack a datagram's delay needs is made explicit.                        *)
(***************************************************************************)
TimeoutRule == UdpTimeout > 0 /\ UdpTimeout + MaxDelay < InterTime

\* What the rule is for: the first receiving loop of probing never counts a
\* datagram of the second train.
NoHighInLow == \A s \in win["low"].from : s.train = "low"

\* The converse: the second loop of probing never counts a late datagram of
\* the first train, so neither delta mixes the two trains.
NoLowInHigh == \A s \in win["high"].from : s.train = "high"

\* Stages of the server after probing has closed the second window.
Judged == spc \in {"listen2", "accept2", "send", "close", "done"}

\* The sleep before post_probing ("ensure server opens TCP") is long enough:
\* when the client dials for the verdict, the server is back in listen().
ServerOpenInTime == cpc = "connect2" /\ ctimer = 0 => listening /\ Judged

\* Under the README's rule the two receive loops of probing cannot both be
\* right: if the first train arrives whole, the first loop ends at its last
\* datagram, the second loop starts waiting an inter_measurement_time early,
\* times out and measures nothing.
WholeTrainStarvesSecond ==
    Judged /\ win["low"].n = TrainSize => win["high"].n = 0

\* A path that only jitters is not reported: datagrams sent at most MaxGap
\* apart and delayed by at most MaxDelay spread over no more than the
\* threshold, so whenever both trains were measured the verdict of probing is
\* that there is no compression, however many datagrams were lost, and though
\* the instants are cut to milliseconds before they are subtracted.
Jitter == (TrainSize - 1) * MaxGap + MaxDelay
NoFalseDetection ==
    Judged /\ Measured /\ Jitter <= Threshold * Milli => verdict = Undetected

\* When nothing is lost and the timeout outlasts the pause, probing times
\* every datagram of each train in that train's own window.
WholeMeasurement ==
    Judged => \A t \in Trains : /\ win[t].n = TrainSize
                                /\ \A s \in win[t].from : s.train = t

\* README.md on udp_timeout: "not too short that the socket times out before
\* the second train can be sent, around 3/5 the inter measurement time is
\* good".  The second loop of probing is not over before the client has begun
\* the second train.
SecondTrainAwaited ==
    spc = "judge" /\ crun = sess => cpc # "low" /\ ~(cpc = "high" /\ ci = 0)

\* Across crashes and restarts of either program, a verdict post_probing shows
\* the user was computed by a server that parsed this very run's configuration
\* and timed this run's datagrams only.
OwnMeasurement ==
    \A i \in 1..Len(printed) : printed[i] # Blank =>
        /\ printed[i].sess = crun
        /\ printed[i].from \subseteq {crun}

\* Client and server wait for each other's data on one connection (the server
\* for a configuration, the client for a verdict) only if the server that took
\* the configuration is gone and another one answers in its place.
CrossWait ==
    /\ cpc = "recv" /\ spc = "recv"
    /\ Accepted(Post)
CrossWaitNeedsRestart == CrossWait => sboot > 1

\* Whatever the client does, and if every datagram is lost, probing comes to
\* an end: the server does not stay in a receiving loop.
ProbingEnds == spc \in {"low", "high"} ~> spc \notin {"low", "high"}

\* As long as no second server is started, every run of the client ends, with
\* or without a verdict: no connect, recv or sleep of it waits for ever.
ClientEnds == ~ClientStopped ~> ClientStopped \/ sboot > 1

\* A measurement that is started is completed: the client shows a verdict and
\* both programs return.
MeasurementCompletes ==
    crun > 0 ~> /\ cpc = "done" /\ printed # <<Blank>>
                /\ spc = "done"

-----------------------------------------------------------------------------
(***************************************************************************)
(* The cooperative application is a detector.                              *)
(***************************************************************************)
Stage ==
    IF printed # <<>> THEN "shown"
    ELSE IF Judged THEN "decided"
    ELSE IF spc = "judge" THEN "measured"
    ELSE IF spc \in {"low", "high"} THEN spc
    ELSE "idle"

Shown == IF printed = <<>> THEN "none" ELSE printed[1].text

Detector == INSTANCE Detection
                WITH Results <- Verdicts, Failures <- {},
                     stage <- Stage, result <- verdict, shown <- Shown

\* Server and client together refine the abstract detector: one measurement of
\* each train, in order, one decision, and the client's printf shows it.
ImplementsDetector == Detector!Spec

\* The same with the promise that a measurement once begun is shown.
ImplementsLiveDetector == Detector!LiveSpec

=============================================================================
