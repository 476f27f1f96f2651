------------------------------- MODULE Client --------------------------------
(***************************************************************************)
(* src/compdetect_client.c.  A run of the program sends its configuration  *)
(* over TCP (pre_probing), sleeps one second, sends the low entropy train, *)
(* sleeps inter_measurement_time, sends the high entropy train (probing),  *)
(* sleeps udp_timeout + 1 seconds and fetches the verdict over a second    *)
(* TCP connection (post_probing).  The user may run it again afterwards.   *)
(*                                                                         *)
(* cpc names the call the process is about to make.  A sleep() is ctimer:  *)
(* the call named by cpc is made when ctimer has reached 0.                *)
(***************************************************************************)
EXTENDS Network

VARIABLES
    cpc,           \* the next call of the client
    crun,          \* which run of the client this is; 0 before the first
    ci,            \* the i of the two sending loops
    printed        \* the verdict on the user's terminal, <<>> if none

clientVars == <<cpc, crun, ci, printed>>

ClientPcs == {"idle", "connect1", "send", "close", "low", "high",
              "connect2", "recv", "done", "failed"}

ClientTypeOK ==
    /\ cpc \in ClientPcs
    /\ crun \in 0..MaxRuns
    /\ cpc # "idle" => crun # 0
    /\ ci \in 0..TrainSize-1
    /\ printed \in Seq(Messages \cup {Blank})

ClientInit ==
    /\ cpc = "idle"
    /\ crun = 0
    /\ ci = 0
    /\ printed = <<>>

ClientStopped == cpc \in {"idle", "done", "failed"}

Pre  == <<crun, "pre">>
Post == <<crun, "post">>

\* The process ends and the kernel closes its sockets.  The user needs at
\* least a second to run the program again.
ClientExit(how) ==
    /\ cpc' = how
    /\ ctimer' = Second
    /\ ClientHangUp
    /\ UNCHANGED <<listening, backlog>>

-----------------------------------------------------------------------------
(***************************************************************************)
(* pre_probing                                                             *)
(***************************************************************************)

\* main and the reading and parsing of the configuration file.
StartClient ==
    /\ ClientStopped
    /\ ctimer = 0
    /\ crun < MaxRuns
    /\ crun' = crun + 1
    /\ cpc' = "connect1"
    /\ ci' = 0
    /\ printed' = <<>>
    /\ UNCHANGED <<now, ctimer, stimer, tcpVars, udpVars>>

\* establish_connection, refused when nobody listens: both connects.
Connect(c, at, next) ==
    /\ cpc = at
    /\ ctimer = 0
    /\ \/ /\ listening
          /\ Dial(c)
          /\ cpc' = next
          /\ UNCHANGED ctimer
       \/ /\ ~listening
          /\ ClientExit("failed")
    /\ UNCHANGED <<now, stimer, udpVars, crun, ci, printed>>

Connect1 == Connect(Pre, "connect1", "send")

\* send_stream.  The bytes reach a server end that is still there; after a
\* reset send() fails as soon as the client's kernel has heard of it.
SendConfig ==
    /\ cpc = "send"
    /\ \/ /\ IF conns[Pre].server \in {"queued", "accepted"}
             THEN conns' = [conns EXCEPT ![Pre].toServer = <<crun>>]
             ELSE UNCHANGED conns
          /\ cpc' = "close"
          /\ UNCHANGED <<ctimer, listening, backlog>>
       \/ /\ conns[Pre].server = "reset"
          /\ ClientExit("failed")
    /\ UNCHANGED <<now, stimer, udpVars, crun, ci, printed>>

\* close(tcp_sock), then the sleep of main and the set-up of the UDP socket.
CloseAndSleep(pause) ==
    /\ cpc = "close"
    /\ ClientHangUp
    /\ cpc' = "low"
    /\ ctimer' = pause
    /\ UNCHANGED <<now, stimer, listening, backlog, udpVars, crun, ci, printed>>

\* Defect: main does not wait until the server is "ready for UDP".
CloseConfigNoSleep == CloseAndSleep(0)

CloseConfig == CloseAndSleep(Second)

-----------------------------------------------------------------------------
(***************************************************************************)
(* probing: the same loop twice.  Between two datagrams sendto() may block *)
(* for up to MaxGap ticks; after the last one comes the sleep of length    *)
(* rest and then the call next.                                            *)
(***************************************************************************)
SendTrain(train, next, rest) ==
    /\ cpc = train
    /\ ctimer = 0
    /\ Launch(crun, train, ci)
    /\ IF ci + 1 < TrainSize
       THEN /\ ci' = ci + 1
            /\ \E g \in 0..MaxGap : ctimer' = g
            /\ UNCHANGED cpc
       ELSE /\ ci' = 0
            /\ ctimer' = rest
            /\ cpc' = next
    /\ UNCHANGED <<now, stimer, tcpVars, sockbuf, udpBound, crun, printed>>

\* Defect: probing sleeps one second between the trains, as main does before.
SendLowShortSleep == SendTrain("low", "high", Second)

SendLow == SendTrain("low", "high", InterTime)

\* Defect: main forgets that the server first waits for its own timeout.
SendHighNoWait == SendTrain("high", "connect2", Second)

SendHigh == SendTrain("high", "connect2", UdpTimeout + Second)

-----------------------------------------------------------------------------
(***************************************************************************)
(* post_probing                                                            *)
(***************************************************************************)
Connect2 == Connect(Post, "connect2", "recv")

\* receive_stream and the printf: the verdict, or the zeroed buffer if the
\* server's end was closed without one.  A reset makes recv() fail.
ReceiveVerdict ==
    /\ cpc = "recv"
    /\ \/ /\ conns[Post].toClient # <<>>
          /\ printed' = conns[Post].toClient
          /\ ClientExit("done")
       \/ /\ conns[Post].toClient = <<>>
          /\ conns[Post].server = "closed"
          /\ printed' = <<Blank>>
          /\ ClientExit("done")
       \/ /\ conns[Post].toClient = <<>>
          /\ conns[Post].server = "reset"
          /\ ClientExit("failed")
          /\ UNCHANGED printed
    /\ UNCHANGED <<now, stimer, udpVars, crun, ci>>

\* Some call of the client fails and main returns EXIT_FAILURE, or the user
\* interrupts it.
ClientAbort ==
    /\ Faults
    /\ ~ClientStopped
    /\ ClientExit("failed")
    /\ UNCHANGED <<now, stimer, udpVars, crun, ci, printed>>

-----------------------------------------------------------------------------
\* The process is not asleep and its next call does not block.
ClientReady ==
    /\ ~ClientStopped
    /\ ctimer = 0
    /\ cpc = "recv" => \/ conns[Post].toClient # <<>>
                       \/ conns[Post].server \in {"closed", "reset"}

ClientStep ==
    \/ Connect1 \/ SendConfig \/ CloseConfig
    \/ SendLow \/ SendHigh
    \/ Connect2 \/ ReceiveVerdict

=============================================================================
