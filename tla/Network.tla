------------------------------- MODULE Network -------------------------------
(***************************************************************************)
(* The two transports between compdetect_client and compdetect_server, and *)
(* the clock both sleep on.  This is the kernel and the path as the calls  *)
(* of src/sockets.c see them:                                              *)
(*                                                                         *)
(*   TCP  one listening socket on tcp_port, its accept queue, and for each *)
(*        client run one connection before and one after the probing.      *)
(*   UDP  datagrams in flight, which may be late, lost, duplicated or      *)
(*        overtaken, and the bounded receive buffer of the server's socket.*)
(*   time counted in ticks of a clock that starts at 0.                    *)
(***************************************************************************)
EXTENDS Integers, Sequences

CONSTANTS
    MaxRuns,       \* bound: how often the user runs the client
    TrainSize,     \* udp_train_size
    UdpTimeout,    \* udp_timeout in ticks
    InterTime,     \* inter_measurement_time in ticks
    Second,        \* ticks in one second of sleep()
    Milli,         \* ticks in a millisecond
    Threshold,     \* threshold, in milliseconds
    RcvBuf,        \* datagrams the server's UDP receive buffer holds
    MaxDelay,      \* bound: ticks a datagram stays in flight
    MaxGap,        \* bound: ticks one sendto() may block
    Lossy,         \* may the path drop datagrams?
    Duplicates,    \* may the path deliver a datagram twice?
    Faults,        \* may a system call fail or a process be killed?
    Prompt         \* does a process that can run do so within the tick?

ASSUME NetworkAssumption ==
    /\ MaxRuns \in Nat \ {0}
    /\ TrainSize \in Nat \ {0}
    /\ UdpTimeout \in Nat
    /\ InterTime \in Nat
    /\ Second \in Nat \ {0}
    /\ Milli \in Nat \ {0}
    /\ Threshold \in Int
    /\ RcvBuf \in Nat
    /\ MaxDelay \in Nat
    /\ MaxGap \in Nat
    /\ Lossy \in BOOLEAN
    /\ Duplicates \in BOOLEAN
    /\ Faults \in BOOLEAN
    /\ Prompt \in BOOLEAN

VARIABLES
    now,           \* gettimeofday()
    ctimer,        \* ticks until the client's sleep() or sendto() returns
    stimer,        \* ticks left of the SO_RCVTIMEO of the server's recvfrom()
    listening,     \* is the server's TCP socket in listen()?
    backlog,       \* its accept queue
    conns,         \* the TCP connections
    flight,        \* datagrams between the two hosts
    sockbuf,       \* datagrams in the server's UDP receive buffer
    udpBound       \* is the server's UDP socket bound?

timeVars == <<now, ctimer, stimer>>
tcpVars  == <<listening, backlog, conns>>
udpVars  == <<flight, sockbuf, udpBound>>

Runs    == 1..MaxRuns
Phases  == {"pre", "post"}
ConnIds == Runs \X Phases
Trains  == {"low", "high"}
Sources == [run: Runs, train: Trains]
Packets == [run: Runs, train: Trains, id: 0..TrainSize-1, age: 0..MaxDelay]

Detected   == "Compression detected."
Undetected == "No compression detected."
Verdicts   == {Detected, Undetected}

\* What post_probing puts on the wire.  Only the text is sent; sess and from
\* record, for the properties, the client run whose configuration the server
\* used and the runs whose datagrams it timed.
Messages == [text: Verdicts, sess: Runs, from: SUBSET Runs]

\* What receive_stream returns when the peer has closed: a zeroed buffer.
Blank == [text |-> "blank", sess |-> 0, from |-> {}]

\* The two ends of a connection, and the bytes neither end has read yet:
\* a configuration, named by the run that sent it, and a verdict.
Connections == [client:   {"none", "open", "closed"},
                server:   {"none", "queued", "accepted", "closed", "reset"},
                toServer: Seq(Runs),
                toClient: Seq(Messages)]

NetworkTypeOK ==
    /\ now \in Nat
    /\ ctimer \in Nat
    /\ stimer \in Nat
    /\ listening \in BOOLEAN
    /\ backlog \in Seq(ConnIds)
    /\ conns \in [ConnIds -> Connections]
    /\ flight \in SUBSET Packets
    /\ sockbuf \in Seq(Sources)
    /\ udpBound \in BOOLEAN

NetworkInit ==
    /\ now = 0
    /\ ctimer = 0
    /\ stimer = 0
    /\ listening = FALSE
    /\ backlog = <<>>
    /\ conns = [c \in ConnIds |-> [client |-> "none", server |-> "none",
                                   toServer |-> <<>>, toClient |-> <<>>]]
    /\ flight = {}
    /\ sockbuf = <<>>
    /\ udpBound = FALSE

-----------------------------------------------------------------------------
(***************************************************************************)
(* TCP, from the client's side.                                            *)
(***************************************************************************)

\* establish_connection: connect() succeeds as soon as the kernel has queued
\* the connection, whether or not the server ever accepts it.  listen() asks
\* for a queue of 5, which MaxRuns clients, one at a time, do not fill.
Dial(c) ==
    /\ conns' = [conns EXCEPT ![c].client = "open", ![c].server = "queued"]
    /\ backlog' = Append(backlog, c)
    /\ UNCHANGED listening

\* The client's end after close(), or after its process is gone.
ClientHangUp ==
    conns' = [c \in ConnIds |->
                IF conns[c].client = "open"
                THEN [conns[c] EXCEPT !.client = "closed"]
                ELSE conns[c]]

(***************************************************************************)
(* TCP, from the server's side.                                            *)
(***************************************************************************)

Accepted(c) == conns[c].server = "accepted"

\* bind_and_listen
OpenListener ==
    /\ listening' = TRUE
    /\ UNCHANGED <<backlog, conns>>

\* accept_connection
Accept(c) ==
    /\ backlog # <<>>
    /\ c = Head(backlog)
    /\ backlog' = Tail(backlog)
    /\ conns' = [conns EXCEPT ![c].server = "accepted"]
    /\ UNCHANGED listening

\* close(tcp_sock) and close(client_sock), or the server's process is gone.
\* Whoever still waits in the accept queue is reset; an accepted connection
\* is reset too if its data was never read, and ends with a FIN otherwise.
ServerHangUp ==
    /\ listening' = FALSE
    /\ backlog' = <<>>
    /\ conns' = [c \in ConnIds |->
                   IF conns[c].server = "queued"
                   THEN [conns[c] EXCEPT !.server = "reset"]
                   ELSE IF Accepted(c)
                   THEN [conns[c] EXCEPT !.server =
                           IF conns[c].toServer = <<>> THEN "closed" ELSE "reset"]
                   ELSE conns[c]]

-----------------------------------------------------------------------------
(***************************************************************************)
(* UDP.  A datagram leaves with age 0 and ages with every tick.            *)
(***************************************************************************)

\* send_packet
Launch(r, t, i) ==
    flight' = flight \cup {[run |-> r, train |-> t, id |-> i, age |-> 0]}

\* A datagram reaches the server's host, where it is dropped unless the socket
\* is bound and its buffer has room.
Arrive(p) ==
    /\ flight' = flight \ {p}
    /\ sockbuf' = IF udpBound /\ Len(sockbuf) < RcvBuf
                  THEN Append(sockbuf, [run |-> p.run, train |-> p.train])
                  ELSE sockbuf
    /\ UNCHANGED udpBound

\* The same, but a copy of the datagram is still on its way.
ArriveTwice(p) ==
    /\ Duplicates
    /\ udpBound
    /\ Len(sockbuf) < RcvBuf
    /\ sockbuf' = Append(sockbuf, [run |-> p.run, train |-> p.train])
    /\ UNCHANGED <<flight, udpBound>>

Lose(p) ==
    /\ Lossy
    /\ flight' = flight \ {p}
    /\ UNCHANGED <<sockbuf, udpBound>>

=============================================================================
