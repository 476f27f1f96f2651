------------------------------ MODULE Standalone ------------------------------
(***************************************************************************)
(* src/compdetect.c, the application that needs no server program.  Main   *)
(* sends a SYN to a closed port before and after each train of datagrams;  *)
(* the receive thread reads every TCP segment that reaches the host on a   *)
(* raw socket and times the RSTs.  It tells the four apart only by the     *)
(* order they come in, and looks at its timeout only after a segment came. *)
(*                                                                         *)
(* A SYN, the closed port and the RST it answers with are one round trip,  *)
(* which may fail, take up to MaxDelay ticks and, if Reorders, be          *)
(* overtaken.  The datagrams of a train are the time their sending takes.  *)
(***************************************************************************)
EXTENDS Integers, Sequences

CONSTANTS
    InterTime,     \* inter_measurement_time in ticks
    RstTimeout,    \* rst_timeout in seconds
    Second,        \* ticks in a second
    Milli,         \* ticks in a millisecond
    Threshold,     \* threshold, in milliseconds
    MaxTrain,      \* bound: ticks the sending of one train takes
    MaxDelay,      \* bound: ticks of one round trip
    Lossy,         \* may SYNs or RSTs be lost?
    Reorders,      \* may RSTs overtake each other?
    Chatty,        \* do other TCP segments reach the host?
    Strangers,     \* may these be RSTs?
    Faults,        \* may a system call fail?
    Prompt         \* does a thread that can run do so within the tick?

ASSUME StandaloneAssumption ==
    /\ InterTime \in Nat
    /\ RstTimeout \in Nat
    /\ Second \in Nat \ {0}
    /\ Milli \in Nat \ {0}
    /\ Threshold \in Int
    /\ MaxTrain \in Nat
    /\ MaxDelay \in Nat
    /\ {Lossy, Reorders, Chatty, Strangers, Faults, Prompt} \subseteq BOOLEAN

VARIABLES
    now,           \* gettimeofday()
    flight,        \* round trips under way
    rawbuf,        \* segments in the raw socket's receive buffer
    lost,          \* has a round trip failed?  (for the properties)
    mpc,           \* main: its next call; for a send, the SYN it sends
    mtimer,        \* ticks until main's sends or its sleep() are over
    printed,       \* what main has printed
    rpc,           \* receive_routine: its next step
    tail,          \* is the next RST a tail?
    high_e_train,  \* is it of the high entropy train?
    stamp,         \* the four struct timeval, and whose RST was timed
    beg, curr,     \* the timeout clock
    result         \* tdata->result

pathVars   == <<flight, rawbuf, lost>>
mainVars   == <<mpc, mtimer, printed>>
threadVars == <<rpc, tail, high_e_train, stamp, beg, curr, result>>
vars       == <<now, pathVars, mainVars, threadVars>>

\* The four RSTs, and the order their SYNs are sent in.
Rsts == {"low_head", "low_tail", "high_head", "high_tail"}
Rank == [s \in Rsts |-> CASE s = "low_head"  -> 1
                           [] s = "low_tail"  -> 2
                           [] s = "high_head" -> 3
                           [] s = "high_tail" -> 4]

\* Other segments, and other connections' RSTs.
Chatter   == {"other"} \cup IF Strangers THEN {"stranger"} ELSE {}
IsRst(s)  == s # "other"

Detected     == "Compression detected."
Undetected   == "No compression detected."
Verdicts     == {Detected, Undetected}
Insufficient == "Failed to detect due to insufficient information."

\* A struct timeval is initialised once a RST was timed in it.
Stamps == [at: Nat, rst: Rsts \cup {"stranger", "none"}]
Timed(s) == stamp[s].rst # "none"

TypeOK ==
    /\ now \in Nat
    /\ flight \in SUBSET [rst: Rsts, age: 0..MaxDelay]
    /\ rawbuf \in Seq(Rsts \cup {"other", "stranger"})
    /\ lost \in BOOLEAN
    /\ mpc \in Rsts \cup {"start", "join", "done", "failed"}
    /\ mtimer \in Nat
    /\ printed \in Verdicts \cup {Insufficient, "none"}
    /\ rpc \in {"off", "begin", "test", "recv", "result", "ended"}
    /\ tail \in BOOLEAN
    /\ high_e_train \in BOOLEAN
    /\ stamp \in [Rsts -> Stamps]
    /\ beg \in Nat
    /\ curr \in Nat
    /\ result \in Verdicts \cup {Insufficient, "none"}
    /\ mpc = "start" <=> rpc = "off"
    /\ rpc \in {"off", "begin"} => ~Timed("low_head")
    /\ Timed("low_head") <=> tail \/ high_e_train
    /\ Timed("low_tail") <=> high_e_train
    /\ Timed("high_head") <=> tail /\ high_e_train
    /\ Timed("high_tail") => Timed("high_head") /\ rpc \in {"result", "ended"}

Init ==
    /\ now = 0
    /\ flight = {}
    /\ rawbuf = <<>>
    /\ lost = FALSE
    /\ mpc = "start"
    /\ mtimer = 0
    /\ printed = "none"
    /\ rpc = "off"
    /\ tail = FALSE
    /\ high_e_train = FALSE
    /\ stamp = [s \in Rsts |-> [at |-> 0, rst |-> "none"]]
    /\ beg = 0
    /\ curr = 0
    /\ result = "none"

-----------------------------------------------------------------------------
(***************************************************************************)
(* main                                                                    *)
(***************************************************************************)

\* The set-up, and pthread_create.
StartThread ==
    /\ mpc = "start"
    /\ mpc' = "low_head"
    /\ rpc' = "begin"
    /\ UNCHANGED <<now, pathVars, mtimer, printed,
                   tail, high_e_train, stamp, beg, curr, result>>

\* pthread_create fails.  Its error codes are positive and the code looks for
\* negative ones, so main goes on without a thread.
ThreadNotCreated ==
    /\ Faults
    /\ mpc = "start"
    /\ mpc' = "low_head"
    /\ rpc' = "ended"
    /\ UNCHANGED <<now, pathVars, mtimer, printed,
                   tail, high_e_train, stamp, beg, curr, result>>

\* A SYN is sent, and rest is the time before the next call: that of the
\* train's sends after a head, that of sleep() after the tail of the first.
SendSyn(rst, next, rest) ==
    /\ mpc = rst
    /\ mtimer = 0
    /\ flight' = flight \cup {[rst |-> rst, age |-> 0]}
    /\ mpc' = next
    /\ mtimer' \in rest
    /\ UNCHANGED <<now, rawbuf, lost, printed, threadVars>>

\* Defect: both trains are sent by send_low_entropy_train.
SendLowTailAgain == SendSyn("low_tail", "low_head", {InterTime})

\* send_low_entropy_train and the sleep of main
SendLowHead == SendSyn("low_head", "low_tail", 0..MaxTrain)
SendLowTail == SendSyn("low_tail", "high_head", {InterTime})

\* send_high_entropy_train
SendHighHead == SendSyn("high_head", "high_tail", 0..MaxTrain)
SendHighTail == SendSyn("high_tail", "join", {0})

\* pthread_join and the printf.  A result that was never set is an
\* uninitialised pointer: what is printed is no result, or the process dies.
Join ==
    /\ mpc = "join"
    /\ rpc = "ended"
    /\ printed' = result
    /\ mpc' \in {"done"} \cup IF result = "none" THEN {"failed"} ELSE {}
    /\ UNCHANGED <<now, pathVars, mtimer, threadVars>>

\* A call of main fails and it returns, or the process is killed; either ends
\* the receive thread as well.
MainFails ==
    /\ Faults
    /\ mpc \notin {"start", "done", "failed"}
    /\ mpc' = "failed"
    /\ rpc' = "ended"
    /\ UNCHANGED <<now, pathVars, mtimer, printed,
                   tail, high_e_train, stamp, beg, curr, result>>

-----------------------------------------------------------------------------
(***************************************************************************)
(* receive_routine                                                         *)
(***************************************************************************)
Begin ==
    /\ rpc = "begin"
    /\ beg' = now
    /\ curr' = now
    /\ rpc' = "test"
    /\ UNCHANGED <<now, pathVars, mainVars, tail, high_e_train, stamp, result>>

\* time_diff_sec: the microseconds are dropped from both instants.
Seconds(t) == t \div Second

TimedOut == Seconds(curr) - Seconds(beg) > RstTimeout

\* The condition of the while loop.
Test ==
    /\ rpc = "test"
    /\ rpc' = IF TimedOut THEN "result" ELSE "recv"
    /\ UNCHANGED <<now, pathVars, mainVars,
                   tail, high_e_train, stamp, beg, curr, result>>

\* The timestamp the next RST is taken for.
Slot ==
    IF ~high_e_train
    THEN IF tail THEN "low_tail"  ELSE "low_head"
    ELSE IF tail THEN "high_tail" ELSE "high_head"

Taken == /\ rpc = "recv"
         /\ rawbuf # <<>>
         /\ rawbuf' = Tail(rawbuf)

\* The loop body for a segment that is no RST; curr is then clock.
ReceiveOtherAt(clock) ==
    /\ Taken
    /\ ~IsRst(Head(rawbuf))
    /\ curr' = clock
    /\ rpc' = "test"
    /\ UNCHANGED <<now, flight, lost, mainVars,
                   tail, high_e_train, stamp, beg, result>>

\* Defect: curr is only set in the branch for RSTs.
ReceiveOtherStale == ReceiveOtherAt(curr)

ReceiveOther == ReceiveOtherAt(now)

\* The loop body for a RST.  The fourth breaks the loop; any other leaves the
\* two flags and the start of the timeout as given.
ReceiveRstThen(nextTail, nextHigh, clock) ==
    /\ Taken
    /\ IsRst(Head(rawbuf))
    /\ stamp' = [stamp EXCEPT ![Slot] = [at |-> now, rst |-> Head(rawbuf)]]
    /\ IF Slot = "high_tail"
       THEN rpc' = "result" /\ UNCHANGED <<tail, high_e_train, beg, curr>>
       ELSE /\ tail' = nextTail
            /\ high_e_train' = nextHigh
            /\ beg' = clock
            /\ curr' = now
            /\ rpc' = "test"
    /\ UNCHANGED <<now, flight, lost, mainVars, result>>

\* Defect: tail is not reset after the first train.
ReceiveRstStuckTail == ReceiveRstThen(TRUE, high_e_train \/ tail, now)

\* Defect: the timeout is not reset by a RST.
ReceiveRstNoReset == ReceiveRstThen(~tail, high_e_train \/ tail, beg)

ReceiveRst == ReceiveRstThen(~tail, high_e_train \/ tail, now)

\* After the loop.
ConcludeIf(enough, over) ==
    /\ rpc = "result"
    /\ result' = IF ~enough THEN Insufficient
                 ELSE IF over THEN Detected ELSE Undetected
    /\ rpc' = "ended"
    /\ UNCHANGED <<now, pathVars, mainVars, tail, high_e_train, stamp, beg, curr>>

\* time_diff_milli: the rest of the microseconds is dropped from both instants.
Millis(t) == t \div Milli

LowDelta  == Millis(stamp["low_tail"].at) - Millis(stamp["low_head"].at)
HighDelta == Millis(stamp["high_tail"].at) - Millis(stamp["high_head"].at)

\* Defect: the result is computed without another look at the clock.
ConcludeAnyway == ConcludeIf(TRUE, HighDelta - LowDelta > Threshold)

\* Defect: the deltas are compared with >=.
ConcludeAtLeast == ConcludeIf(~TimedOut, HighDelta - LowDelta >= Threshold)

Conclude == ConcludeIf(~TimedOut, HighDelta - LowDelta > Threshold)

\* receive_packet fails, and the thread returns without a result.
ReceiveFails ==
    /\ Faults
    /\ rpc = "recv"
    /\ rpc' = "ended"
    /\ UNCHANGED <<now, pathVars, mainVars,
                   tail, high_e_train, stamp, beg, curr, result>>

-----------------------------------------------------------------------------
(***************************************************************************)
(* The network and the clock.                                              *)
(***************************************************************************)
InTurn(p) == \A q \in flight : Rank[p.rst] <= Rank[q.rst]

Arrive(p) ==
    /\ Reorders \/ InTurn(p)
    /\ flight' = flight \ {p}
    /\ rawbuf' = Append(rawbuf, p.rst)
    /\ UNCHANGED lost

Lose(p) ==
    /\ Lossy
    /\ flight' = flight \ {p}
    /\ lost' = TRUE
    /\ UNCHANGED rawbuf

Deliver ==
    /\ \E p \in flight : Arrive(p) \/ Lose(p)
    /\ UNCHANGED <<now, mainVars, threadVars>>

\* Bound: other segments come one at a time.
Chat ==
    /\ Chatty
    /\ mpc \notin {"start", "done", "failed"}
    /\ rawbuf = <<>>
    /\ \E s \in Chatter : rawbuf' = <<s>>
    /\ UNCHANGED <<now, flight, lost, mainVars, threadVars>>

MainReady == mtimer = 0 /\ mpc \in Rsts \cup {"start"}

ThreadReady == \/ rpc \in {"begin", "test", "result"}
               \/ rpc = "recv" /\ rawbuf # <<>>

\* Bound: time passes as long as somebody waits for it, the timeout included.
Awaited ==
    \/ mtimer > 0
    \/ flight # {}
    \/ /\ rpc \in {"begin", "test", "recv"}
       /\ Seconds(now) - Seconds(beg) <= RstTimeout

Tick ==
    /\ Awaited
    /\ \A p \in flight : p.age < MaxDelay
    /\ Prompt => ~MainReady /\ ~ThreadReady
    /\ now' = now + 1
    /\ mtimer' = IF mtimer > 0 THEN mtimer - 1 ELSE 0
    /\ flight' = {[p EXCEPT !.age = @ + 1] : p \in flight}
    /\ UNCHANGED <<rawbuf, lost, mpc, printed, threadVars>>

Main ==
    \/ StartThread
    \/ SendLowHead \/ SendLowTail \/ SendHighHead \/ SendHighTail
    \/ Join

Thread == Begin \/ Test \/ ReceiveOther \/ ReceiveRst \/ Conclude

Finished == mpc \in {"done", "failed"} /\ UNCHANGED vars

Next ==
    \/ Main \/ Thread
    \/ Deliver \/ Chat \/ Tick
    \/ ThreadNotCreated \/ MainFails \/ ReceiveFails
    \/ Finished

Spec == Init /\ [][Next]_vars

\* Both threads are scheduled, the path answers or loses what it carries, time
\* passes, and other segments keep coming if there are any.
Fairness ==
    /\ WF_vars(Main)
    /\ WF_vars(Thread)
    /\ WF_vars(Deliver)
    /\ WF_vars(Chat)
    /\ WF_vars(Tick)

FairSpec == Spec /\ Fairness

-----------------------------------------------------------------------------
\* The code never looks at the ports of a RST: that a head comes before its
\* tail is all it goes by.  Even so, if RSTs keep their order a verdict rests
\* on four timestamps each of which is that of the RST it is taken for, no
\* matter which SYNs and RSTs are lost.
OwnRsts == result \in Verdicts => \A s \in Rsts : stamp[s].rst = s

\* Why: what was timed came before what waits in the buffer, that before what
\* is still on its way, and that before what main will send.
Ahead(a, b) == a \in Rsts /\ b \in Rsts => Rank[a] < Rank[b]
InOrder ==
    /\ \A p, q \in flight : p.rst = q.rst => p = q
    /\ \A p \in flight : Ahead(p.rst, mpc) /\ mpc # "start"
    /\ \A i \in 1..Len(rawbuf) :
         /\ rawbuf[i] # "stranger"
         /\ Ahead(rawbuf[i], mpc) /\ mpc # "start"
         /\ \A p \in flight : Ahead(rawbuf[i], p.rst)
         /\ \A j \in i+1..Len(rawbuf) : Ahead(rawbuf[i], rawbuf[j])
    /\ \A s \in Rsts : Timed(s) =>
         /\ stamp[s].rst # "stranger"
         /\ Ahead(stamp[s].rst, mpc) /\ mpc # "start"
         /\ \A p \in flight : Ahead(stamp[s].rst, p.rst)
         /\ \A i \in 1..Len(rawbuf) : Ahead(stamp[s].rst, rawbuf[i])
         /\ \A t \in Rsts : Timed(t) /\ Rank[s] < Rank[t] =>
               Ahead(stamp[s].rst, stamp[t].rst)

\* The loop is entered and left, and a result is there, as it should.
LoopExit ==
    /\ rpc = "recv" => ~TimedOut
    /\ rpc = "result" => (TimedOut <=> ~Timed("high_tail"))
    /\ result # "none" => rpc = "ended"
    /\ rpc = "ended" /\ result = "none" => Faults
    /\ mpc = "done" => rpc = "ended"
    /\ printed # "none" => mpc = "done"
    /\ result \in Verdicts <=> result # "none" /\ Timed("high_tail")

\* The timeout is reset by every RST, so it has to outlast the pause or one
\* train, not the whole measurement; then, if nothing is lost, the information
\* is never called insufficient, though the clock drops all microseconds.
Patience ==
    /\ InterTime + MaxDelay <= RstTimeout * Second
    /\ MaxTrain + MaxDelay <= RstTimeout * Second
NoFalseFailure == Patience /\ ~lost => result # Insufficient

\* Sending that takes up to MaxTrain and round trips that vary by MaxDelay are
\* not mistaken for compression if the threshold allows for both, though the
\* instants are cut to milliseconds before they are subtracted.
NoFalseDetection ==
    MaxTrain + MaxDelay <= Threshold * Milli => result # Detected

\* The program answers: with a verdict, or that it cannot tell.
Answers == <>(printed \in Verdicts \cup {Insufficient})

-----------------------------------------------------------------------------
(***************************************************************************)
(* The standalone application is a detector, which may give up.            *)
(***************************************************************************)
Stage ==
    IF printed # "none" THEN "shown"
    ELSE IF result # "none" THEN "decided"
    ELSE IF rpc = "off" THEN "idle"
    ELSE IF Timed("high_tail") THEN "measured"
    ELSE IF high_e_train THEN "high"
    ELSE "low"

Detector == INSTANCE Detection
                WITH Results <- Verdicts, Failures <- {Insufficient},
                     stage <- Stage, shown <- printed

\* Whatever RSTs come, in whatever order and whosever they are: the thread
\* decides from uninitialised timestamps in no case, gives up in no case once
\* it has four, and main shows what the thread decided.
ImplementsDetector == Detector!Spec

=============================================================================
