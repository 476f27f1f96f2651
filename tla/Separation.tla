----------------------------- MODULE Separation ------------------------------
(***************************************************************************)
(* Why the first receiving loop never counts a datagram of the second      *)
(* train, when udp_timeout obeys the README's rule and the client runs     *)
(* once: the inductive invariant behind NoHighInLow.  Nothing is assumed   *)
(* about losses, duplicates, failures or restarts of the server.           *)
(*                                                                         *)
(* The argument has two halves.  The configuration reaches the server      *)
(* before time passes (Handshake), so the receiving loop is never entered  *)
(* late.  Once in the loop, the timeout is restarted at the last by the    *)
(* last low datagram, MaxDelay after it was sent, and so has expired       *)
(* before the client wakes up (Timing).                                    *)
(***************************************************************************)
EXTENDS Cooperative

\* One run of the client, and processes that run when they can.
Single == MaxRuns = 1 /\ Prompt

OneRun == Single /\ TimeoutRule

First == <<1, "pre">>

AtFirst(states) == conns[First].server \in states

\* Between sending the configuration and the next tick, or after a failure.
Early ==
    \/ cpc \in {"send", "close", "failed"}
    \/ cpc = "low" /\ ctimer = Second

\* The server has parsed the configuration and will bind its UDP socket.
Preparing == spc \in {"parse", "bind"} /\ sess # 0

Listening ==
    listening => spc \in {"accept1", "recv", "parse", "accept2", "send", "close"}

\* Before the client has connected there is nothing to probe.
Untouched ==
    cpc \in {"idle", "connect1"} =>
        /\ \A c \in ConnIds : conns[c].server = "none" /\ conns[c].client = "none"
        /\ spc \in {"off", "listen1", "accept1", "failed"}
        /\ backlog = <<>>
        /\ flight = {}
        /\ sockbuf = <<>>

\* The configuration is sent on the first connection only, which waits for
\* accept() or is being read, and not for long.
FirstConnection ==
    /\ \A c \in ConnIds : conns[c].toServer # <<>> => c = First
    /\ \A i \in 1..Len(backlog) : backlog[i] = First => AtFirst({"queued"})
    /\ AtFirst({"queued"}) => spc = "accept1" /\ backlog = <<First>> /\ Early
    /\ AtFirst({"accepted"}) => spc \in {"recv", "parse"} /\ Early
    /\ Preparing => Early /\ ~AtFirst({"none", "queued"})

\* The client's end of it.
FirstClient ==
    /\ cpc \notin {"idle", "connect1", "failed"} => ~AtFirst({"none"})
    /\ ~AtFirst({"none"}) => conns[First].client =
         IF cpc \in {"send", "close"} THEN "open" ELSE "closed"
    /\ cpc \in {"send", "close"} => ctimer = 0

Handshake == Listening /\ Untouched /\ FirstConnection /\ FirstClient

\* While the client sleeps between the trains, the timeout of the first loop
\* runs out: after InterTime - ctimer ticks of sleep every low datagram still
\* in flight is that old, and the timeout was last restarted within MaxDelay.
Asleep == cpc = "high" /\ ci = 0

Timing ==
    /\ spc = "low" => stimer <= UdpTimeout
    /\ Asleep => /\ ctimer <= InterTime
                 /\ \A p \in flight : InterTime - ctimer <= p.age
    /\ Asleep /\ spc = "low" =>
         /\ sockbuf # <<>> => InterTime - ctimer <= MaxDelay
         /\ stimer + (InterTime - ctimer) <= UdpTimeout + MaxDelay

\* The first loop is over and no other will be started.
Past == AtFirst({"closed", "reset"}) /\ ~Preparing /\ spc # "low"

\* From the first high datagram on the first loop is over.
HighAbroad ==
    \/ cpc = "high" /\ ci > 0
    \/ \E p \in flight : p.train = "high"
    \/ \E i \in 1..Len(sockbuf) : sockbuf[i].train = "high"

HighIsLate == HighAbroad => Past

\* The trains are separated: the inductive invariant of NoHighInLow.
Separated ==
    /\ Handshake
    /\ Timing
    /\ HighIsLate
    /\ NoHighInLow

=============================================================================
