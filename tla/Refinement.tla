----------------------------- MODULE Refinement ------------------------------
(***************************************************************************)
(* Why one run of the client against one run of the server is a detector,  *)
(* however slow either program is and whatever the path does: the          *)
(* inductive invariant behind ImplementsDetector.                          *)
(*                                                                         *)
(* Both connections of the client arrive at the same listening port.  What *)
(* keeps a verdict from being answered with silence is the accept queue:   *)
(* it is FIFO, so pre_probing always takes the client's first connection,  *)
(* and a second one that came too early is reset rather than accepted.     *)
(***************************************************************************)
EXTENDS Cooperative

OneMeasurement == MaxRuns = 1 /\ MaxBoots = 1 /\ Faults = FALSE

Question == <<1, "pre">>
Answer   == <<1, "post">>

\* Before the server listens nothing has happened, and it is started once.
Fresh ==
    /\ sboot = 0 <=> spc = "off"
    /\ spc \in {"off", "listen1"} => cpc = "idle" /\ backlog = <<>>
    /\ spc = "off" => verdict = "none"

\* The first accept() finds the connection that carries the configuration.
QuestionFirst ==
    spc = "accept1" =>
        IF backlog = <<>>
        THEN cpc \in {"idle", "connect1", "failed"}
        ELSE Head(backlog) = Question

\* The server holds at most one accepted connection, while it uses it.
OneAccepted ==
    /\ \A c, d \in ConnIds : Accepted(c) /\ Accepted(d) => c = d
    /\ \A c \in ConnIds : Accepted(c) => spc \in {"recv", "parse", "send", "close"}
    /\ Accepted(Answer) => spc \in {"send", "close"}

\* The second connection carries the verdict, or ends with a reset: it is
\* never closed in an orderly way without one.
AnswerIsVerdict ==
    /\ conns[Answer].toClient # <<>> =>
         spc \in {"close", "done"} /\ conns[Answer].toClient[1].text = verdict
    /\ Accepted(Answer) /\ spc = "close" => conns[Answer].toClient # <<>>
    /\ conns[Answer].server = "closed" => conns[Answer].toClient # <<>>

\* What the user has read is what the server decided.
PrintedIsVerdict ==
    printed # <<>> => /\ cpc = "done"
                      /\ spc \in {"close", "done"}
                      /\ printed[1].text = verdict

\* The two programs understand each other: the inductive invariant of the
\* refinement.
Understood ==
    /\ Fresh
    /\ QuestionFirst
    /\ OneAccepted
    /\ AnswerIsVerdict
    /\ PrintedIsVerdict

=============================================================================
