------------------------------ MODULE Detection ------------------------------
(***************************************************************************)
(* What a compression detector promises, whatever it is built from: it     *)
(* measures the low entropy train, then the high entropy train, then       *)
(* decides once, and shows the user exactly what it decided.  It may give  *)
(* up before it has measured both, if it says so.                          *)
(***************************************************************************)
CONSTANTS
    Results,       \* what it may decide; "none" is not one of them
    Failures       \* what it may say when it cannot measure

VARIABLES
    stage,         \* "idle", "low", "high", "measured", "decided", "shown"
    result,        \* the decision, "none" before it is taken
    shown          \* what the user has been told, "none" before that

vars == <<stage, result, shown>>

Init ==
    /\ stage = "idle"
    /\ result = "none"
    /\ shown = "none"

Start ==
    /\ stage = "idle"
    /\ stage' = "low"
    /\ UNCHANGED <<result, shown>>

MeasureLow ==
    /\ stage = "low"
    /\ stage' = "high"
    /\ UNCHANGED <<result, shown>>

MeasureHigh ==
    /\ stage = "high"
    /\ stage' = "measured"
    /\ UNCHANGED <<result, shown>>

Decide ==
    /\ stage = "measured"
    /\ stage' = "decided"
    /\ result' \in Results
    /\ UNCHANGED shown

\* Only a measurement that is not complete may be given up.
GiveUp ==
    /\ stage \in {"low", "high"}
    /\ stage' = "decided"
    /\ result' \in Failures
    /\ UNCHANGED shown

Show ==
    /\ stage = "decided"
    /\ stage' = "shown"
    /\ shown' = result
    /\ UNCHANGED result

Next == Start \/ MeasureLow \/ MeasureHigh \/ Decide \/ GiveUp \/ Show

Spec == Init /\ [][Next]_vars

\* Once started, a measurement runs to its end.
LiveSpec ==
    /\ Spec
    /\ WF_vars(MeasureLow)
    /\ WF_vars(MeasureHigh)
    /\ WF_vars(Decide)
    /\ WF_vars(Show)

=============================================================================
