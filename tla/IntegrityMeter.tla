----------------------------- MODULE IntegrityMeter -----------------------------
(***************************************************************************)
(* What the integrity penalty of a session promises: violations come one   *)
(* at a time and add their points, whatever the candidate does no point is *)
(* taken back, and the violation that brings them to 40 is the last.       *)
(* WarningManager implements it: streaks, cooldowns, the rule of the three *)
(* severe violations and the restarts of the process show nowhere in it.   *)
(***************************************************************************)
EXTENDS Naturals

VARIABLES
    weight,  \* the points of all violations
    locked   \* the session is over

\* SEVERITY_PENALTIES
Weights == {2, 5, 15, 30}

Init == weight = 0 /\ locked = FALSE

Add(points) ==
    /\ ~locked
    /\ weight' = weight + points
    /\ locked' = (weight' >= 40)

Next == \E points \in Weights : Add(points)

Spec == Init /\ [][Next]_<<weight, locked>>
=============================================================================
