--------------------------- MODULE MCServicePlan ---------------------------
(* Instance of ServicePlan for TLC: a contract of up to two items, edited   *)
(* by operators who fill in a schedule in one batch, only its place, or     *)
(* blank its address again.                                                 *)
EXTENDS ServicePlan, TLC

CONSTANTS s1, s2, i1, i2, gate, blank, weekly, none

MCSessions == {s1, s2}
MCSchedules == {i1, i2}
MCPoints == {gate, blank}
MCRecurrences == {weekly}

\* What an operator may send for one schedule.
Whole == [point |-> gate, recurrence |-> weekly]
OnlyPlace == [point |-> gate, recurrence |-> none]
Blanked == [point |-> blank, recurrence |-> none]

MCPayloads ==
    {i1 :> Whole, i2 :> Whole, i1 :> OnlyPlace, i1 :> Blanked,
     (i1 :> Blanked) @@ (i2 :> Whole)}

=============================================================================
