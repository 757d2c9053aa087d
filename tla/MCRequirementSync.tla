------------------------- MODULE MCRequirementSync -------------------------
(* Instance of RequirementSync for TLC: a plan with two schedules.  Two      *)
(* publications name them in opposite order and disagree on both, a third   *)
(* one names a schedule Routing cannot handle after one it can.              *)
EXTENDS RequirementSync

CONSTANTS s1, s2, i1, i2, d1, d2, off, unusable, r1, r2, r3, r4,
          first, second, biweekly, suspension

MCSessions == {s1, s2}
MCItems == {i1, i2}
MCDetails == {d1, d2}
MCIds == {r1, r2, r3, r4}
MCPublished == {first, second, biweekly}
MCSuspended == {suspension}

MCPayload ==
    [e \in MCPublished |->
        CASE e = first -> <<[item |-> i1, want |-> d1], [item |-> i2, want |-> off]>>
          [] e = second -> <<[item |-> i2, want |-> d2], [item |-> i1, want |-> off]>>
          [] e = biweekly -> <<[item |-> i1, want |-> d2],
                               [item |-> i2, want |-> unusable]>>]

=============================================================================
