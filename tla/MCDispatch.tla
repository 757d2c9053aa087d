----------------------------- MODULE MCDispatch -----------------------------
(* Two orders, three requests.                                             *)
EXTENDS Dispatch, TLC
CONSTANTS o1, o2, r1, r2, r3, none
TwoOrders == {o1, o2}
ThreeRequests == {r1, r2, r3}
Symmetric == Permutations(TwoOrders) \cup Permutations(ThreeRequests)
=============================================================================
