------------------------------ MODULE MCOutbox ------------------------------
(* Instance of Outbox for TLC: two workers, three events, batches of two: a *)
(* poll can leave an event behind, and two workers can both find work.      *)
EXTENDS Outbox

CONSTANTS w1, w2, e1, e2, e3

MCWorkers == {w1, w2}
MCEvents == {e1, e2, e3}

\* Enough for the scenarios that need only one event.
OneEvent == {e1}

=============================================================================
