---------------------------- MODULE AtLeastOnce ----------------------------
(***************************************************************************)
(* What a transactional outbox promises to the code that stores events in  *)
(* it: an accepted event stays open until it is completed or given up; it  *)
(* is completed only after a handler took it; handlers may see an event    *)
(* more than once, but never an event that is not open.                    *)
(***************************************************************************)
CONSTANT Events

VARIABLES
    open,       \* accepted and still to be delivered
    done,       \* completed
    dead,       \* given up
    delivered   \* taken successfully by a handler at least once

vars == <<open, done, dead, delivered>>

Init == open = {} /\ done = {} /\ dead = {} /\ delivered = {}

Accept(batch) ==
    /\ batch \cap (open \cup done \cup dead) = {}
    /\ open' = open \cup batch
    /\ UNCHANGED <<done, dead, delivered>>

Deliver(e) ==
    /\ e \in open
    /\ delivered' = delivered \cup {e}
    /\ UNCHANGED <<open, done, dead>>

Complete(e) ==
    /\ e \in open \cap delivered
    /\ open' = open \ {e}
    /\ done' = done \cup {e}
    /\ UNCHANGED <<dead, delivered>>

GiveUp(e) ==
    /\ e \in open
    /\ open' = open \ {e}
    /\ dead' = dead \cup {e}
    /\ UNCHANGED <<done, delivered>>

Reopen(e) ==
    /\ e \in dead
    /\ open' = open \cup {e}
    /\ dead' = dead \ {e}
    /\ UNCHANGED <<done, delivered>>

Next ==
    \/ \E batch \in SUBSET Events : Accept(batch)
    \/ \E e \in Events : Deliver(e) \/ Complete(e) \/ GiveUp(e) \/ Reopen(e)

Spec == Init /\ [][Next]_vars

=============================================================================
