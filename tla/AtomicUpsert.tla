---------------------------- MODULE AtomicUpsert ----------------------------
(***************************************************************************)
(* What Routing promises about its collection requirements: a publication  *)
(* is applied in one step, over the rows as they stand in that step, and   *)
(* once again each time it is delivered again; or it is not applied at     *)
(* all, and stays owed.  Whatever runs beside it can make it do but one    *)
(* thing less: leave a schedule alone that it should switch off.           *)
(***************************************************************************)
EXTENDS Naturals, Sequences

CONSTANTS
    Details,        \* what a publication can want of a schedule
    Off,            \* a schedule it does not want
    Ids,            \* ids of rows
    Published,      \* publications
    Payload,        \* the schedules of each of them
    Suspended       \* events that change no row

VARIABLES
    rows,           \* requirement rows
    owed,           \* events still to be applied
    handled         \* events applied at least once

vars == <<rows, owed, handled>>

Init == rows = {} /\ owed = {} /\ handled = {}

Accept(e) ==
    /\ e \notin owed \cup handled
    /\ owed' = owed \cup {e}
    /\ UNCHANGED <<rows, handled>>

\* The rows of one schedule.
Of(item, table) == {row \in table : row.item = item}

Created(id, wanted) ==
    [id |-> id, item |-> wanted.item, details |-> wanted.want, active |-> TRUE,
     version |-> 1]

\* Each change of a row is one new version of it.
Revised(row, want) ==
    CASE want # Off -> [row EXCEPT !.details = want, !.active = TRUE,
                                   !.version = @ + 1]
      [] want = Off /\ row.active -> [row EXCEPT !.active = FALSE,
                                                 !.version = @ + 1]
      [] want = Off /\ ~row.active -> row

\* What a publication makes of the rows of a schedule it names.  There is no
\* case for a schedule that Routing cannot use: a publication that names one
\* is never applied.
Upserted(wanted, before, after) ==
    \/ /\ wanted.want \in Details /\ before = {}
       /\ \E id \in Ids : after = {Created(id, wanted)}
    \/ /\ wanted.want \in Details \cup {Off}
       /\ \E row \in before : before = {row} /\ after = {Revised(row, wanted.want)}
    \/ wanted.want = Off /\ after = before

Named(e, item) == \E n \in DOMAIN Payload[e] : Payload[e][n].item = item

Apply(e) ==
    /\ e \in Published
    /\ \A n \in DOMAIN Payload[e] :
          LET wanted == Payload[e][n]
          IN  Upserted(wanted, Of(wanted.item, rows), Of(wanted.item, rows'))
    /\ \A row \in (rows \ rows') \cup (rows' \ rows) : Named(e, row.item)
    /\ \A a, b \in rows' : a.id = b.id => a = b

Handle(e) ==
    /\ e \in owed \cup handled
    /\ Apply(e) \/ (e \in Suspended /\ UNCHANGED rows)
    /\ owed' = owed \ {e}
    /\ handled' = handled \cup {e}

Next == \E e \in Published \cup Suspended : Accept(e) \/ Handle(e)

Spec == Init /\ [][Next]_vars

=============================================================================
