-------------------------- MODULE RequirementSync --------------------------
(***************************************************************************)
(* Routing's consumer of one service plan's integration events.            *)
(*                                                                         *)
(* ServicePlanPublishedHandler upserts one collection requirement per      *)
(* schedule of the payload, in the payload's order, inside its caller's    *)
(* transaction: a SELECT by origin, then an UPDATE guarded by the version  *)
(* read, or an INSERT that the unit of work holds back until COMMIT        *)
(* (autoflush is off) and the unique constraint on the origin may refuse.  *)
(* Events arrive at least once and deliveries run concurrently, at READ    *)
(* COMMITTED; an updated row stays locked until its transaction ends.      *)
(***************************************************************************)
EXTENDS Naturals, Sequences

CONSTANTS
    Sessions,       \* database sessions of the consumers
    Items,          \* schedule ids, the origin_item_id of requirements
    Details,        \* location, quantity and recurrence of a schedule
    Off,            \* a schedule that is paused, removed or not planned
    Unusable,       \* an active one the handler raises on: BIWEEKLY, no latitude
    Ids,            \* ids of requirement rows
    None,
    Published,      \* ServicePlanPublished events of the plan
    Payload,        \* the schedules of each of them
    Suspended,      \* ServicePlanSuspended events of the plan
    MaxFailures,    \* bound on crashes and lost connections
    MaxDuplicates   \* bound on deliveries beyond the one owed

Events == Published \cup Suspended
Wants == Details \cup {Off, Unusable}

ASSUME WantsAssumption ==
    Off \notin Details /\ Unusable \notin Details /\ Off # Unusable
ASSUME EventsAssumption == Published \cap Suspended = {}
\* A payload has an entry for every schedule of its plan, thus one for each.
ASSUME PayloadAssumption ==
    /\ Payload \in [Published -> Seq([item : Items, want : Wants])]
    /\ \A e \in Published : \A m, n \in DOMAIN Payload[e] :
          Payload[e][m].item = Payload[e][n].item => m = n
ASSUME BoundsAssumption == MaxFailures \in Nat /\ MaxDuplicates \in Nat

Row == [id : Ids, item : Items, details : Details, active : BOOLEAN,
        version : Nat]
NoRow == [id |-> None]

ASSUME NoneAssumption == None \notin Events \cup Ids \cup Row \cup {NoRow}

VARIABLES
    rows,       \* committed requirement rows of the plan
    owed,       \* events still to be handled, or to be retried
    handled,    \* events some delivery of which was committed
    event,      \* the event each session is handling
    todo,       \* what remains of its payload
    found,      \* the row the session read for the head of todo
    updates,    \* rows the session has updated and keeps locked
    inserts,    \* rows the unit of work will insert at COMMIT
    disturbed,  \* sessions during whose delivery another one was committed
    budget      \* how many failures and duplicate deliveries are left

vars == <<rows, owed, handled, event, todo, found, updates, inserts, disturbed,
          budget>>

Init ==
    /\ rows = {}
    /\ owed = {}
    /\ handled = {}
    /\ event = [s \in Sessions |-> None]
    /\ todo = [s \in Sessions |-> <<>>]
    /\ found = [s \in Sessions |-> None]
    /\ updates = [s \in Sessions |-> {}]
    /\ inserts = [s \in Sessions |-> {}]
    /\ disturbed = {}
    /\ budget = [failures |-> MaxFailures, duplicates |-> MaxDuplicates]

Busy(s) == event[s] # None

\* The transaction ends and with it the session's view and its locks.
End(s) ==
    /\ event' = [event EXCEPT ![s] = None]
    /\ todo' = [todo EXCEPT ![s] = <<>>]
    /\ found' = [found EXCEPT ![s] = None]
    /\ updates' = [updates EXCEPT ![s] = {}]
    /\ inserts' = [inserts EXCEPT ![s] = {}]

Rollback(s) ==
    /\ End(s)
    /\ disturbed' = disturbed \ {s}
    /\ UNCHANGED <<rows, owed, handled>>

-----------------------------------------------------------------------------
(* Deliveries. *)

\* Service Plan emits an event.
Emit(e) ==
    /\ e \notin owed \cup handled
    /\ owed' = owed \cup {e}
    /\ UNCHANGED <<rows, handled, event, todo, found, updates, inserts,
                   disturbed, budget>>

Schedules(e) == IF e \in Published THEN Payload[e] ELSE <<>>

\* handle(): a suspension reads the active requirements and leaves them alone.
Begin(s, e) ==
    /\ ~Busy(s)
    /\ event' = [event EXCEPT ![s] = e]
    /\ todo' = [todo EXCEPT ![s] = Schedules(e)]
    /\ UNCHANGED <<rows, owed, handled, found, updates, inserts, disturbed>>

Deliver(s, e) ==
    /\ e \in owed
    /\ \A t \in Sessions : event[t] # e
    /\ Begin(s, e)
    /\ UNCHANGED budget

Redeliver(s, e) ==
    /\ e \in handled \/ \E t \in Sessions : event[t] = e
    /\ budget.duplicates > 0
    /\ budget' = [budget EXCEPT !.duplicates = @ - 1]
    /\ Begin(s, e)

-----------------------------------------------------------------------------
(* One schedule of the payload. *)

\* get_by_origin(): the committed row of the schedule, if there is one.
GetByOrigin(s) ==
    /\ todo[s] # <<>>
    /\ found[s] = None
    /\ \/ \E row \in rows :
             /\ row.item = Head(todo[s]).item
             /\ found' = [found EXCEPT ![s] = row]
       \/ /\ \A row \in rows : row.item # Head(todo[s]).item
          /\ found' = [found EXCEPT ![s] = NoRow]
    /\ UNCHANGED <<rows, owed, handled, event, todo, updates, inserts,
                   disturbed, budget>>

\* The schedule is dealt with; the loop goes on with the next.
Proceed(s) ==
    /\ todo' = [todo EXCEPT ![s] = Tail(@)]
    /\ found' = [found EXCEPT ![s] = None]
    /\ UNCHANGED <<rows, owed, handled, event, disturbed, budget>>

\* uuid4(): an id that no row has.  The number of Ids bounds the rows.
FreshIds == {id \in Ids :
    /\ \A row \in rows : row.id # id
    /\ \A s \in Sessions : \A row \in inserts[s] : row.id # id}

\* CollectionRequirement.create() and save(): the row waits for COMMIT.
Insert(s) ==
    /\ found[s] = NoRow
    /\ Head(todo[s]).want \in Details
    /\ FreshIds # {}
    /\ inserts' = [inserts EXCEPT ![s] = @ \cup
          {[id |-> CHOOSE id \in FreshIds : TRUE, item |-> Head(todo[s]).item,
            details |-> Head(todo[s]).want, active |-> TRUE, version |-> 1]}]
    /\ Proceed(s)
    /\ UNCHANGED updates

\* Mutant of Skip: a schedule that is off is skipped even if it has a row.
SkipOff(s) ==
    /\ found[s] # None
    /\ Head(todo[s]).want = Off
    /\ Proceed(s)
    /\ UNCHANGED <<updates, inserts>>

\* Nothing to create and nothing to deactivate.
Skip(s) ==
    /\ found[s] = NoRow
    /\ Head(todo[s]).want = Off
    /\ Proceed(s)
    /\ UNCHANGED <<updates, inserts>>

\* update_details() and status = ACTIVE.
Activated(row, details) ==
    [row EXCEPT !.details = details, !.active = TRUE, !.version = @ + 1]

\* deactivate(): only a change of status takes a new version.
Deactivated(row) ==
    IF row.active THEN [row EXCEPT !.active = FALSE, !.version = @ + 1] ELSE row

\* Session s cannot update before session t ends.
WaitsFor(s, t) ==
    /\ t # s
    /\ found[s] \in Row
    /\ \E other \in updates[t] : other.id = found[s].id

\* Mutant of Unchanged: an UPDATE guarded by the id alone.
StillThere(row) == \E current \in rows : current.id = row.id

\* The UPDATE's WHERE clause: no newer version has been committed.
Unchanged(row) ==
    \E current \in rows : current.id = row.id /\ current.version = row.version

\* Mutant of Update: the recurrence is stored without being parsed.
UpdateUnparsed(s) ==
    /\ found[s] \in Row
    /\ \A t \in Sessions : ~WaitsFor(s, t)
    /\ Unchanged(found[s])
    /\ updates' = [updates EXCEPT ![s] = @ \cup
          {IF Head(todo[s]).want = Off
           THEN Deactivated(found[s])
           ELSE Activated(found[s], Head(todo[s]).want)}]
    /\ Proceed(s)
    /\ UNCHANGED inserts

\* save() of an existing requirement; the UPDATE waits for a locked row.
Update(s) ==
    /\ found[s] \in Row
    /\ Head(todo[s]).want \in Details \cup {Off}
    /\ \A t \in Sessions : ~WaitsFor(s, t)
    /\ Unchanged(found[s])
    /\ updates' = [updates EXCEPT ![s] = @ \cup
          {IF Head(todo[s]).want = Off
           THEN Deactivated(found[s])
           ELSE Activated(found[s], Head(todo[s]).want)}]
    /\ Proceed(s)
    /\ UNCHANGED inserts

\* The database aborts one of a set of sessions that wait for one another.
DeadlockVictim(s) ==
    /\ \E D \in SUBSET Sessions :
          s \in D /\ \A t \in D : \E u \in D : WaitsFor(t, u)
    /\ Rollback(s)
    /\ UNCHANGED budget

\* rowcount 0: OptimisticLockError ends the delivery, the event is still owed.
LockConflict(s) ==
    /\ found[s] \in Row
    /\ Head(todo[s]).want \in Details \cup {Off}
    /\ \A t \in Sessions : ~WaitsFor(s, t)
    /\ ~Unchanged(found[s])
    /\ Rollback(s)
    /\ UNCHANGED budget

\* Mutant of Reject: the loop goes on after a schedule that raises.
RejectSkipping(s) ==
    /\ found[s] # None
    /\ Head(todo[s]).want = Unusable
    /\ Proceed(s)
    /\ UNCHANGED <<updates, inserts>>

\* Frequency("BIWEEKLY") or a missing latitude raises, and the transaction
\* with the schedules before this one is rolled back.
Reject(s) ==
    /\ found[s] # None
    /\ Head(todo[s]).want = Unusable
    /\ Rollback(s)
    /\ UNCHANGED budget

-----------------------------------------------------------------------------
(* The end of the transaction. *)

\* Mutant of OriginsFree: the table has no unique constraint.
NoConstraint(s) == inserts[s] \subseteq Row

\* The unique constraint on (tenant, plan, schedule).
OriginsFree(s) == \A new \in inserts[s], row \in rows : row.item # new.item

Ready(s) == Busy(s) /\ todo[s] = <<>>

Commit(s) ==
    /\ Ready(s)
    /\ OriginsFree(s)
    /\ rows' = {row \in rows : \A new \in updates[s] : new.id # row.id}
                 \cup updates[s] \cup inserts[s]
    /\ owed' = owed \ {event[s]}
    /\ handled' = handled \cup {event[s]}
    /\ disturbed' = (disturbed \cup {t \in Sessions : Busy(t)}) \ {s}
    /\ End(s)
    /\ UNCHANGED budget

\* IntegrityError at the flush: everything is rolled back, the event is owed.
InsertConflict(s) ==
    /\ Ready(s)
    /\ ~OriginsFree(s)
    /\ Rollback(s)
    /\ UNCHANGED budget

\* A crash or a lost connection.
Fail(s) ==
    /\ Busy(s)
    /\ budget.failures > 0
    /\ budget' = [budget EXCEPT !.failures = @ - 1]
    /\ Rollback(s)

Step(s) ==
    \/ GetByOrigin(s)
    \/ Insert(s)
    \/ Skip(s)
    \/ Update(s)
    \/ LockConflict(s)
    \/ DeadlockVictim(s)
    \/ Reject(s)
    \/ Commit(s)
    \/ InsertConflict(s)

Next ==
    \/ \E e \in Events : Emit(e)
    \/ \E s \in Sessions, e \in Events : Deliver(s, e)
    \/ \E s \in Sessions, e \in Events : Redeliver(s, e)
    \/ \E s \in Sessions : Step(s)
    \/ \E s \in Sessions : Fail(s)

Spec == Init /\ [][Next]_vars

-----------------------------------------------------------------------------
(* Properties. *)

\* Rows are well formed, read rows and pending writes are rows.
TypeOK ==
    /\ rows \subseteq Row
    /\ owed \subseteq Events /\ handled \subseteq Events
    /\ event \in [Sessions -> Events \cup {None}]
    /\ todo \in [Sessions -> Seq([item : Items, want : Wants])]
    /\ found \in [Sessions -> Row \cup {NoRow, None}]
    /\ updates \in [Sessions -> SUBSET Row]
    /\ inserts \in [Sessions -> SUBSET Row]
    /\ disturbed \subseteq Sessions
    /\ budget \in [failures : Nat, duplicates : Nat]

\* "duplicate deliveries of the event won't result in duplicated logistics
\* requirements" (the handler's docstring), though two of them may both find
\* no row before either inserts one.
OnePerOrigin ==
    \A a, b \in rows : a.item = b.item => a = b

\* The table says of a schedule what the payload's entry for it wants.
Applied(wanted, table) ==
    LET live == {row \in table : row.item = wanted.item /\ row.active}
    IN  IF wanted.want = Off
        THEN live = {}
        ELSE \E row \in live : row.details = wanted.want

\* The rows are what the event prescribes for each of its schedules.
Reflects(e, table) == \A n \in DOMAIN Payload[e] : Applied(Payload[e][n], table)

\* While only one publication has been committed, by however many deliveries
\* racing with each other and with others that failed, the table says exactly
\* what it says: no half of a payload, no trace of a delivery rolled back.
SoleEventReflected ==
    \A e \in Published : handled \subseteq {e} \cup Suspended =>
        IF e \in handled THEN Reflects(e, rows) ELSE rows = {}

\* No lost update: a row changes only by one version at a time and keeps its
\* identity, so no delivery overwrites what it has not read.
RowStep ==
    \A old \in rows : \E new \in rows' :
        /\ new.id = old.id /\ new.item = old.item
        /\ new = old \/ new.version = old.version + 1

UpdatesFollowVersions == [][RowStep]_vars

\* Session s has gone through the whole payload and ended its transaction,
\* neither crashing nor with anything committed beside it.
RanAlone(s) ==
    /\ Ready(s) /\ event'[s] = None
    /\ budget' = budget
    /\ s \notin disturbed

\* A delivery that runs alone is committed and leaves the table as its event
\* prescribes, over whatever earlier deliveries left there.
LoneDeliveryStep ==
    \A s \in Sessions :
        event[s] \in Published /\ RanAlone(s) => Reflects(event[s], rows')

\* LoneDeliveryStep, of every step.
LoneDeliveryApplies == [][LoneDeliveryStep]_vars

Upsert == INSTANCE AtomicUpsert

\* However deliveries interleave, conflict, deadlock and fail, the table moves
\* as if each committed one were a single step over the rows of that moment:
\* nothing it read earlier is written over what others committed since.
AppliesAtomically == Upsert!Spec

=============================================================================
