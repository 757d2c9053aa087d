---------------------------- MODULE ServicePlan ----------------------------
(***************************************************************************)
(* One service plan of the Service Plan bounded context and the database   *)
(* sessions that work on it concurrently.                                  *)
(*                                                                         *)
(* A request loads the plan row, then (selectin loading, a second SELECT)  *)
(* its schedules, runs one method of the aggregate on that copy, and saves *)
(* it: UPDATE ... WHERE version = _original_version, DELETE of all the     *)
(* schedules, INSERT of the copy's schedules, COMMIT.  The UPDATE takes    *)
(* the row lock and keeps it until COMMIT, and a competing UPDATE waits    *)
(* and re-evaluates its WHERE clause, so the save is one step here; the    *)
(* loads are not.                                                          *)
(***************************************************************************)
EXTENDS Naturals

CONSTANTS
    Sessions,       \* database sessions, one per request in flight
    Schedules,      \* identities of the schedules a contract may give rise to
    Points,         \* collection points an operator can enter
    BlankPoint,     \* the collection point whose address is blank
    Recurrences,    \* recurrence rules an operator can enter
    None,           \* Python's None: a field not filled in, a key not sent
    Payloads,       \* bodies of update_schedules() that operators send
    MaxVersion      \* bound on the version column

ASSUME PointsAssumption == BlankPoint \in Points /\ None \notin Points
ASSUME RecurrencesAssumption == None \notin Recurrences
ASSUME MaxVersionAssumption == MaxVersion \in Nat

PlanStatus == {"DRAFT", "ACTIVE", "SUSPENDED", "TERMINATED"}
ScheduleStatus == {"ACTIVE", "PAUSED", "REMOVED"}

Schedule == [point : Points \cup {None},
             recurrence : Recurrences \cup {None},
             status : ScheduleStatus]

ScheduleSets == UNION {[S -> Schedule] : S \in SUBSET Schedules}

\* What update_schedules() may receive for one schedule: None leaves the field.
Edit == [point : Points \cup {None}, recurrence : Recurrences \cup {None}]

ASSUME PayloadsAssumption ==
    Payloads \subseteq UNION {[S -> Edit] : S \in SUBSET Schedules}

VARIABLES
    status,     \* the plan row; "ABSENT" before create_from_contract()
    version,
    schedules,  \* the schedule rows, by schedule id
    outbox,     \* statuses announced by integration events stored in the outbox
    pc,         \* where each session is in its request
    row,        \* the plan row each session has loaded
    copy        \* the schedules each session has loaded

plan == <<status, version, schedules>>
vars == <<status, version, schedules, outbox, pc, row, copy>>

NoRow == [status |-> "ABSENT", version |-> 0]
NoSchedules == [i \in {} |-> None]

Init ==
    /\ status = "ABSENT"
    /\ version = 0
    /\ schedules = NoSchedules
    /\ outbox = {}
    /\ pc = [s \in Sessions |-> "idle"]
    /\ row = [s \in Sessions |-> NoRow]
    /\ copy = [s \in Sessions |-> NoSchedules]

-----------------------------------------------------------------------------
(* The aggregate: pure operators on a copy of the plan's schedules. *)

BlankSchedule == [point |-> None, recurrence |-> None, status |-> "ACTIVE"]

\* The operator has filled in where and how often.
Planned(schedule) ==
    /\ schedule.point \notin {None, BlankPoint}
    /\ schedule.recurrence # None

\* Mutant of ReadyForPublish: forgets that an address may be blank.
ReadyWithBlankPoint(schedule) ==
    /\ schedule.status = "ACTIVE"
    /\ schedule.point # None
    /\ schedule.recurrence # None

\* ServiceSchedule.is_ready_for_publish()
ReadyForPublish(schedule) == schedule.status = "ACTIVE" /\ Planned(schedule)

Planning(set) == [i \in DOMAIN set |-> <<set[i].point, set[i].recurrence>>]

Filled(new, old) == IF new = None THEN old ELSE new

\* Mutant of Edited: stores the payload in place of the schedule.
PayloadStored(set, payload) ==
    [i \in DOMAIN set |-> IF i \in DOMAIN payload THEN payload[i] ELSE set[i]]

\* The schedules after the batch edit; the payload names only known schedules.
Edited(set, payload) ==
    [i \in DOMAIN set |->
        IF i \in DOMAIN payload
        THEN [set[i] EXCEPT
                !.point = Filled(payload[i].point, @),
                !.recurrence = Filled(payload[i].recurrence, @)]
        ELSE set[i]]

-----------------------------------------------------------------------------
(* Requests: loading, failing, saving. *)

\* create_from_contract(): save() finds no row and INSERTs plan and schedules.
Create ==
    /\ status = "ABSENT"
    /\ \E items \in SUBSET Schedules :
          schedules' = [i \in items |-> BlankSchedule]
    /\ status' = "DRAFT"
    /\ version' = 1
    /\ UNCHANGED <<outbox, pc, row, copy>>

\* session.get(): the first SELECT.  With no row the request ends in
\* ServicePlanNotFoundError and nothing has changed.
LoadRow(s) ==
    /\ pc[s] = "idle"
    /\ status # "ABSENT"
    /\ pc' = [pc EXCEPT ![s] = "row"]
    /\ row' = [row EXCEPT ![s] = [status |-> status, version |-> version]]
    /\ UNCHANGED <<plan, outbox, copy>>

\* The second SELECT, of the schedules, sees whatever is committed by now.
LoadSchedules(s) ==
    /\ pc[s] = "row"
    /\ pc' = [pc EXCEPT ![s] = "loaded"]
    /\ copy' = [copy EXCEPT ![s] = schedules]
    /\ UNCHANGED <<plan, outbox, row>>

\* The request is over and with it the session's copy of the aggregate.
Finish(s) ==
    /\ pc' = [pc EXCEPT ![s] = "idle"]
    /\ row' = [row EXCEPT ![s] = NoRow]
    /\ copy' = [copy EXCEPT ![s] = NoSchedules]

\* A domain error, a lost client or a crash: the transaction is rolled back.
Fail(s) ==
    /\ pc[s] # "idle"
    /\ Finish(s)
    /\ UNCHANGED <<plan, outbox>>

\* Mutant of VersionMatches: an UPDATE without the version in its WHERE clause.
RowExists(s) == row[s].version <= version

\* The UPDATE matches the row only while its version is the one loaded.
VersionMatches(s) == row[s].version = version

\* save() and commit() of the session's copy.
Save(s, newStatus, newVersion, newSchedules) ==
    /\ pc[s] = "loaded"
    /\ VersionMatches(s)
    /\ status' = newStatus
    /\ version' = newVersion
    /\ schedules' = newSchedules
    /\ Finish(s)

\* rowcount 0: OptimisticLockError, the caller is told to refresh and retry.
LockConflict(s) ==
    /\ pc[s] = "loaded"
    /\ ~VersionMatches(s)
    /\ Finish(s)
    /\ UNCHANGED <<plan, outbox>>

\* outbox_repo.save([event]) is a coroutine that publish() and suspend() build
\* and never await: its body does not run and the table keeps what it had.
DiscardedOutboxSave == outbox' = outbox

-----------------------------------------------------------------------------
(* Service commands. *)

\* Mutant of UpdateSchedules: no check that the plan is still a draft.
UpdateSchedulesAnyStatus(s, payload) ==
    /\ DOMAIN payload \subseteq DOMAIN copy[s]
    /\ Save(s, row[s].status, row[s].version, Edited(copy[s], payload))
    /\ UNCHANGED outbox

UpdateSchedules(s, payload) ==
    /\ row[s].status = "DRAFT"
    /\ DOMAIN payload \subseteq DOMAIN copy[s]
    /\ Save(s, row[s].status, row[s].version, Edited(copy[s], payload))
    /\ UNCHANGED outbox

\* Mutant of Publish: the version is not incremented.
PublishKeepingVersion(s) ==
    /\ row[s].status = "DRAFT"
    /\ \E i \in DOMAIN copy[s] : ReadyForPublish(copy[s][i])
    /\ Save(s, "ACTIVE", row[s].version, copy[s])
    /\ DiscardedOutboxSave

Publish(s) ==
    /\ row[s].status = "DRAFT"
    /\ \E i \in DOMAIN copy[s] : ReadyForPublish(copy[s][i])
    /\ row[s].version < MaxVersion
    /\ Save(s, "ACTIVE", row[s].version + 1, copy[s])
    /\ DiscardedOutboxSave

Suspend(s) ==
    /\ row[s].status = "ACTIVE"
    /\ row[s].version < MaxVersion
    /\ Save(s, "SUSPENDED", row[s].version + 1, copy[s])
    /\ DiscardedOutboxSave

Reactivate(s) ==
    /\ row[s].status = "SUSPENDED"
    /\ row[s].version < MaxVersion
    /\ Save(s, "ACTIVE", row[s].version + 1, copy[s])
    /\ UNCHANGED outbox

(* Public methods of the aggregate that ServicePlanService does not wrap yet: *)
(* a caller runs them as the commands above run theirs, load to commit.       *)

Terminate(s) ==
    /\ row[s].status # "TERMINATED"
    /\ row[s].version < MaxVersion
    /\ Save(s, "TERMINATED", row[s].version + 1, copy[s])
    /\ UNCHANGED outbox

PauseSchedule(s, i) ==
    /\ i \in DOMAIN copy[s]
    /\ copy[s][i].status = "ACTIVE"
    /\ Save(s, row[s].status, row[s].version,
            [copy[s] EXCEPT ![i].status = "PAUSED"])
    /\ UNCHANGED outbox

RemoveSchedule(s, i) ==
    /\ i \in DOMAIN copy[s]
    /\ copy[s][i].status # "REMOVED"
    /\ Save(s, row[s].status, row[s].version,
            [copy[s] EXCEPT ![i].status = "REMOVED"])
    /\ UNCHANGED outbox

Step(s) ==
    \/ LoadRow(s)
    \/ LoadSchedules(s)
    \/ Fail(s)
    \/ LockConflict(s)
    \/ \E payload \in Payloads : UpdateSchedules(s, payload)
    \/ Publish(s)
    \/ Suspend(s)
    \/ Reactivate(s)
    \/ Terminate(s)
    \/ \E i \in Schedules : PauseSchedule(s, i)
    \/ \E i \in Schedules : RemoveSchedule(s, i)

Next == Create \/ \E s \in Sessions : Step(s)

Spec == Init /\ [][Next]_vars

-----------------------------------------------------------------------------
(* Properties. *)

\* Every variable keeps its type; a plan that does not exist has no version.
TypeOK ==
    /\ status \in PlanStatus \cup {"ABSENT"}
    /\ version \in Nat
    /\ schedules \in ScheduleSets
    /\ outbox \subseteq PlanStatus
    /\ pc \in [Sessions -> {"idle", "row", "loaded"}]
    /\ row \in [Sessions -> [status : PlanStatus \cup {"ABSENT"},
                             version : Nat]]
    /\ copy \in [Sessions -> ScheduleSets]

\* A session that would win the version check has read the status the plan
\* still has: the check in save() is enough for decisions taken on the status,
\* although update_schedules() leaves the version alone and the row is read
\* without a lock.
LockCoversStatus ==
    \A s \in Sessions :
        pc[s] # "idle" /\ VersionMatches(s) => row[s].status = status

\* Whatever the interleaving, the committed status moves only along the
\* aggregate's state machine, one version at a time: no save computed from an
\* old copy resurrects, skips or repeats a transition.
LifecycleStep ==
    status' # status =>
        /\ <<status, status'>> \in
              {<<"ABSENT", "DRAFT">>, <<"DRAFT", "ACTIVE">>,
               <<"ACTIVE", "SUSPENDED">>, <<"SUSPENDED", "ACTIVE">>,
               <<"DRAFT", "TERMINATED">>, <<"ACTIVE", "TERMINATED">>,
               <<"SUSPENDED", "TERMINATED">>}
        /\ version' = version + 1

LifecycleRespected == [][LifecycleStep]_vars

\* A plan in operation always has a schedule with a place and a rhythm, although
\* publish() judged readiness on a copy read in two statements and wrote that
\* copy back over the table.  (The schedule may be paused since.)
OperatedPlanIsExecutable ==
    status \in {"ACTIVE", "SUSPENDED"} =>
        \E i \in DOMAIN schedules : Planned(schedules[i])

\* "Immutable after ServicePlan.publish()" (schedule.py:30): every later save
\* deletes and re-inserts all schedules from its session's own copy, and still
\* what was planned never changes once the plan has left DRAFT.
PlanningFrozenStep ==
    status \notin {"ABSENT", "DRAFT"} =>
        Planning(schedules') = Planning(schedules)

PlanningFrozenAfterDraft == [][PlanningFrozenStep]_vars

\* contract_checklist.md:14, "every significant state transition must result in
\* the emission of an IntegrationEvent to the outbox": the publication of a
\* plan is stored with it.
PublicationReachesOutbox ==
    [][status = "DRAFT" /\ status' = "ACTIVE" => "ACTIVE" \in outbox']_vars

=============================================================================
