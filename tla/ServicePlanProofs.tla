------------------------- MODULE ServicePlanProofs -------------------------
(***************************************************************************)
(* Proofs about ServicePlan for any number of sessions, schedules, points, *)
(* recurrences, payloads and any bound on the version.                     *)
(***************************************************************************)
EXTENDS ServicePlan, TLAPS

\* Before create_from_contract() there is nothing to load.
AbsentPlanUntouched ==
    status = "ABSENT" => version = 0 /\ \A s \in Sessions : pc[s] = "idle"

\* No session holds a row newer than the table's.
NoRowAhead ==
    \A s \in Sessions : pc[s] # "idle" => row[s].version <= version

\* Once the plan has left DRAFT, a session that would win the version check
\* holds the planning that is in the table.
CopyCurrentAfterDraft ==
    status \notin {"ABSENT", "DRAFT"} =>
        \A s \in Sessions :
            pc[s] = "loaded" /\ VersionMatches(s)
                => Planning(copy[s]) = Planning(schedules)

IInv ==
    /\ TypeOK
    /\ AbsentPlanUntouched
    /\ NoRowAhead
    /\ LockCoversStatus
    /\ CopyCurrentAfterDraft
    /\ OperatedPlanIsExecutable

-----------------------------------------------------------------------------

\* Two sets of schedules with the same planning have the same planned entries.
LEMMA PlanningDecidesPlanned ==
    ASSUME NEW a, NEW b, Planning(a) = Planning(b)
    PROVE  /\ DOMAIN a = DOMAIN b
           /\ \A i \in DOMAIN a : Planned(a[i]) <=> Planned(b[i])
<1>1. DOMAIN Planning(a) = DOMAIN a /\ DOMAIN Planning(b) = DOMAIN b
  BY DEF Planning
<1>2. DOMAIN a = DOMAIN b
  BY <1>1
<1>3. ASSUME NEW i \in DOMAIN a
      PROVE  Planned(a[i]) <=> Planned(b[i])
  <2>1. Planning(a)[i] = <<a[i].point, a[i].recurrence>>
    BY DEF Planning
  <2>2. Planning(b)[i] = <<b[i].point, b[i].recurrence>>
    BY <1>2 DEF Planning
  <2>3. a[i].point = b[i].point /\ a[i].recurrence = b[i].recurrence
    BY <2>1, <2>2
  <2>. QED
    BY <2>3 DEF Planned
<1>. QED
  BY <1>2, <1>3

\* Changing the status of one schedule leaves the planning alone.
LEMMA StatusChangeKeepsPlanning ==
    ASSUME NEW set \in ScheduleSets, NEW i \in DOMAIN set,
           NEW st \in ScheduleStatus
    PROVE  /\ [set EXCEPT ![i].status = st] \in ScheduleSets
           /\ Planning([set EXCEPT ![i].status = st]) = Planning(set)
<1>. DEFINE new == [set EXCEPT ![i].status = st]
<1>1. PICK S \in SUBSET Schedules : set \in [S -> Schedule]
  BY DEF ScheduleSets
<1>2. DOMAIN set = S /\ DOMAIN new = S
  BY <1>1
<1>3. new \in [S -> Schedule]
  BY <1>1, <1>2 DEF Schedule
<1>4. \A j \in S : new[j].point = set[j].point
                   /\ new[j].recurrence = set[j].recurrence
  BY <1>1, <1>2 DEF Schedule
<1>5. Planning(new) = Planning(set)
  BY <1>2, <1>4 DEF Planning
<1>. QED
  BY <1>1, <1>3, <1>5 DEF ScheduleSets

\* A batch edit keeps the set of schedules well formed.
LEMMA EditedType ==
    ASSUME NEW set \in ScheduleSets, NEW payload \in Payloads
    PROVE  Edited(set, payload) \in ScheduleSets
<1>1. PICK S \in SUBSET Schedules : set \in [S -> Schedule]
  BY DEF ScheduleSets
<1>2. PICK T \in SUBSET Schedules : payload \in [T -> Edit]
  BY PayloadsAssumption
<1>3. ASSUME NEW i \in S
      PROVE  Edited(set, payload)[i] \in Schedule
  BY <1>1, <1>2 DEF Edited, Schedule, Edit, Filled
<1>4. Edited(set, payload) \in [S -> Schedule]
  BY <1>1, <1>3 DEF Edited
<1>. QED
  BY <1>4 DEF ScheduleSets

\* A freshly created plan's schedules are well formed.
LEMMA BlankType ==
    ASSUME NEW items \in SUBSET Schedules
    PROVE  [i \in items |-> BlankSchedule] \in ScheduleSets
BY DEF ScheduleSets, Schedule, BlankSchedule, ScheduleStatus

\* A plan without items has the empty set of schedules, which is well formed.
LEMMA NoSchedulesType == NoSchedules \in ScheduleSets
<1>1. NoSchedules \in [{} -> Schedule]
  BY DEF NoSchedules
<1>. QED
  BY <1>1 DEF ScheduleSets

-----------------------------------------------------------------------------

\* Finishing a request keeps the types and leaves every other session alone.
LEMMA FinishLeavesOthers ==
    ASSUME TypeOK, NEW s \in Sessions, Finish(s)
    PROVE  /\ pc' \in [Sessions -> {"idle", "row", "loaded"}]
           /\ row' \in [Sessions -> [status : PlanStatus \cup {"ABSENT"},
                                     version : Nat]]
           /\ copy' \in [Sessions -> ScheduleSets]
           /\ \A t \in Sessions : pc'[t] # "idle" =>
                 /\ t # s
                 /\ pc'[t] = pc[t]
                 /\ row'[t] = row[t]
                 /\ copy'[t] = copy[t]
<1>1. NoRow \in [status : PlanStatus \cup {"ABSENT"}, version : Nat]
  BY DEF NoRow
<1>2. pc' \in [Sessions -> {"idle", "row", "loaded"}]
  BY DEF TypeOK, Finish
<1>3. row' \in [Sessions -> [status : PlanStatus \cup {"ABSENT"},
                             version : Nat]]
  BY <1>1 DEF TypeOK, Finish
<1>4. copy' \in [Sessions -> ScheduleSets]
  BY NoSchedulesType DEF TypeOK, Finish
<1>5. \A t \in Sessions : pc'[t] # "idle" =>
          /\ t # s
          /\ pc'[t] = pc[t]
          /\ row'[t] = row[t]
          /\ copy'[t] = copy[t]
  BY DEF TypeOK, Finish
<1>. QED
  BY <1>2, <1>3, <1>4, <1>5

\* A save that keeps status and version, and after DRAFT the planning too.
LEMMA KeepingSave ==
    ASSUME IInv, NEW s \in Sessions, NEW set \in ScheduleSets,
           Save(s, row[s].status, row[s].version, set), UNCHANGED outbox,
           row[s].status # "DRAFT" => Planning(set) = Planning(copy[s])
    PROVE  /\ IInv'
           /\ status' = status
           /\ status \notin {"ABSENT", "DRAFT"} =>
                 Planning(schedules') = Planning(schedules)
<1>. USE DEF IInv
<1>1. /\ status' = status
      /\ version' = version
      /\ schedules' = set
      /\ pc[s] = "loaded"
      /\ VersionMatches(s)
      /\ row[s].status = status
      /\ status # "ABSENT"
      /\ Finish(s)
  BY DEF Save, LockCoversStatus, VersionMatches, AbsentPlanUntouched
<1>2. /\ pc' \in [Sessions -> {"idle", "row", "loaded"}]
      /\ row' \in [Sessions -> [status : PlanStatus \cup {"ABSENT"},
                                version : Nat]]
      /\ copy' \in [Sessions -> ScheduleSets]
      /\ \A t \in Sessions : pc'[t] # "idle" =>
            /\ t # s
            /\ pc'[t] = pc[t]
            /\ row'[t] = row[t]
            /\ copy'[t] = copy[t]
  BY <1>1, FinishLeavesOthers
<1>3. status \notin {"ABSENT", "DRAFT"} =>
          Planning(schedules') = Planning(schedules)
  BY <1>1 DEF CopyCurrentAfterDraft
<1>4. TypeOK'
  BY <1>1, <1>2 DEF TypeOK
<1>5. AbsentPlanUntouched'
  BY <1>1 DEF AbsentPlanUntouched
<1>6. NoRowAhead'
  BY <1>1, <1>2 DEF NoRowAhead
<1>7. LockCoversStatus'
  BY <1>1, <1>2 DEF LockCoversStatus, VersionMatches
<1>8. CopyCurrentAfterDraft'
  BY <1>1, <1>2, <1>3 DEF CopyCurrentAfterDraft, VersionMatches
<1>9. OperatedPlanIsExecutable'
  <2>. SUFFICES ASSUME status \in {"ACTIVE", "SUSPENDED"}
                PROVE  \E i \in DOMAIN schedules' : Planned(schedules'[i])
    BY <1>1 DEF OperatedPlanIsExecutable
  <2>1. PICK i \in DOMAIN schedules : Planned(schedules[i])
    BY DEF OperatedPlanIsExecutable
  <2>2. Planning(schedules') = Planning(schedules)
    BY <1>3
  <2>3. i \in DOMAIN schedules' /\ Planned(schedules'[i])
    BY <2>1, <2>2, PlanningDecidesPlanned
  <2>. QED
    BY <2>3
<1>. QED
  BY <1>1, <1>3, <1>4, <1>5, <1>6, <1>7, <1>8, <1>9

\* A save that moves the plan to another status under a new version: every
\* other session now holds an older version.
LEMMA BumpingSave ==
    ASSUME IInv, NEW s \in Sessions, NEW st \in PlanStatus,
           Save(s, st, row[s].version + 1, copy[s]), UNCHANGED outbox,
           st \in {"ACTIVE", "SUSPENDED"} =>
              \E i \in DOMAIN copy[s] : Planned(copy[s][i])
    PROVE  /\ IInv'
           /\ status' = st
           /\ version' = version + 1
           /\ status = row[s].status
           /\ status # "ABSENT"
           /\ status # "DRAFT" => Planning(schedules') = Planning(schedules)
<1>. USE DEF IInv
<1>1. /\ status' = st
      /\ version' = version + 1
      /\ schedules' = copy[s]
      /\ pc[s] = "loaded"
      /\ VersionMatches(s)
      /\ row[s].status = status
      /\ status # "ABSENT"
      /\ Finish(s)
  BY DEF Save, LockCoversStatus, VersionMatches, AbsentPlanUntouched
<1>2. /\ pc' \in [Sessions -> {"idle", "row", "loaded"}]
      /\ row' \in [Sessions -> [status : PlanStatus \cup {"ABSENT"},
                                version : Nat]]
      /\ copy' \in [Sessions -> ScheduleSets]
      /\ \A t \in Sessions : pc'[t] # "idle" =>
            /\ t # s
            /\ pc'[t] = pc[t]
            /\ row'[t] = row[t]
            /\ copy'[t] = copy[t]
  BY <1>1, FinishLeavesOthers
<1>3. version \in Nat /\ copy[s] \in ScheduleSets
  BY DEF TypeOK
<1>4. TypeOK'
  BY <1>1, <1>2, <1>3 DEF TypeOK
<1>5. AbsentPlanUntouched'
  BY <1>1 DEF AbsentPlanUntouched, PlanStatus
<1>6. \A t \in Sessions : pc'[t] # "idle" =>
          row'[t].version \in Nat /\ row'[t].version < version'
  BY <1>1, <1>2, <1>3 DEF NoRowAhead, TypeOK
<1>7. NoRowAhead'
  BY <1>1, <1>3, <1>6 DEF NoRowAhead
<1>8. \A t \in Sessions : pc'[t] # "idle" => ~VersionMatches(t)'
  BY <1>1, <1>3, <1>6 DEF VersionMatches
<1>9. LockCoversStatus' /\ CopyCurrentAfterDraft'
  BY <1>8 DEF LockCoversStatus, CopyCurrentAfterDraft
<1>10. OperatedPlanIsExecutable'
  BY <1>1 DEF OperatedPlanIsExecutable
<1>11. status # "DRAFT" => Planning(schedules') = Planning(schedules)
  BY <1>1 DEF CopyCurrentAfterDraft
<1>. QED
  BY <1>1, <1>4, <1>5, <1>7, <1>9, <1>10, <1>11

-----------------------------------------------------------------------------

\* The initial state satisfies the inductive invariant.
LEMMA InitIInv == Init => IInv
<1>. SUFFICES ASSUME Init PROVE IInv
  OBVIOUS
<1>1. TypeOK
  BY NoSchedulesType DEF Init, TypeOK, NoRow
<1>2. AbsentPlanUntouched /\ NoRowAhead /\ LockCoversStatus
  BY DEF Init, AbsentPlanUntouched, NoRowAhead, LockCoversStatus
<1>3. CopyCurrentAfterDraft /\ OperatedPlanIsExecutable
  BY DEF Init, CopyCurrentAfterDraft, OperatedPlanIsExecutable
<1>. QED
  BY <1>1, <1>2, <1>3 DEF IInv

\* What the action properties say of one step.
LegalStep == LifecycleStep /\ PlanningFrozenStep

\* Every step preserves the inductive invariant and is a legal step.
LEMMA NextIInv == IInv /\ [Next]_vars => IInv' /\ LegalStep
<1>. SUFFICES ASSUME IInv, [Next]_vars PROVE IInv' /\ LegalStep
  OBVIOUS
<1>. USE DEF IInv, LegalStep, LifecycleStep, PlanningFrozenStep
<1>1. CASE UNCHANGED vars
  BY <1>1 DEF vars, plan, TypeOK, AbsentPlanUntouched,
     NoRowAhead, LockCoversStatus, CopyCurrentAfterDraft, VersionMatches,
     OperatedPlanIsExecutable
<1>2. CASE Create
  <2>1. status' = "DRAFT" /\ version' = 1 /\ version = 0 /\ status = "ABSENT"
    BY <1>2 DEF Create, AbsentPlanUntouched
  <2>2. schedules' \in ScheduleSets
    BY <1>2, BlankType DEF Create
  <2>3. pc' = pc /\ \A s \in Sessions : pc[s] = "idle"
    BY <1>2 DEF Create, AbsentPlanUntouched
  <2>4. TypeOK'
    BY <1>2, <2>1, <2>2 DEF Create, TypeOK, PlanStatus
  <2>5. AbsentPlanUntouched' /\ NoRowAhead' /\ LockCoversStatus'
    BY <2>1, <2>3 DEF AbsentPlanUntouched, NoRowAhead, LockCoversStatus
  <2>6. CopyCurrentAfterDraft' /\ OperatedPlanIsExecutable'
    BY <2>1 DEF CopyCurrentAfterDraft, OperatedPlanIsExecutable
  <2>7. LegalStep
    BY <2>1
  <2>. QED
    BY <2>4, <2>5, <2>6, <2>7
<1>3. CASE \E s \in Sessions : Step(s)
  <2>1. PICK s \in Sessions : Step(s)
    BY <1>3
  <2>2. row[s].status \in PlanStatus \cup {"ABSENT"} /\ copy[s] \in ScheduleSets
    BY DEF TypeOK
  <2>3. CASE LoadRow(s)
    <3>1. status' = status /\ version' = version /\ schedules' = schedules
          /\ outbox' = outbox /\ copy' = copy /\ status # "ABSENT"
      BY <2>3 DEF LoadRow, plan
    <3>2. /\ pc' \in [Sessions -> {"idle", "row", "loaded"}]
          /\ row' \in [Sessions -> [status : PlanStatus \cup {"ABSENT"},
                                    version : Nat]]
      BY <2>3 DEF LoadRow, TypeOK
    <3>3. \A t \in Sessions : t # s => pc'[t] = pc[t] /\ row'[t] = row[t]
      BY <2>3 DEF LoadRow, TypeOK
    <3>4. /\ pc'[s] = "row"
          /\ row'[s].status = status
          /\ row'[s].version = version
      BY <2>3 DEF LoadRow, TypeOK
    <3>5. TypeOK'
      BY <3>1, <3>2 DEF TypeOK
    <3>6. NoRowAhead' /\ LockCoversStatus' /\ AbsentPlanUntouched'
      BY <3>1, <3>3, <3>4 DEF NoRowAhead, LockCoversStatus, VersionMatches,
         AbsentPlanUntouched, TypeOK
    <3>7. CopyCurrentAfterDraft' /\ OperatedPlanIsExecutable'
      BY <3>1, <3>3, <3>4 DEF CopyCurrentAfterDraft, VersionMatches,
         OperatedPlanIsExecutable
    <3>. QED
      BY <3>1, <3>5, <3>6, <3>7
  <2>4. CASE LoadSchedules(s)
    <3>1. status' = status /\ version' = version /\ schedules' = schedules
          /\ outbox' = outbox /\ row' = row /\ pc[s] = "row"
      BY <2>4 DEF LoadSchedules, plan
    <3>2. /\ pc' \in [Sessions -> {"idle", "row", "loaded"}]
          /\ copy' \in [Sessions -> ScheduleSets]
      BY <2>4 DEF LoadSchedules, TypeOK
    <3>3. \A t \in Sessions : t # s => pc'[t] = pc[t] /\ copy'[t] = copy[t]
      BY <2>4 DEF LoadSchedules, TypeOK
    <3>4. pc'[s] = "loaded" /\ copy'[s] = schedules
      BY <2>4 DEF LoadSchedules, TypeOK
    <3>5. TypeOK'
      BY <3>1, <3>2 DEF TypeOK
    <3>6. NoRowAhead' /\ LockCoversStatus' /\ AbsentPlanUntouched'
      BY <3>1, <3>3, <3>4 DEF NoRowAhead, LockCoversStatus, VersionMatches,
         AbsentPlanUntouched
    <3>7. CopyCurrentAfterDraft' /\ OperatedPlanIsExecutable'
      BY <3>1, <3>3, <3>4 DEF CopyCurrentAfterDraft, VersionMatches,
         OperatedPlanIsExecutable
    <3>. QED
      BY <3>1, <3>5, <3>6, <3>7
  <2>5. CASE Fail(s) \/ LockConflict(s)
    <3>1. status' = status /\ version' = version /\ schedules' = schedules
          /\ outbox' = outbox /\ Finish(s) /\ pc[s] # "idle"
      BY <2>5 DEF Fail, LockConflict, plan
    <3>2. /\ pc' \in [Sessions -> {"idle", "row", "loaded"}]
          /\ row' \in [Sessions -> [status : PlanStatus \cup {"ABSENT"},
                                    version : Nat]]
          /\ copy' \in [Sessions -> ScheduleSets]
          /\ \A t \in Sessions : pc'[t] # "idle" =>
                /\ t # s
                /\ pc'[t] = pc[t]
                /\ row'[t] = row[t]
                /\ copy'[t] = copy[t]
      BY <3>1, FinishLeavesOthers
    <3>3. TypeOK'
      BY <3>1, <3>2 DEF TypeOK
    <3>4. NoRowAhead' /\ LockCoversStatus' /\ AbsentPlanUntouched'
      BY <3>1, <3>2 DEF NoRowAhead, LockCoversStatus, VersionMatches,
         AbsentPlanUntouched
    <3>5. CopyCurrentAfterDraft' /\ OperatedPlanIsExecutable'
      BY <3>1, <3>2 DEF CopyCurrentAfterDraft, VersionMatches,
         OperatedPlanIsExecutable
    <3>. QED
      BY <3>1, <3>3, <3>4, <3>5
  <2>6. CASE \E payload \in Payloads : UpdateSchedules(s, payload)
    <3>1. PICK payload \in Payloads : UpdateSchedules(s, payload)
      BY <2>6
    <3>2. Edited(copy[s], payload) \in ScheduleSets
      BY <2>2, EditedType
    <3>. QED
      BY <3>1, <3>2, KeepingSave DEF UpdateSchedules
  <2>7. CASE Publish(s)
    <3>1. \E i \in DOMAIN copy[s] : Planned(copy[s][i])
      BY <2>7 DEF Publish, ReadyForPublish
    <3>. QED
      BY <2>7, <3>1, BumpingSave
         DEF Publish, DiscardedOutboxSave, PlanStatus
  <2>8. CASE Suspend(s) \/ Reactivate(s)
    <3>1. row[s].status \in {"ACTIVE", "SUSPENDED"} /\ row[s].status = status
          /\ pc[s] = "loaded" /\ VersionMatches(s)
      BY <2>8 DEF Suspend, Reactivate, Save, LockCoversStatus
    <3>2. Planning(copy[s]) = Planning(schedules)
      BY <3>1 DEF CopyCurrentAfterDraft
    <3>3. PICK i \in DOMAIN schedules : Planned(schedules[i])
      BY <3>1 DEF OperatedPlanIsExecutable
    <3>4. \E j \in DOMAIN copy[s] : Planned(copy[s][j])
      BY <3>2, <3>3, PlanningDecidesPlanned
    <3>. QED
      BY <2>8, <3>1, <3>4, BumpingSave
         DEF Suspend, Reactivate, DiscardedOutboxSave, PlanStatus
  <2>9. CASE Terminate(s)
    BY <2>2, <2>9, BumpingSave DEF Terminate, PlanStatus
  <2>10. CASE \E i \in Schedules : PauseSchedule(s, i)
    <3>1. PICK i \in Schedules : PauseSchedule(s, i)
      BY <2>10
    <3>2. /\ [copy[s] EXCEPT ![i].status = "PAUSED"] \in ScheduleSets
          /\ Planning([copy[s] EXCEPT ![i].status = "PAUSED"])
                = Planning(copy[s])
      BY <2>2, <3>1, StatusChangeKeepsPlanning
         DEF PauseSchedule, ScheduleStatus
    <3>. QED
      BY <3>1, <3>2, KeepingSave DEF PauseSchedule
  <2>11. CASE \E i \in Schedules : RemoveSchedule(s, i)
    <3>1. PICK i \in Schedules : RemoveSchedule(s, i)
      BY <2>11
    <3>2. /\ [copy[s] EXCEPT ![i].status = "REMOVED"] \in ScheduleSets
          /\ Planning([copy[s] EXCEPT ![i].status = "REMOVED"])
                = Planning(copy[s])
      BY <2>2, <3>1, StatusChangeKeepsPlanning
         DEF RemoveSchedule, ScheduleStatus
    <3>. QED
      BY <3>1, <3>2, KeepingSave DEF RemoveSchedule
  <2>. QED
    BY <2>1, <2>3, <2>4, <2>5, <2>6, <2>7, <2>8, <2>9, <2>10, <2>11 DEF Step
<1>. QED
  BY <1>1, <1>2, <1>3 DEF Next

\* Every reachable state satisfies the inductive invariant.
THEOREM InductiveInvariant == Spec => []IInv
BY InitIInv, NextIInv, PTL DEF Spec

\* Type correctness of the plan, its sessions and their copies.
THEOREM TypeCorrect == Spec => []TypeOK
<1>1. IInv => TypeOK
  BY DEF IInv
<1>. QED
  BY <1>1, InductiveInvariant, PTL

\* A session that would pass the version check of save() has read the plan's
\* present status.
THEOREM LockIsSound == Spec => []LockCoversStatus
<1>1. IInv => LockCoversStatus
  BY DEF IInv
<1>. QED
  BY <1>1, InductiveInvariant, PTL

\* A plan in operation has a schedule with a place and a recurrence.
THEOREM OperatedPlansExecutable == Spec => []OperatedPlanIsExecutable
<1>1. IInv => OperatedPlanIsExecutable
  BY DEF IInv
<1>. QED
  BY <1>1, InductiveInvariant, PTL

\* The committed status follows the aggregate's state machine, each move under
\* the next version, however the sessions interleave.
THEOREM LifecycleIsRespected == Spec => LifecycleRespected
<1>1. IInv /\ [Next]_vars => [LifecycleStep]_vars
  BY NextIInv DEF LegalStep
<1>. QED
  BY <1>1, InductiveInvariant, PTL DEF Spec, LifecycleRespected

\* After DRAFT the planning of the schedules never changes, although every save
\* rewrites all of them from a session's own copy.
THEOREM PlanningIsFrozen == Spec => PlanningFrozenAfterDraft
<1>1. IInv /\ [Next]_vars => [PlanningFrozenStep]_vars
  BY NextIInv DEF LegalStep
<1>. QED
  BY <1>1, InductiveInvariant, PTL DEF Spec, PlanningFrozenAfterDraft

=============================================================================
