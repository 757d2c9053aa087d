------------------------ MODULE RequirementSyncProofs ------------------------
(***************************************************************************)
(* Proofs about RequirementSync, for any events, payloads and number of    *)
(* consumers: there is never more than one requirement for a schedule, no  *)
(* update overwrites what it has not read, and every commit is one atomic  *)
(* upsert.                                                                 *)
(***************************************************************************)
EXTENDS RequirementSync, TLAPS

Schedule == [item : Items, want : Wants]

\* No two entries of a payload are for the same schedule.
Distinct(q) ==
    \A m, n \in DOMAIN q : q[m].item = q[n].item => m = n

\* The payload q has no entry for item.
Without(q, item) == \A n \in DOMAIN q : q[n].item # item

\* What is committed of a row that was read: the same, or something newer.
ReadBefore(old, current) ==
    /\ current.id = old.id
    /\ current.item = old.item
    /\ current.version >= old.version
    /\ current.version = old.version => current = old

\* What an UPDATE made of a row.
Succeeds(new, old) ==
    /\ new.id = old.id
    /\ new.item = old.item
    /\ new = old \/ new.version = old.version + 1

\* A consumer at work on nothing holds nothing.
Rested(s) ==
    event[s] = None => /\ todo[s] = <<>>
                       /\ found[s] = None
                       /\ updates[s] = {}
                       /\ inserts[s] = {}

\* Each schedule is dealt with once, and what was done is not to do again.
WorkSound(s) ==
    /\ Distinct(todo[s])
    /\ \A row \in updates[s] \cup inserts[s] : Without(todo[s], row.item)
    /\ \A a, b \in updates[s] : a.id = b.id => a = b
    /\ \A a, b \in inserts[s] : a.id = b.id \/ a.item = b.item => a = b

\* The row found is for the schedule at hand and has not vanished.
FoundSound(s) ==
    /\ found[s] # None => todo[s] # <<>>
    /\ found[s] \in Row =>
          /\ found[s].item = Head(todo[s]).item
          /\ \E row \in rows : ReadBefore(found[s], row)

\* A row updated but not committed is locked: what is committed of it is still
\* what the UPDATE replaced.  A row to be inserted has an id of its own.
WritesSound(s) ==
    /\ \A new \in updates[s] : \E old \in rows : Succeeds(new, old)
    /\ \A new \in inserts[s] : \A row \in rows : row.id # new.id

SessionSound(s) == Rested(s) /\ WorkSound(s) /\ FoundSound(s) /\ WritesSound(s)

\* No row is locked by two transactions, no id is taken twice.
Apart(s, t) ==
    /\ \A a \in updates[s], b \in updates[t] : a.id # b.id
    /\ \A a \in inserts[s], b \in inserts[t] : a.id # b.id

IdsUnique == \A a, b \in rows : a.id = b.id => a = b

IInv ==
    /\ TypeOK
    /\ IdsUnique
    /\ OnePerOrigin
    /\ \A s \in Sessions : SessionSound(s)
    /\ \A s, t \in Sessions : s # t => Apart(s, t)

\* The table as a commit of s would make it.
After(s) ==
    {row \in rows : \A new \in updates[s] : new.id # row.id}
      \cup updates[s] \cup inserts[s]

\* What the loop has dealt with is as the payload wants it, in that table.
Progress(s) ==
    \A n \in DOMAIN Payload[event[s]] :
        LET wanted == Payload[event[s]][n]
        IN  Without(todo[s], wanted.item) => Applied(wanted, After(s))

\* What is left to do comes from the payload; a suspension has none.
FromPayload(s) ==
    IF event[s] \in Published
    THEN \A m \in DOMAIN todo[s] : \E n \in DOMAIN Payload[event[s]] :
            todo[s][m] = Payload[event[s]][n]
    ELSE todo[s] = <<>> /\ updates[s] = {} /\ inserts[s] = {}

\* A delivery nobody disturbed will meet no constraint, and reads no row where
\* there is none.
LoneSound(s) ==
    event[s] \in Published /\ s \notin disturbed =>
        /\ Progress(s)
        /\ OriginsFree(s)
        /\ found[s] = NoRow =>
              \A row \in rows : row.item # Head(todo[s]).item

Only(e) == handled \subseteq {e} \cup Suspended

\* A delivery of the only publication applied so far will either meet the
\* constraint or leave the table as the payload wants it.
SoleSound(s) ==
    event[s] \in Published /\ Only(event[s]) /\ OriginsFree(s) => Progress(s)

\* IInv, and what the deliveries achieve.
Achieves(s) == FromPayload(s) /\ LoneSound(s) /\ SoleSound(s)

PInv == IInv /\ SoleEventReflected /\ \A s \in Sessions : Achieves(s)

\* Initially there are neither rows nor deliveries.
LEMMA InitIInv == Init => IInv
  <1> SUFFICES ASSUME Init PROVE IInv
    OBVIOUS
  <1>1. TypeOK
    BY BoundsAssumption DEF Init, TypeOK
  <1>2. ASSUME NEW s \in Sessions PROVE SessionSound(s)
    BY NoneAssumption
    DEF Init, SessionSound, Rested, WorkSound, FoundSound, WritesSound,
        Distinct, Without
  <1> QED
    BY <1>1, <1>2 DEF Init, IInv, IdsUnique, OnePerOrigin, Apart

\* What remains of a payload is as distinct, and is without what it was without
\* and without the schedule dealt with.
LEMMA TailSound ==
  ASSUME NEW q \in Seq(Schedule), q # <<>>, Distinct(q)
  PROVE  /\ Tail(q) \in Seq(Schedule)
         /\ Head(q) \in Schedule
         /\ Distinct(Tail(q))
         /\ Without(Tail(q), Head(q).item)
         /\ \A item : Without(q, item) => Without(Tail(q), item)
  <1>1. /\ Len(q) \in Nat /\ Len(q) > 0
        /\ DOMAIN q = 1 .. Len(q)
        /\ DOMAIN Tail(q) = 1 .. Len(q) - 1
        /\ Head(q) = q[1]
        /\ \A n \in 1 .. Len(q) - 1 : Tail(q)[n] = q[n + 1]
    OBVIOUS
  <1>2. Tail(q) \in Seq(Schedule) /\ Head(q) \in Schedule
    OBVIOUS
  <1>3. Distinct(Tail(q))
    BY <1>1 DEF Distinct
  <1>4. Without(Tail(q), Head(q).item)
    <2> SUFFICES ASSUME NEW n \in 1 .. Len(q) - 1, q[n + 1].item = q[1].item
                 PROVE  FALSE
      BY <1>1 DEF Without
    <2>1. n + 1 \in DOMAIN q /\ 1 \in DOMAIN q /\ n + 1 # 1
      BY <1>1
    <2> QED
      BY <2>1 DEF Distinct
  <1>5. ASSUME NEW item, Without(q, item) PROVE Without(Tail(q), item)
    BY <1>1, <1>5 DEF Without
  <1> QED
    BY <1>2, <1>3, <1>4, <1>5

\* The schedule at hand is one that none of the session's writes is for.
LEMMA HeadIsNew ==
  ASSUME NEW q \in Seq(Schedule), q # <<>>, NEW item, Without(q, item)
  PROVE  Head(q).item # item
  <1>1. 1 \in DOMAIN q /\ Head(q) = q[1]
    OBVIOUS
  <1> QED
    BY <1>1 DEF Without

\* A step by s that leaves the table alone keeps the invariant if it leaves s
\* sound and apart from the others.
LEMMA OwnStepKeeps ==
  ASSUME IInv, NEW s \in Sessions, TypeOK', rows' = rows, SessionSound(s)',
         \A t \in Sessions \ {s} :
            /\ event'[t] = event[t] /\ todo'[t] = todo[t]
            /\ found'[t] = found[t]
            /\ updates'[t] = updates[t] /\ inserts'[t] = inserts[t]
            /\ Apart(s, t)'
  PROVE  IInv'
  <1>1. ASSUME NEW t \in Sessions \ {s} PROVE SessionSound(t)'
    BY DEF IInv, SessionSound, Rested, WorkSound, FoundSound, WritesSound
  <1>2. \A t, u \in Sessions \ {s} : t # u => Apart(t, u)'
    BY DEF IInv, Apart
  <1>3. \A t \in Sessions \ {s} : Apart(s, t)' /\ Apart(t, s)'
    BY DEF Apart
  <1>4. IdsUnique' /\ OnePerOrigin'
    BY DEF IInv, IdsUnique, OnePerOrigin
  <1> QED
    BY <1>1, <1>2, <1>3, <1>4 DEF IInv

-----------------------------------------------------------------------------
(* Deliveries begin and fail. *)

\* The emission of an event touches no consumer.
LEMMA EmitKeeps ==
  ASSUME IInv, NEW e \in Events, Emit(e)
  PROVE  IInv'
  <1>1. TypeOK'
    BY DEF Emit, IInv, TypeOK
  <1>2. \A s \in Sessions : SessionSound(s)'
    BY DEF Emit, IInv, SessionSound, Rested, WorkSound, FoundSound, WritesSound
  <1>3. IdsUnique' /\ OnePerOrigin' /\ \A s, t \in Sessions : s # t => Apart(s, t)'
    BY DEF Emit, IInv, IdsUnique, OnePerOrigin, Apart
  <1> QED
    BY <1>1, <1>2, <1>3 DEF IInv

\* A payload is distinct when its delivery begins.
LEMMA BeginKeeps ==
  ASSUME IInv, NEW s \in Sessions, NEW e \in Events, Begin(s, e),
         budget' \in [failures : Nat, duplicates : Nat]
  PROVE  IInv'
  <1>1. /\ event[s] = None
        /\ event' = [event EXCEPT ![s] = e]
        /\ todo' = [todo EXCEPT ![s] = Schedules(e)]
        /\ UNCHANGED <<rows, owed, handled, found, updates, inserts, disturbed>>
    BY DEF Begin, Busy
  <1>2. Schedules(e) \in Seq(Schedule) /\ Distinct(Schedules(e))
    <2>1. CASE e \in Published
      BY <2>1, PayloadAssumption DEF Schedules, Distinct, Schedule
    <2>2. CASE e \notin Published
      <3>1. <<>> \in Seq(Schedule) /\ Distinct(<<>>)
        BY DEF Distinct
      <3> QED
        BY <2>2, <3>1 DEF Schedules
    <2> QED
      BY <2>1, <2>2
  <1>3. TypeOK'
    BY <1>1, <1>2 DEF IInv, TypeOK, Schedule
  <1>4. event'[s] = e /\ todo'[s] = Schedules(e)
    BY <1>1 DEF IInv, TypeOK
  <1>5. found[s] = None /\ updates[s] = {} /\ inserts[s] = {}
    BY <1>1 DEF IInv, SessionSound, Rested
  <1>6. SessionSound(s)'
    BY <1>1, <1>2, <1>4, <1>5, NoneAssumption
    DEF SessionSound, Rested, WorkSound, FoundSound, WritesSound
  <1>7. \A t \in Sessions \ {s} :
            event'[t] = event[t] /\ todo'[t] = todo[t] /\ Apart(s, t)'
    BY <1>1, <1>5 DEF IInv, TypeOK, Apart
  <1> QED
    BY <1>1, <1>3, <1>6, <1>7, OwnStepKeeps

\* A transaction that is over holds nothing.
LEMMA EndRests ==
  ASSUME TypeOK, NEW s \in Sessions, End(s)
  PROVE  /\ event'[s] = None /\ todo'[s] = <<>> /\ found'[s] = None
         /\ updates'[s] = {} /\ inserts'[s] = {}
         /\ \A t \in Sessions \ {s} :
               /\ event'[t] = event[t] /\ todo'[t] = todo[t]
               /\ found'[t] = found[t]
               /\ updates'[t] = updates[t] /\ inserts'[t] = inserts[t]
         /\ event' \in [Sessions -> Events \cup {None}]
         /\ todo' \in [Sessions -> Seq(Schedule)]
         /\ found' \in [Sessions -> Row \cup {NoRow, None}]
         /\ updates' \in [Sessions -> SUBSET Row]
         /\ inserts' \in [Sessions -> SUBSET Row]
  <1>1. <<>> \in Seq(Schedule)
    OBVIOUS
  <1> QED
    BY <1>1 DEF TypeOK, End, Schedule

\* A rollback takes back what the session held and nothing else.
LEMMA RollbackKeeps ==
  ASSUME IInv, NEW s \in Sessions, Rollback(s),
         budget' \in [failures : Nat, duplicates : Nat]
  PROVE  IInv'
  <1>1. End(s) /\ UNCHANGED <<rows, owed, handled>> /\ disturbed' \subseteq Sessions
    BY DEF Rollback, IInv, TypeOK
  <1>2. TypeOK'
    BY <1>1, EndRests DEF IInv, TypeOK, Schedule
  <1>3. SessionSound(s)'
    BY <1>1, EndRests, NoneAssumption
    DEF IInv, SessionSound, Rested, WorkSound, FoundSound, WritesSound,
        Distinct, Without
  <1>4. \A t \in Sessions \ {s} : Apart(s, t)'
    BY <1>1, EndRests DEF IInv, Apart
  <1> QED
    BY <1>1, <1>2, <1>3, <1>4, EndRests, OwnStepKeeps DEF IInv

-----------------------------------------------------------------------------
(* One schedule. *)

\* The row read is the committed one.
LEMMA GetByOriginKeeps ==
  ASSUME IInv, NEW s \in Sessions, GetByOrigin(s)
  PROVE  IInv'
  <1>1. /\ todo[s] # <<>>
        /\ UNCHANGED <<rows, owed, handled, event, todo, updates, inserts,
                       disturbed, budget>>
    BY DEF GetByOrigin
  <1>2. PICK r \in rows \cup {NoRow} :
            /\ found' = [found EXCEPT ![s] = r]
            /\ r \in rows => r.item = Head(todo[s]).item
    <2>1. NoRow \notin rows
      BY NoneAssumption DEF IInv, TypeOK, NoRow, Row
    <2> QED
      BY <2>1 DEF GetByOrigin
  <1>3. rows \subseteq Row /\ NoRow \notin Row
    BY NoneAssumption DEF IInv, TypeOK, NoRow, Row
  <1>4. TypeOK'
    BY <1>1, <1>2, <1>3 DEF IInv, TypeOK
  <1>5. found'[s] = r
    BY <1>2 DEF IInv, TypeOK
  <1>6. FoundSound(s)'
    <2>1. ASSUME r \in Row PROVE r \in rows /\ ReadBefore(r, r)
      BY <2>1, <1>3 DEF ReadBefore, Row
    <2> QED
      BY <1>1, <1>2, <1>5, <2>1 DEF FoundSound
  <1>7. SessionSound(s)
    BY DEF IInv
  <1>8. event[s] # None
    BY <1>1, <1>7 DEF SessionSound, Rested
  <1>9. SessionSound(s)'
    BY <1>1, <1>6, <1>7, <1>8
    DEF SessionSound, Rested, WorkSound, WritesSound
  <1>10. \A t \in Sessions \ {s} : found'[t] = found[t] /\ Apart(s, t)'
    BY <1>1, <1>2 DEF IInv, TypeOK, Apart
  <1> QED
    BY <1>1, <1>4, <1>9, <1>10, OwnStepKeeps

\* The loop goes on: the schedule at hand is dealt with for good, and whatever
\* was written for it is kept apart by the conditions below.
LEMMA ProceedKeeps ==
  ASSUME IInv, NEW s \in Sessions, found[s] # None, Proceed(s),
         updates' \in [Sessions -> SUBSET Row],
         inserts' \in [Sessions -> SUBSET Row],
         \A t \in Sessions \ {s} :
            updates'[t] = updates[t] /\ inserts'[t] = inserts[t] /\ Apart(s, t)',
         \A row \in (updates'[s] \cup inserts'[s])
                      \ (updates[s] \cup inserts[s]) :
            row.item = Head(todo[s]).item,
         \A a, b \in updates'[s] : a.id = b.id => a = b,
         \A a, b \in inserts'[s] : a.id = b.id \/ a.item = b.item => a = b,
         WritesSound(s)'
  PROVE  IInv'
  <1>1. SessionSound(s) /\ todo[s] \in Seq(Schedule) /\ todo[s] # <<>>
    BY DEF IInv, TypeOK, SessionSound, FoundSound, Schedule
  <1>2. event[s] # None
    BY <1>1 DEF SessionSound, Rested
  <1>3. /\ todo' = [todo EXCEPT ![s] = Tail(todo[s])]
        /\ found' = [found EXCEPT ![s] = None]
        /\ UNCHANGED <<rows, owed, handled, event, disturbed, budget>>
    BY DEF Proceed
  <1>4. todo'[s] = Tail(todo[s]) /\ found'[s] = None
    BY <1>3 DEF IInv, TypeOK
  <1>5. /\ Tail(todo[s]) \in Seq(Schedule)
        /\ Distinct(todo'[s])
        /\ Without(todo'[s], Head(todo[s]).item)
        /\ \A item : Without(todo[s], item) => Without(todo'[s], item)
    BY <1>1, <1>4, TailSound DEF SessionSound, WorkSound
  <1>6. TypeOK'
    BY <1>3, <1>5 DEF IInv, TypeOK, Schedule
  <1>7. \A row \in updates'[s] \cup inserts'[s] : Without(todo'[s], row.item)
    BY <1>1, <1>5 DEF SessionSound, WorkSound
  <1>8. WorkSound(s)'
    BY <1>5, <1>7 DEF WorkSound
  <1>9. SessionSound(s)'
    BY <1>2, <1>3, <1>4, <1>8, NoneAssumption
    DEF SessionSound, Rested, FoundSound
  <1>10. \A t \in Sessions \ {s} :
            event'[t] = event[t] /\ todo'[t] = todo[t] /\ found'[t] = found[t]
    BY <1>3 DEF IInv, TypeOK
  <1> QED
    BY <1>3, <1>6, <1>9, <1>10, OwnStepKeeps

\* Nothing is written for a schedule that is off and has no row.
LEMMA SkipKeeps ==
  ASSUME IInv, NEW s \in Sessions, Skip(s)
  PROVE  IInv'
  <1>1. /\ found[s] # None /\ Proceed(s)
        /\ updates' = updates /\ inserts' = inserts /\ rows' = rows
    BY NoneAssumption DEF Skip, NoRow, Proceed, IInv, TypeOK
  <1>2. /\ \A a, b \in updates[s] : a.id = b.id => a = b
        /\ \A a, b \in inserts[s] : a.id = b.id \/ a.item = b.item => a = b
        /\ WritesSound(s)'
    BY <1>1 DEF IInv, SessionSound, WorkSound, WritesSound
  <1>3. \A t \in Sessions \ {s} : Apart(s, t)'
    BY <1>1 DEF IInv, Apart
  <1>4. updates \in [Sessions -> SUBSET Row] /\ inserts \in [Sessions -> SUBSET Row]
    BY DEF IInv, TypeOK
  <1> QED
    BY <1>1, <1>2, <1>3, <1>4, ProceedKeeps

\* A row to be inserted has an id and, within its transaction, a schedule of
\* its own.
LEMMA InsertKeeps ==
  ASSUME IInv, NEW s \in Sessions, Insert(s)
  PROVE  IInv'
  <1> DEFINE id == CHOOSE id \in FreshIds : TRUE
             head == Head(todo[s])
             row == [id |-> id, item |-> head.item, details |-> head.want,
                     active |-> TRUE, version |-> 1]
  <1>1. /\ found[s] # None /\ Proceed(s)
        /\ inserts' = [inserts EXCEPT ![s] = inserts[s] \cup {row}]
        /\ updates' = updates /\ rows' = rows
        /\ id \in FreshIds
        /\ head.want \in Details
    BY NoneAssumption DEF Insert, Proceed
  <1>2. SessionSound(s) /\ todo[s] \in Seq(Schedule) /\ todo[s] # <<>>
    BY <1>1 DEF IInv, TypeOK, SessionSound, FoundSound, Schedule
  <1>3. head \in Schedule
    BY <1>2, TailSound DEF SessionSound, WorkSound
  <1>4. /\ id \in Ids
        /\ \A old \in rows : old.id # id
        /\ \A t \in Sessions : \A new \in inserts[t] : new.id # id
    BY <1>1 DEF FreshIds
  <1> HIDE DEF id
  <1>5. row \in Row /\ row.id = id /\ row.item = head.item
    BY <1>1, <1>3, <1>4 DEF Row, Schedule
  <1>6. \A new \in inserts[s] : new.item # head.item
    BY <1>2, HeadIsNew DEF SessionSound, WorkSound
  <1> HIDE DEF row
  <1>7. /\ inserts' \in [Sessions -> SUBSET Row]
        /\ updates' \in [Sessions -> SUBSET Row]
        /\ inserts'[s] = inserts[s] \cup {row}
        /\ \A t \in Sessions \ {s} : inserts'[t] = inserts[t]
    BY <1>1, <1>5 DEF IInv, TypeOK
  <1>8. \A a, b \in inserts'[s] : a.id = b.id \/ a.item = b.item => a = b
    BY <1>2, <1>4, <1>5, <1>6, <1>7 DEF SessionSound, WorkSound
  <1>9. \A a, b \in updates'[s] : a.id = b.id => a = b
    BY <1>1, <1>2 DEF SessionSound, WorkSound
  <1>10. \A t \in Sessions \ {s} : Apart(s, t)'
    BY <1>1, <1>4, <1>5, <1>7 DEF IInv, Apart
  <1>11. WritesSound(s)'
    BY <1>1, <1>2, <1>4, <1>5, <1>7 DEF SessionSound, WritesSound
  <1>12. \A r \in (updates'[s] \cup inserts'[s]) \ (updates[s] \cup inserts[s]) :
            r.item = head.item
    BY <1>1, <1>5, <1>7
  <1>13. \A t \in Sessions \ {s} :
            updates'[t] = updates[t] /\ inserts'[t] = inserts[t]
    BY <1>1, <1>7
  <1> QED
    BY <1>1, <1>7, <1>8, <1>9, <1>10, <1>11, <1>12, <1>13, ProceedKeeps

\* deactivate() makes at most a new version of a row, which it then is.
LEMMA DeactivatedSucceeds ==
  ASSUME NEW row \in Row
  PROVE  Deactivated(row) \in Row /\ Succeeds(Deactivated(row), row)
  <1>1. CASE row.active
    <2> DEFINE new == [row EXCEPT !.active = FALSE, !.version = row.version + 1]
    <2>1. Deactivated(row) = new
      BY <1>1 DEF Deactivated
    <2>2. row.version + 1 \in Nat
      BY DEF Row
    <2>3. new \in Row
      BY <2>2 DEF Row
    <2>4. new.id = row.id /\ new.item = row.item /\ new.version = row.version + 1
      BY DEF Row
    <2> QED
      BY <2>1, <2>3, <2>4 DEF Succeeds
  <1>2. CASE ~row.active
    BY <1>2 DEF Deactivated, Succeeds
  <1> QED
    BY <1>1, <1>2

\* So do update_details() and the new status.
LEMMA ActivatedSucceeds ==
  ASSUME NEW row \in Row, NEW details \in Details
  PROVE  Activated(row, details) \in Row /\ Succeeds(Activated(row, details), row)
  <1> DEFINE new == [row EXCEPT !.details = details, !.active = TRUE,
                                !.version = row.version + 1]
  <1>1. Activated(row, details) = new
    BY DEF Activated
  <1>2. row.version + 1 \in Nat
    BY DEF Row
  <1>3. new \in Row
    BY <1>2 DEF Row
  <1>4. new.id = row.id /\ new.item = row.item /\ new.version = row.version + 1
    BY DEF Row
  <1> QED
    BY <1>1, <1>3, <1>4 DEF Succeeds

\* A row that no newer version has replaced is the committed one.
LEMMA FoundCommitted ==
  ASSUME IInv, NEW s \in Sessions, found[s] \in Row, Unchanged(found[s])
  PROVE  found[s] \in rows /\ found[s].item = Head(todo[s]).item
  <1>1. PICK row \in rows : ReadBefore(found[s], row)
    BY DEF IInv, SessionSound, FoundSound
  <1>2. PICK current \in rows :
            current.id = found[s].id /\ current.version = found[s].version
    BY DEF Unchanged
  <1>3. current = row
    BY <1>1, <1>2 DEF IInv, IdsUnique, ReadBefore
  <1> QED
    BY <1>1, <1>2, <1>3 DEF ReadBefore, IInv, SessionSound, FoundSound

\* An UPDATE locks its row, which nobody else holds.
LEMMA UpdateKeeps ==
  ASSUME IInv, NEW s \in Sessions, Update(s)
  PROVE  IInv'
  <1> DEFINE head == Head(todo[s])
  <1>1. PICK new : /\ updates' = [updates EXCEPT ![s] = updates[s] \cup {new}]
                   /\ new = IF head.want = Off THEN Deactivated(found[s])
                            ELSE Activated(found[s], head.want)
    BY DEF Update
  <1>2. /\ found[s] \in Row /\ found[s] # None
        /\ head.want \in Details \cup {Off}
        /\ \A t \in Sessions : ~WaitsFor(s, t)
        /\ Unchanged(found[s])
        /\ Proceed(s)
        /\ inserts' = inserts /\ rows' = rows
    BY NoneAssumption DEF Update, Proceed
  <1>3. /\ new \in Row
        /\ found[s] \in rows
        /\ Succeeds(new, found[s])
    <2>1. new \in Row /\ Succeeds(new, found[s])
      BY <1>1, <1>2, DeactivatedSucceeds, ActivatedSucceeds
    <2>2. found[s] \in rows
      BY <1>2, FoundCommitted
    <2> QED
      BY <2>1, <2>2
  <1>4. /\ SessionSound(s) /\ todo[s] \in Seq(Schedule) /\ todo[s] # <<>>
        /\ found[s].item = head.item
    BY <1>2 DEF IInv, TypeOK, SessionSound, FoundSound, Schedule
  <1>5. new.id = found[s].id /\ new.item = head.item
    BY <1>3, <1>4 DEF Succeeds
  <1>6. \A u \in updates[s] : u.id # new.id
    <2> SUFFICES ASSUME NEW u \in updates[s], u.id = new.id PROVE FALSE
      OBVIOUS
    <2>1. PICK old \in rows : Succeeds(u, old)
      BY <1>4 DEF SessionSound, WritesSound
    <2>2. old = found[s]
      BY <1>3, <1>5, <2>1 DEF IInv, IdsUnique, Succeeds
    <2>3. u.item = head.item
      BY <1>4, <2>1, <2>2 DEF Succeeds
    <2>4. head.item # u.item
      BY <1>4, HeadIsNew DEF SessionSound, WorkSound
    <2> QED
      BY <2>3, <2>4
  <1>7. \A t \in Sessions \ {s} : \A u \in updates[t] : u.id # new.id
    BY <1>2, <1>5 DEF WaitsFor
  <1>8. /\ updates' \in [Sessions -> SUBSET Row]
        /\ inserts' \in [Sessions -> SUBSET Row]
        /\ updates'[s] = updates[s] \cup {new}
        /\ \A t \in Sessions \ {s} : updates'[t] = updates[t]
    BY <1>1, <1>2, <1>3 DEF IInv, TypeOK
  <1>9. \A a, b \in updates'[s] : a.id = b.id => a = b
    BY <1>4, <1>6, <1>8 DEF SessionSound, WorkSound
  <1>10. \A a, b \in inserts'[s] : a.id = b.id \/ a.item = b.item => a = b
    BY <1>2, <1>4 DEF SessionSound, WorkSound
  <1>11. \A t \in Sessions \ {s} : Apart(s, t)'
    BY <1>2, <1>7, <1>8 DEF IInv, Apart
  <1>12. WritesSound(s)'
    BY <1>2, <1>3, <1>4, <1>8 DEF SessionSound, WritesSound
  <1>13. \A r \in (updates'[s] \cup inserts'[s]) \ (updates[s] \cup inserts[s]) :
            r.item = head.item
    BY <1>2, <1>5, <1>8
  <1>14. \A t \in Sessions \ {s} :
            updates'[t] = updates[t] /\ inserts'[t] = inserts[t]
    BY <1>2, <1>8
  <1> QED
    BY <1>2, <1>8, <1>9, <1>10, <1>11, <1>12, <1>13, <1>14, ProceedKeeps

-----------------------------------------------------------------------------
(* The commit. *)

\* What a commit makes of the table: each row stays or is succeeded by the one
\* row that was locked for it, and what is new is new in id and in schedule.
LEMMA CommitRows ==
  ASSUME IInv, NEW s \in Sessions, Commit(s)
  PROVE  /\ RowStep
         /\ \A new \in rows' :
               \/ new \in inserts[s]
               \/ \E old \in rows : Succeeds(new, old)
                                    /\ (new # old => new \in updates[s])
         /\ rows' \subseteq Row
         /\ IdsUnique'
         /\ OnePerOrigin'
  <1>1. rows' = {row \in rows : \A new \in updates[s] : new.id # row.id}
                  \cup updates[s] \cup inserts[s]
    BY DEF Commit
  <1>2. /\ \A new \in updates[s] : \E old \in rows : Succeeds(new, old)
        /\ \A new \in inserts[s] : \A row \in rows : row.id # new.id
        /\ \A a, b \in updates[s] : a.id = b.id => a = b
        /\ \A a, b \in inserts[s] : a.id = b.id \/ a.item = b.item => a = b
    BY DEF IInv, SessionSound, WorkSound, WritesSound
  <1>3. \A new \in inserts[s] : \A row \in rows : row.item # new.item
    BY DEF Commit, OriginsFree
  <1>4. \A row \in rows : Succeeds(row, row)
    BY DEF Succeeds
  <1>5. RowStep
    <2> SUFFICES ASSUME NEW old \in rows
                 PROVE  \E new \in rows' : Succeeds(new, old)
      BY DEF RowStep, Succeeds
    <2>1. CASE \A new \in updates[s] : new.id # old.id
      BY <1>1, <1>4, <2>1
    <2>2. CASE \E new \in updates[s] : new.id = old.id
      <3>1. PICK new \in updates[s] : new.id = old.id
        BY <2>2
      <3>2. PICK row \in rows : Succeeds(new, row)
        BY <1>2
      <3>3. row = old
        BY <3>1, <3>2 DEF IInv, IdsUnique, Succeeds
      <3> QED
        BY <1>1, <3>2, <3>3
    <2> QED
      BY <2>1, <2>2
  <1>6. ASSUME NEW new \in rows', new \notin inserts[s]
        PROVE  \E old \in rows : Succeeds(new, old)
                                 /\ (new # old => new \in updates[s])
    BY <1>1, <1>2, <1>4, <1>6
  <1>7. ASSUME NEW a \in rows', NEW b \in rows', a.id = b.id \/ a.item = b.item
        PROVE  a = b
    <2>1. CASE a \in inserts[s] /\ b \in inserts[s]
      BY <1>2, <1>7, <2>1
    <2>2. CASE a \in inserts[s] /\ b \notin inserts[s]
      BY <1>2, <1>3, <1>6, <1>7, <2>2 DEF Succeeds
    <2>3. CASE a \notin inserts[s] /\ b \in inserts[s]
      BY <1>2, <1>3, <1>6, <1>7, <2>3 DEF Succeeds
    <2>4. CASE a \notin inserts[s] /\ b \notin inserts[s]
      <3>1. PICK old \in rows : Succeeds(a, old) /\ (a # old => a \in updates[s])
        BY <1>6, <2>4
      <3>2. PICK other \in rows :
                Succeeds(b, other) /\ (b # other => b \in updates[s])
        BY <1>6, <2>4
      <3>3. old = other
        BY <1>7, <3>1, <3>2 DEF IInv, IdsUnique, OnePerOrigin, Succeeds
      <3>4. a.id = b.id
        BY <3>1, <3>2, <3>3 DEF Succeeds
      <3>5. CASE a \in updates[s] /\ b \in updates[s]
        BY <1>2, <3>4, <3>5
      <3>6. CASE a \notin updates[s]
        BY <1>1, <2>4, <3>1, <3>2, <3>3, <3>4, <3>6
      <3>7. CASE b \notin updates[s]
        BY <1>1, <2>4, <3>1, <3>2, <3>3, <3>4, <3>7
      <3> QED
        BY <3>5, <3>6, <3>7
    <2> QED
      BY <2>1, <2>2, <2>3, <2>4
  <1>8. rows' \subseteq Row
    BY <1>1 DEF IInv, TypeOK
  <1> QED
    BY <1>5, <1>6, <1>7, <1>8 DEF IdsUnique, OnePerOrigin

\* A commit keeps the invariant: the rows the others have locked are not among
\* those it replaces, and what they have read has at most become older.
LEMMA CommitKeeps ==
  ASSUME IInv, NEW s \in Sessions, Commit(s)
  PROVE  IInv'
  <1>1. /\ End(s) /\ budget' = budget
        /\ owed' = owed \ {event[s]}
        /\ handled' = handled \cup {event[s]}
        /\ event[s] \in Events
        /\ disturbed' \subseteq Sessions
    BY DEF Commit, Ready, Busy, IInv, TypeOK
  <1>2. TypeOK'
    BY <1>1, EndRests, CommitRows DEF IInv, TypeOK, Schedule
  <1>3. SessionSound(s)'
    BY <1>1, EndRests, NoneAssumption
    DEF IInv, SessionSound, Rested, WorkSound, FoundSound, WritesSound,
        Distinct, Without
  <1>4. ASSUME NEW t \in Sessions \ {s} PROVE SessionSound(t)'
    <2>1. /\ event'[t] = event[t] /\ todo'[t] = todo[t] /\ found'[t] = found[t]
          /\ updates'[t] = updates[t] /\ inserts'[t] = inserts[t]
      BY <1>1, EndRests DEF IInv
    <2>2. SessionSound(t) /\ Apart(s, t)
      BY DEF IInv
    <2>3. Rested(t)' /\ WorkSound(t)'
      BY <2>1, <2>2 DEF SessionSound, Rested, WorkSound
    <2>4. FoundSound(t)'
      <3> SUFFICES ASSUME found[t] \in Row
                   PROVE  \E row \in rows' : ReadBefore(found[t], row)
        BY <2>1, <2>2 DEF SessionSound, FoundSound
      <3>1. PICK row \in rows : ReadBefore(found[t], row)
        BY <2>2 DEF SessionSound, FoundSound
      <3>2. PICK new \in rows' :
                /\ new.id = row.id /\ new.item = row.item
                /\ new = row \/ new.version = row.version + 1
        BY CommitRows DEF RowStep
      <3>3. found[t].version \in Nat /\ row.version \in Nat
        BY DEF IInv, TypeOK, Row
      <3>4. ReadBefore(found[t], new)
        BY <3>1, <3>2, <3>3 DEF ReadBefore
      <3> QED
        BY <3>4
    <2>5. WritesSound(t)'
      <3>1. ASSUME NEW new \in updates[t]
            PROVE  \E old \in rows' : Succeeds(new, old)
        <4>1. PICK old \in rows : Succeeds(new, old)
          BY <2>2 DEF SessionSound, WritesSound
        <4>2. \A u \in updates[s] : u.id # old.id
          BY <2>2, <4>1 DEF Apart, Succeeds
        <4>3. old \in rows'
          BY <4>2 DEF Commit
        <4> QED
          BY <4>1, <4>3
      <3>2. ASSUME NEW new \in inserts[t], NEW row \in rows'
            PROVE  row.id # new.id
        <4>1. CASE row \in inserts[s]
          BY <2>2, <4>1 DEF Apart
        <4>2. CASE row \notin inserts[s]
          BY <2>2, <4>2, CommitRows DEF SessionSound, WritesSound, Succeeds
        <4> QED
          BY <4>1, <4>2
      <3> QED
        BY <2>1, <3>1, <3>2 DEF WritesSound
    <2> QED
      BY <2>3, <2>4, <2>5 DEF SessionSound
  <1>5. ASSUME NEW t \in Sessions, NEW u \in Sessions, t # u
        PROVE  Apart(t, u)'
    <2>1. /\ updates'[t] \in {updates[t], {}} /\ updates'[u] \in {updates[u], {}}
          /\ inserts'[t] \in {inserts[t], {}} /\ inserts'[u] \in {inserts[u], {}}
      BY <1>1, EndRests DEF IInv
    <2>2. Apart(t, u)
      BY <1>5 DEF IInv
    <2> QED
      BY <2>1, <2>2 DEF Apart
  <1> QED
    BY <1>2, <1>3, <1>4, <1>5, CommitRows DEF IInv

\* Every step keeps the invariant.
LEMMA NextKeeps == IInv /\ [Next]_vars => IInv'
  <1> SUFFICES ASSUME IInv, [Next]_vars PROVE IInv'
    OBVIOUS
  <1>1. budget \in [failures : Nat, duplicates : Nat]
    BY DEF IInv, TypeOK
  <1>2. ASSUME NEW e \in Events, Emit(e) PROVE IInv'
    BY <1>2, EmitKeeps
  <1>3. ASSUME NEW s \in Sessions, NEW e \in Events, Deliver(s, e) PROVE IInv'
    BY <1>1, <1>3, BeginKeeps DEF Deliver
  <1>4. ASSUME NEW s \in Sessions, NEW e \in Events, Redeliver(s, e)
        PROVE  IInv'
    <2>1. budget' \in [failures : Nat, duplicates : Nat]
      BY <1>1, <1>4 DEF Redeliver
    <2> QED
      BY <1>4, <2>1, BeginKeeps DEF Redeliver
  <1>5. ASSUME NEW s \in Sessions, Step(s) PROVE IInv'
    BY <1>1, <1>5, GetByOriginKeeps, InsertKeeps, SkipKeeps, UpdateKeeps,
       CommitKeeps, RollbackKeeps
    DEF Step, LockConflict, DeadlockVictim, Reject, InsertConflict
  <1>6. ASSUME NEW s \in Sessions, Fail(s) PROVE IInv'
    <2>1. budget' \in [failures : Nat, duplicates : Nat]
      BY <1>1, <1>6 DEF Fail
    <2> QED
      BY <1>6, <2>1, RollbackKeeps DEF Fail
  <1>7. CASE UNCHANGED vars
    <2>1. TypeOK' /\ IdsUnique' /\ OnePerOrigin'
      BY <1>7 DEF IInv, TypeOK, IdsUnique, OnePerOrigin, vars
    <2>2. \A s \in Sessions : SessionSound(s)'
      BY <1>7 DEF IInv, SessionSound, Rested, WorkSound, FoundSound,
                  WritesSound, vars
    <2>3. \A s, t \in Sessions : s # t => Apart(s, t)'
      BY <1>7 DEF IInv, Apart, vars
    <2> QED
      BY <2>1, <2>2, <2>3 DEF IInv
  <1> QED
    BY <1>2, <1>3, <1>4, <1>5, <1>6, <1>7 DEF Next

-----------------------------------------------------------------------------
(* What the deliveries achieve. *)

\* What is wanted of a schedule depends on the rows of that schedule only.
LEMMA AppliedElsewhere ==
  ASSUME NEW wanted, NEW item, wanted.item # item, NEW T, NEW U,
         \A row : row.item # item => (row \in T <=> row \in U),
         Applied(wanted, T)
  PROVE  Applied(wanted, U)
  <1>1. \A row : row.item = wanted.item => (row \in T <=> row \in U)
    OBVIOUS
  <1>2. {row \in T : row.item = wanted.item /\ row.active}
          = {row \in U : row.item = wanted.item /\ row.active}
    BY <1>1
  <1> QED
    BY <1>2, Zenon DEF Applied

\* What the loop has dealt with after one more step is the schedule at hand and
\* what it had dealt with before.
LEMMA DealtWith ==
  ASSUME IInv, NEW s \in Sessions, event[s] \in Published, FromPayload(s),
         todo[s] # <<>>, NEW n \in DOMAIN Payload[event[s]],
         Without(Tail(todo[s]), Payload[event[s]][n].item)
  PROVE  \/ Payload[event[s]][n] = Head(todo[s])
         \/ /\ Payload[event[s]][n].item # Head(todo[s]).item
            /\ Without(todo[s], Payload[event[s]][n].item)
  <1> DEFINE payload == Payload[event[s]]
             head == Head(todo[s])
  <1>1. todo[s] \in Seq(Schedule) /\ 1 \in DOMAIN todo[s] /\ head = todo[s][1]
    <2>1. todo[s] \in Seq(Schedule)
      BY DEF IInv, TypeOK, Schedule
    <2> QED
      BY <2>1
  <1>2. CASE payload[n].item = head.item
    <2>1. PICK m \in DOMAIN payload : head = payload[m]
      BY <1>1 DEF FromPayload
    <2>2. m = n
      BY <1>2, <2>1, PayloadAssumption
    <2> QED
      BY <2>1, <2>2
  <1>3. CASE payload[n].item # head.item
    <2> SUFFICES ASSUME NEW m \in DOMAIN todo[s]
                 PROVE  todo[s][m].item # payload[n].item
      BY <1>3 DEF Without
    <2>1. CASE m = 1
      BY <1>1, <1>3, <2>1
    <2>2. CASE m # 1
      <3>1. m - 1 \in DOMAIN Tail(todo[s]) /\ Tail(todo[s])[m - 1] = todo[s][m]
        BY <1>1, <2>2
      <3> QED
        BY <3>1 DEF Without
    <2> QED
      BY <2>1, <2>2
  <1> QED
    BY <1>2, <1>3

\* The loop's step makes progress if it applies the schedule at hand and
\* touches the rows of no other.
LEMMA ProgressKept ==
  ASSUME IInv, NEW s \in Sessions, event[s] \in Published, FromPayload(s),
         todo[s] # <<>>, Progress(s),
         event'[s] = event[s], todo'[s] = Tail(todo[s]),
         \A row : row.item # Head(todo[s]).item =>
            (row \in After(s) <=> row \in After(s)'),
         Applied(Head(todo[s]), After(s)')
  PROVE  Progress(s)'
  <1> DEFINE payload == Payload[event[s]]
             head == Head(todo[s])
  <1> SUFFICES ASSUME NEW n \in DOMAIN payload,
                      Without(Tail(todo[s]), payload[n].item)
               PROVE  Applied(payload[n], After(s)')
    BY DEF Progress
  <1>1. CASE payload[n] = head
    BY <1>1
  <1>2. CASE payload[n].item # head.item /\ Without(todo[s], payload[n].item)
    <2>1. Applied(payload[n], After(s))
      BY <1>2 DEF Progress
    <2>2. payload[n].item # head.item
      BY <1>2
    <2>3. \A row : row.item # head.item =>
              (row \in After(s) <=> row \in After(s)')
      OBVIOUS
    <2> HIDE DEF head, payload
    <2> QED
      BY <2>1, <2>2, <2>3, AppliedElsewhere
  <1>3. \/ payload[n] = head
        \/ payload[n].item # head.item /\ Without(todo[s], payload[n].item)
    BY DealtWith
  <1> QED
    BY <1>1, <1>2, <1>3

\* An INSERT applies its schedule.
LEMMA InsertProgress ==
  ASSUME IInv, NEW s \in Sessions, Insert(s)
  PROVE  /\ \A row : row.item # Head(todo[s]).item =>
               (row \in After(s) <=> row \in After(s)')
         /\ Applied(Head(todo[s]), After(s)')
         /\ inserts[s] \subseteq inserts'[s]
         /\ \A new \in inserts'[s] \ inserts[s] :
               new.item = Head(todo[s]).item
  <1> DEFINE head == Head(todo[s])
             row == [id |-> CHOOSE id \in FreshIds : TRUE, item |-> head.item,
                     details |-> head.want, active |-> TRUE, version |-> 1]
  <1>1. /\ head.want \in Details
        /\ inserts'[s] = inserts[s] \cup {row}
        /\ updates' = updates /\ rows' = rows
    BY DEF Insert, Proceed, IInv, TypeOK
  <1>2. row.item = head.item /\ row.active = TRUE /\ row.details = head.want
    OBVIOUS
  <1> HIDE DEF row
  <1>3. After(s)' = After(s) \cup {row}
    BY <1>1 DEF After
  <1>4. Applied(head, After(s)')
    BY <1>1, <1>2, <1>3, WantsAssumption DEF Applied
  <1> QED
    BY <1>1, <1>2, <1>3, <1>4

\* None of a transaction's writes is for the schedule at hand.
LEMMA WritesElsewhere ==
  ASSUME IInv, NEW s \in Sessions, found[s] # None
  PROVE  \A row \in updates[s] \cup inserts[s] :
            row.item # Head(todo[s]).item
  <1>1. todo[s] \in Seq(Schedule) /\ todo[s] # <<>>
    BY DEF IInv, TypeOK, SessionSound, FoundSound, Schedule
  <1>2. \A row \in updates[s] \cup inserts[s] : Without(todo[s], row.item)
    BY DEF IInv, SessionSound, WorkSound
  <1> QED
    BY <1>1, <1>2, HeadIsNew

\* An UPDATE applies its schedule: it replaces the only row for it.
LEMMA UpdateProgress ==
  ASSUME IInv, NEW s \in Sessions, Update(s)
  PROVE  /\ \A row : row.item # Head(todo[s]).item =>
               (row \in After(s) <=> row \in After(s)')
         /\ Applied(Head(todo[s]), After(s)')
  <1> DEFINE head == Head(todo[s])
             old == found[s]
             new == IF head.want = Off THEN Deactivated(old)
                    ELSE Activated(old, head.want)
  <1>1. /\ old \in Row /\ old # None /\ Unchanged(old)
        /\ head.want \in Details \cup {Off}
        /\ updates'[s] = updates[s] \cup {new}
        /\ inserts' = inserts /\ rows' = rows
    BY NoneAssumption DEF Update, Proceed, IInv, TypeOK
  <1>2. old \in rows /\ old.item = head.item
    BY <1>1, FoundCommitted
  <1>3. Succeeds(new, old)
    BY <1>1, DeactivatedSucceeds, ActivatedSucceeds
  <1>4. /\ head.want = Off => ~new.active
        /\ head.want # Off => new.active /\ new.details = head.want
    BY <1>1 DEF Deactivated, Activated, Row
  <1> HIDE DEF new, old
  <1>5. new.id = old.id /\ new.item = head.item
    BY <1>2, <1>3 DEF Succeeds
  <1>6. \A row \in rows :
            row.item = head.item \/ row.id = old.id => row = old
    BY <1>2 DEF IInv, IdsUnique, OnePerOrigin
  <1>7. \A row \in updates[s] \cup inserts[s] : row.item # head.item
    BY <1>1, WritesElsewhere DEF old
  <1>8. After(s)' =
          {row \in rows : \A u \in updates[s] \cup {new} : u.id # row.id}
            \cup updates[s] \cup {new} \cup inserts[s]
    BY <1>1 DEF After
  <1>9. \A row : row.item # head.item =>
            (row \in After(s) <=> row \in After(s)')
    BY <1>2, <1>5, <1>6, <1>8 DEF After
  <1>10. \A row \in After(s)' : row.item = head.item => row = new
    BY <1>5, <1>6, <1>7, <1>8
  <1>11. new \in After(s)'
    BY <1>8
  <1>12. Applied(head, After(s)')
    <2>1. CASE head.want = Off
      BY <1>4, <1>10, <2>1 DEF Applied
    <2>2. CASE head.want # Off
      BY <1>4, <1>5, <1>11, <2>2 DEF Applied
    <2> QED
      BY <2>1, <2>2
  <1> QED
    BY <1>9, <1>12

\* A schedule that is off may be skipped if no row for it is active.
LEMMA SkipProgress ==
  ASSUME IInv, NEW s \in Sessions, Skip(s),
         \A row \in rows : row.item = Head(todo[s]).item => ~row.active
  PROVE  /\ After(s)' = After(s)
         /\ Applied(Head(todo[s]), After(s)')
  <1>1. After(s)' = After(s)
    BY DEF Skip, Proceed, After
  <1>2. \A row \in updates[s] \cup inserts[s] : row.item # Head(todo[s]).item
    BY WritesElsewhere, NoneAssumption DEF Skip
  <1>3. \A row \in After(s) : row.item = Head(todo[s]).item => ~row.active
    BY <1>2 DEF After
  <1>4. Head(todo[s]).want = Off
    BY DEF Skip
  <1> QED
    BY <1>1, <1>3, <1>4 DEF Applied

\* A step of s that commits nothing leaves what the others achieve.
LEMMA OwnStepAchieves ==
  ASSUME PInv, NEW s \in Sessions, rows' = rows, handled' = handled,
         disturbed \ {s} \subseteq disturbed', Achieves(s)',
         \A t \in Sessions \ {s} :
            /\ event'[t] = event[t] /\ todo'[t] = todo[t]
            /\ found'[t] = found[t]
            /\ updates'[t] = updates[t] /\ inserts'[t] = inserts[t]
  PROVE  SoleEventReflected' /\ \A t \in Sessions : Achieves(t)'
  <1>1. SoleEventReflected'
    BY DEF PInv, SoleEventReflected, Reflects, Applied
  <1>2. ASSUME NEW t \in Sessions \ {s} PROVE Achieves(t)'
    <2>1. /\ event'[t] = event[t] /\ todo'[t] = todo[t]
          /\ found'[t] = found[t]
          /\ updates'[t] = updates[t] /\ inserts'[t] = inserts[t]
      OBVIOUS
    <2>2. After(t)' = After(t)
      BY <2>1 DEF After
    <2>3. Progress(t) <=> Progress(t)'
      BY <2>1, <2>2 DEF Progress
    <2>4. OriginsFree(t) <=> OriginsFree(t)'
      BY <2>1 DEF OriginsFree
    <2>5. Achieves(t)
      BY DEF PInv
    <2>6. FromPayload(t)'
      BY <2>1, <2>5 DEF Achieves, FromPayload
    <2>7. LoneSound(t)'
      BY <2>1, <2>3, <2>4, <2>5 DEF Achieves, LoneSound
    <2>8. SoleSound(t)'
      BY <2>1, <2>3, <2>4, <2>5 DEF Achieves, SoleSound, Only
    <2> QED
      BY <2>6, <2>7, <2>8 DEF Achieves
  <1> QED
    BY <1>1, <1>2

\* A session at rest has nothing to achieve.
LEMMA RestAchieves ==
  ASSUME TypeOK, NEW s \in Sessions, End(s)
  PROVE  Achieves(s)'
  <1>1. event'[s] = None /\ todo'[s] = <<>> /\ updates'[s] = {} /\ inserts'[s] = {}
    BY EndRests
  <1>2. None \notin Published
    BY NoneAssumption DEF Events
  <1> QED
    BY <1>1, <1>2 DEF Achieves, FromPayload, LoneSound, SoleSound

\* A rollback leaves no trace.
LEMMA RollbackAchieves ==
  ASSUME PInv, NEW s \in Sessions, Rollback(s)
  PROVE  SoleEventReflected' /\ \A t \in Sessions : Achieves(t)'
  <1>1. /\ End(s) /\ rows' = rows /\ handled' = handled
        /\ disturbed' = disturbed \ {s}
        /\ TypeOK
    BY DEF Rollback, PInv, IInv
  <1> QED
    BY <1>1, EndRests, RestAchieves, OwnStepAchieves

\* A delivery begins with nothing done.
LEMMA BeginAchieves ==
  ASSUME PInv, NEW s \in Sessions, NEW e \in Events, Begin(s, e)
  PROVE  SoleEventReflected' /\ \A t \in Sessions : Achieves(t)'
  <1>1. /\ event' = [event EXCEPT ![s] = e]
        /\ todo' = [todo EXCEPT ![s] = Schedules(e)]
        /\ rows' = rows /\ handled' = handled /\ found' = found
        /\ updates' = updates /\ inserts' = inserts /\ disturbed' = disturbed
        /\ event[s] = None
    BY DEF Begin, Busy
  <1>2. event'[s] = e /\ todo'[s] = Schedules(e)
    BY <1>1 DEF PInv, IInv, TypeOK
  <1>3. found[s] = None /\ updates[s] = {} /\ inserts[s] = {}
    BY <1>1 DEF PInv, IInv, SessionSound, Rested
  <1>4. Achieves(s)'
    <2>1. CASE e \in Published
      <3>1. todo'[s] = Payload[e]
        BY <1>2, <2>1 DEF Schedules
      <3>2. FromPayload(s)'
        BY <1>2, <2>1, <3>1 DEF FromPayload
      <3>3. Progress(s)'
        BY <1>2, <3>1 DEF Progress, Without
      <3>4. OriginsFree(s)' /\ found'[s] # NoRow
        BY <1>1, <1>3, NoneAssumption DEF OriginsFree
      <3> QED
        BY <3>2, <3>3, <3>4 DEF Achieves, LoneSound, SoleSound
    <2>2. CASE e \notin Published
      BY <1>1, <1>2, <1>3, <2>2
      DEF Schedules, Achieves, FromPayload, LoneSound, SoleSound
    <2> QED
      BY <2>1, <2>2
  <1>5. \A t \in Sessions \ {s} : event'[t] = event[t] /\ todo'[t] = todo[t]
    BY <1>1 DEF PInv, IInv, TypeOK
  <1> QED
    BY <1>1, <1>4, <1>5, OwnStepAchieves

\* Reading finds no row only where there is none.
LEMMA GetByOriginAchieves ==
  ASSUME PInv, NEW s \in Sessions, GetByOrigin(s)
  PROVE  SoleEventReflected' /\ \A t \in Sessions : Achieves(t)'
  <1>1. /\ rows' = rows /\ handled' = handled /\ event' = event /\ todo' = todo
        /\ updates' = updates /\ inserts' = inserts /\ disturbed' = disturbed
    BY DEF GetByOrigin
  <1>2. /\ found'[s] = NoRow => \A row \in rows : row.item # Head(todo[s]).item
        /\ \A t \in Sessions \ {s} : found'[t] = found[t]
    <2>1. NoRow \notin rows
      BY NoneAssumption DEF PInv, IInv, TypeOK, NoRow, Row
    <2> QED
      BY <2>1 DEF GetByOrigin, PInv, IInv, TypeOK
  <1>3. Achieves(s)
    BY DEF PInv
  <1>4. Progress(s)' <=> Progress(s)
    BY <1>1 DEF Progress, After
  <1>5. OriginsFree(s)' <=> OriginsFree(s)
    BY <1>1 DEF OriginsFree
  <1>6. FromPayload(s)'
    BY <1>1, <1>3 DEF Achieves, FromPayload
  <1>7. LoneSound(s)'
    BY <1>1, <1>2, <1>3, <1>4, <1>5 DEF Achieves, LoneSound
  <1>8. SoleSound(s)'
    BY <1>1, <1>3, <1>4, <1>5 DEF Achieves, SoleSound, Only
  <1> QED
    BY <1>1, <1>2, <1>6, <1>7, <1>8, OwnStepAchieves DEF Achieves

\* The loop goes on: if the schedule at hand is applied wherever that is asked
\* for, so is everything before it.
LEMMA ProceedAchieves ==
  ASSUME PInv, NEW s \in Sessions, found[s] # None, Proceed(s),
         \A t \in Sessions \ {s} :
            updates'[t] = updates[t] /\ inserts'[t] = inserts[t],
         \A row : row.item # Head(todo[s]).item =>
            (row \in After(s) <=> row \in After(s)'),
         inserts[s] \subseteq inserts'[s],
         event[s] \in Published /\ s \notin disturbed =>
            Applied(Head(todo[s]), After(s)') /\ OriginsFree(s)',
         event[s] \in Published /\ Only(event[s]) =>
            Applied(Head(todo[s]), After(s)')
  PROVE  SoleEventReflected' /\ \A t \in Sessions : Achieves(t)'
  <1>1. /\ todo[s] # <<>> /\ todo[s] \in Seq(Schedule)
        /\ Achieves(s)
    BY DEF PInv, IInv, TypeOK, SessionSound, FoundSound, Schedule
  <1>2. event[s] \in Published
    BY <1>1 DEF Achieves, FromPayload
  <1>3. /\ todo'[s] = Tail(todo[s]) /\ found'[s] = None
        /\ rows' = rows /\ handled' = handled /\ event' = event
        /\ disturbed' = disturbed
        /\ \A t \in Sessions \ {s} : todo'[t] = todo[t] /\ found'[t] = found[t]
    BY DEF Proceed, PInv, IInv, TypeOK
  <1>4. FromPayload(s)'
    <2>1. \A m \in DOMAIN Tail(todo[s]) :
              m + 1 \in DOMAIN todo[s] /\ Tail(todo[s])[m] = todo[s][m + 1]
      BY <1>1
    <2> QED
      BY <1>1, <1>2, <1>3, <2>1 DEF Achieves, FromPayload
  <1>5. ASSUME Progress(s), Applied(Head(todo[s]), After(s)')
        PROVE  Progress(s)'
    BY <1>1, <1>2, <1>3, <1>5, ProgressKept DEF PInv, Achieves
  <1>6. LoneSound(s)'
    BY <1>1, <1>2, <1>3, <1>5, NoneAssumption DEF Achieves, LoneSound
  <1>7. OriginsFree(s)' => OriginsFree(s)
    BY <1>3 DEF OriginsFree
  <1>8. SoleSound(s)'
    BY <1>1, <1>2, <1>3, <1>5, <1>7 DEF Achieves, SoleSound, Only
  <1> QED
    BY <1>3, <1>4, <1>6, <1>8, OwnStepAchieves DEF Achieves

\* While one publication was applied at most, a schedule which it wants off has
\* no active row, and without any there are no rows.
LEMMA OffStaysOff ==
  ASSUME PInv, NEW s \in Sessions, event[s] \in Published, Only(event[s]),
         todo[s] # <<>>, Head(todo[s]).want = Off
  PROVE  \A row \in rows : row.item = Head(todo[s]).item => ~row.active
  <1> DEFINE e == event[s]
  <1>1. IF e \in handled THEN Reflects(e, rows) ELSE rows = {}
    BY DEF PInv, SoleEventReflected, Only
  <1>2. PICK n \in DOMAIN Payload[e] : Head(todo[s]) = Payload[e][n]
    <2>1. todo[s] \in Seq(Schedule)
      BY DEF PInv, IInv, TypeOK, Schedule
    <2>2. 1 \in DOMAIN todo[s] /\ Head(todo[s]) = todo[s][1]
      BY <2>1
    <2> QED
      BY <2>2 DEF PInv, Achieves, FromPayload
  <1>3. CASE e \in handled
    <2>1. Applied(Payload[e][n], rows)
      BY <1>1, <1>3 DEF Reflects
    <2> QED
      BY <1>2, <2>1 DEF Applied
  <1> QED
    BY <1>1, <1>3

\* One schedule more is as the payload wants it.
LEMMA LoopAchieves ==
  ASSUME PInv, NEW s \in Sessions, Insert(s) \/ Update(s) \/ Skip(s)
  PROVE  SoleEventReflected' /\ \A t \in Sessions : Achieves(t)'
  <1>1. found[s] # None /\ Proceed(s) /\ rows' = rows
    BY NoneAssumption DEF Insert, Update, Skip, Proceed
  <1>2. /\ todo[s] # <<>>
        /\ Achieves(s)
    BY <1>1 DEF PInv, IInv, SessionSound, FoundSound
  <1>3. \A t \in Sessions \ {s} :
            updates'[t] = updates[t] /\ inserts'[t] = inserts[t]
    BY DEF Insert, Update, Skip, PInv, IInv, TypeOK
  <1>4. CASE Insert(s)
    <2>1. found[s] = NoRow
      BY <1>4 DEF Insert
    <2>2. event[s] \in Published /\ s \notin disturbed => OriginsFree(s)'
      BY <1>1, <1>2, <1>4, <2>1, InsertProgress
      DEF PInv, Achieves, LoneSound, OriginsFree
    <2> QED
      BY <1>1, <1>3, <1>4, <2>2, InsertProgress, ProceedAchieves DEF PInv
  <1>5. CASE Update(s)
    <2>1. inserts' = inserts
      BY <1>5 DEF Update
    <2>2. event[s] \in Published /\ s \notin disturbed => OriginsFree(s)'
      BY <1>1, <1>2, <2>1 DEF Achieves, LoneSound, OriginsFree
    <2> QED
      BY <1>1, <1>3, <1>5, <2>1, <2>2, UpdateProgress, ProceedAchieves DEF PInv
  <1>6. CASE Skip(s)
    <2>1. inserts' = inserts /\ found[s] = NoRow /\ Head(todo[s]).want = Off
      BY <1>6 DEF Skip
    <2>2. event[s] \in Published /\ s \notin disturbed =>
              /\ OriginsFree(s)'
              /\ \A row \in rows : row.item = Head(todo[s]).item => ~row.active
      BY <1>1, <1>2, <2>1 DEF Achieves, LoneSound, OriginsFree
    <2>3. event[s] \in Published /\ Only(event[s]) =>
              \A row \in rows : row.item = Head(todo[s]).item => ~row.active
      BY <1>2, <2>1, OffStaysOff
    <2>4. After(s)' = After(s)
      BY <1>6 DEF Skip, Proceed, After
    <2>5. (\A row \in rows : row.item = Head(todo[s]).item => ~row.active)
              => Applied(Head(todo[s]), After(s)')
      BY <1>6, SkipProgress DEF PInv
    <2> QED
      BY <1>1, <1>3, <2>1, <2>2, <2>3, <2>4, <2>5, ProceedAchieves
  <1> QED
    BY <1>4, <1>5, <1>6

\* The commit of a publication that may count on its progress reflects it.
LEMMA CommitReflects ==
  ASSUME NEW s \in Sessions, Commit(s), Progress(s)
  PROVE  Reflects(event[s], rows')
  <1>1. rows' = After(s) /\ todo[s] = <<>>
    BY DEF Commit, Ready, After
  <1>2. \A item : Without(todo[s], item)
    BY <1>1 DEF Without
  <1> QED
    BY <1>1, <1>2 DEF Progress, Reflects

\* What a delivery in flight has done for a schedule survives the commit of
\* another delivery of the same event.
LEMMA ProgressSurvives ==
  ASSUME IInv, NEW s \in Sessions, Commit(s), NEW t \in Sessions \ {s},
         event[t] \in Published, Progress(t), Reflects(event[t], rows')
  PROVE  Progress(t)'
  <1>1. /\ event'[t] = event[t] /\ todo'[t] = todo[t]
        /\ updates'[t] = updates[t] /\ inserts'[t] = inserts[t]
    BY EndRests DEF Commit, IInv
  <1> DEFINE payload == Payload[event[t]]
  <1> SUFFICES ASSUME NEW n \in DOMAIN payload,
                      Without(todo[t], payload[n].item)
               PROVE  Applied(payload[n], After(t)')
    BY <1>1 DEF Progress
  <1> DEFINE wanted == payload[n]
  <1>2. Applied(wanted, After(t)) /\ Applied(wanted, rows')
    BY DEF Progress, Reflects
  <1>3. After(t)' = {row \in rows' : \A new \in updates[t] : new.id # row.id}
                      \cup updates[t] \cup inserts[t]
    BY <1>1 DEF After
  <1>4. updates[t] \cup inserts[t] \subseteq After(t)
    BY DEF After
  <1> HIDE DEF payload, wanted
  <1>5. CASE wanted.want = Off
    <2>1. ASSUME NEW row \in After(t)', row.item = wanted.item, row.active
          PROVE  FALSE
      BY <1>2, <1>3, <1>4, <1>5, <2>1 DEF Applied
    <2>2. Applied(wanted, After(t)')
      BY <1>5, <2>1 DEF Applied
    <2> QED
      BY <2>2 DEF wanted
  <1>6. CASE wanted.want # Off
    <2>1. PICK row \in After(t) :
              row.item = wanted.item /\ row.active /\ row.details = wanted.want
      BY <1>2, <1>6 DEF Applied
    <2>2. PICK now \in rows' :
              now.item = wanted.item /\ now.active /\ now.details = wanted.want
      BY <1>2, <1>6 DEF Applied
    <2>3. row \in After(t)' \/ now \in After(t)'
      <3>1. CASE row \in updates[t] \cup inserts[t]
        BY <1>3, <3>1
      <3>2. CASE row \notin updates[t] \cup inserts[t]
        <4>1. row \in rows /\ \A new \in updates[t] : new.id # row.id
          BY <2>1, <3>2 DEF After
        <4>2. PICK new \in rows' : new.id = row.id /\ new.item = row.item
          BY <4>1, CommitRows DEF RowStep
        <4>3. new = now
          BY <2>1, <2>2, <4>2, CommitRows DEF OnePerOrigin
        <4> QED
          BY <1>3, <4>1, <4>2, <4>3
      <3> QED
        BY <3>1, <3>2
    <2>4. Applied(wanted, After(t)')
      BY <1>6, <2>1, <2>2, <2>3 DEF Applied
    <2> QED
      BY <2>4 DEF wanted
  <1> QED
    BY <1>5, <1>6

\* A commit makes of the table what the only publication applied wants, and
\* disturbs whoever else is at work.
LEMMA CommitAchieves ==
  ASSUME PInv, NEW s \in Sessions, Commit(s)
  PROVE  SoleEventReflected' /\ \A t \in Sessions : Achieves(t)'
  <1> DEFINE f == event[s]
  <1>1. /\ TypeOK /\ IInv /\ End(s)
        /\ OriginsFree(s)
        /\ f \in Events
        /\ handled' = handled \cup {f}
        /\ disturbed' = (disturbed \cup {t \in Sessions : Busy(t)}) \ {s}
    BY DEF PInv, IInv, TypeOK, Commit, Ready, Busy
  <1>2. Achieves(s)
    BY DEF PInv
  <1>3. CASE f \in Suspended
    <2>1. f \notin Published
      BY <1>3, EventsAssumption
    <2>2. updates[s] = {} /\ inserts[s] = {}
      BY <1>2, <2>1 DEF Achieves, FromPayload
    <2>3. rows' = rows
      BY <2>2 DEF Commit
    <2>4. \A e \in Published : /\ Only(e)' => Only(e)
                               /\ e \in handled' => e \in handled
      BY <1>1, <2>1 DEF Only
    <2>5. SoleEventReflected'
      <3> SUFFICES ASSUME NEW e \in Published, Only(e)'
                   PROVE  IF e \in handled' THEN Reflects(e, rows') ELSE rows' = {}
        BY DEF SoleEventReflected, Only, Reflects
      <3>1. IF e \in handled THEN Reflects(e, rows) ELSE rows = {}
        BY <2>4 DEF PInv, SoleEventReflected, Only
      <3> QED
        BY <1>1, <2>1, <2>3, <3>1
    <2>6. ASSUME NEW t \in Sessions \ {s} PROVE Achieves(t)'
      <3>1. /\ event'[t] = event[t] /\ todo'[t] = todo[t]
            /\ updates'[t] = updates[t] /\ inserts'[t] = inserts[t]
        BY <1>1, EndRests
      <3>2. Progress(t)' <=> Progress(t)
        BY <2>3, <3>1 DEF Progress, After
      <3>3. OriginsFree(t)' <=> OriginsFree(t)
        BY <2>3, <3>1 DEF OriginsFree
      <3>4. Achieves(t)
        BY DEF PInv
      <3>5. LoneSound(t)'
        BY <1>1, <3>1, NoneAssumption DEF LoneSound, Busy, Events
      <3>6. SoleSound(t)'
        BY <2>4, <3>1, <3>2, <3>3, <3>4 DEF Achieves, SoleSound
      <3> QED
        BY <3>1, <3>4, <3>5, <3>6 DEF Achieves, FromPayload
    <2> QED
      BY <1>1, <2>5, <2>6, RestAchieves
  <1>4. CASE f \in Published
    <2>1. f \notin Suspended
      BY <1>4, EventsAssumption
    <2>2. ASSUME NEW e \in Published, Only(e)'
          PROVE  e = f /\ Only(f) /\ Reflects(f, rows')
      <3>1. e = f /\ Only(f)
        BY <1>1, <2>1, <2>2 DEF Only
      <3>2. Progress(s)
        BY <1>1, <1>2, <1>4, <3>1 DEF Achieves, SoleSound
      <3> QED
        BY <3>1, <3>2, CommitReflects
    <2>3. SoleEventReflected'
      <3> SUFFICES ASSUME NEW e \in Published, Only(e)'
                   PROVE  e \in handled' /\ Reflects(e, rows')
        BY DEF SoleEventReflected, Only, Reflects
      <3> QED
        BY <1>1, <2>2
    <2>4. ASSUME NEW t \in Sessions \ {s} PROVE Achieves(t)'
      <3>1. /\ event'[t] = event[t] /\ todo'[t] = todo[t]
            /\ updates'[t] = updates[t] /\ inserts'[t] = inserts[t]
        BY <1>1, EndRests
      <3>2. Achieves(t)
        BY DEF PInv
      <3>3. LoneSound(t)'
        BY <1>1, <3>1, NoneAssumption DEF LoneSound, Busy, Events
      <3>4. OriginsFree(t)' => OriginsFree(t)
        <4> SUFFICES ASSUME OriginsFree(t)' PROVE OriginsFree(t)
          OBVIOUS
        <4>1. \A new \in inserts[t], row \in rows' : row.item # new.item
          BY <3>1 DEF OriginsFree
        <4>2. \A row \in rows : \E now \in rows' : now.item = row.item
          BY <1>1, CommitRows DEF RowStep
        <4> QED
          BY <4>1, <4>2 DEF OriginsFree
      <3>5. ASSUME event[t] \in Published, Only(event[t])', OriginsFree(t)'
            PROVE  Progress(t)'
        <4>1. PICK e \in Published : e = event[t] /\ Only(e)'
          BY <3>1, <3>5 DEF Only
        <4>2. e = f /\ Only(f) /\ Reflects(f, rows')
          BY <2>2, <4>1
        <4>3. event[t] = f /\ Only(event[t]) /\ Reflects(event[t], rows')
          BY <4>1, <4>2
        <4>4. Progress(t)
          BY <3>2, <3>4, <3>5, <4>3 DEF Achieves, SoleSound
        <4> QED
          BY <3>5, <4>3, <4>4, ProgressSurvives DEF PInv
      <3>6. SoleSound(t)'
        BY <3>1, <3>5 DEF SoleSound, Only
      <3> QED
        BY <3>1, <3>2, <3>3, <3>6 DEF Achieves, FromPayload
    <2> QED
      BY <1>1, <2>3, <2>4, RestAchieves
  <1> QED
    BY <1>1, <1>3, <1>4 DEF Events

\* Initially no publication has been applied, and the table is empty.
LEMMA InitPInv == Init => PInv
  <1> SUFFICES ASSUME Init PROVE PInv
    OBVIOUS
  <1>1. None \notin Published
    BY NoneAssumption DEF Events
  <1>2. \A s \in Sessions : Achieves(s)
    BY <1>1 DEF Init, Achieves, FromPayload, LoneSound, SoleSound
  <1>3. SoleEventReflected
    BY DEF Init, SoleEventReflected
  <1> QED
    BY <1>2, <1>3, InitIInv DEF PInv

\* Every step keeps what the deliveries achieve.
LEMMA NextPInv == PInv /\ [Next]_vars => PInv'
  <1> SUFFICES ASSUME PInv, [Next]_vars
               PROVE  SoleEventReflected' /\ \A t \in Sessions : Achieves(t)'
    BY NextKeeps DEF PInv
  <1>1. CASE \/ UNCHANGED vars
             \/ \E e \in Events : Emit(e)
    <2>1. UNCHANGED <<rows, handled, event, todo, found, updates, inserts,
                      disturbed>>
      BY <1>1 DEF Emit, vars
    <2>2. SoleEventReflected'
      BY <2>1 DEF PInv, SoleEventReflected, Reflects, Applied
    <2>3. ASSUME NEW t \in Sessions PROVE Achieves(t)'
      <3>1. Progress(t)' <=> Progress(t)
        BY <2>1 DEF Progress, After
      <3>2. OriginsFree(t)' <=> OriginsFree(t)
        BY <2>1 DEF OriginsFree
      <3> QED
        BY <2>1, <3>1, <3>2
        DEF PInv, Achieves, FromPayload, LoneSound, SoleSound, Only
    <2> QED
      BY <2>2, <2>3
  <1>2. ASSUME NEW s \in Sessions, NEW e \in Events, Deliver(s, e) \/ Redeliver(s, e)
        PROVE  SoleEventReflected' /\ \A t \in Sessions : Achieves(t)'
    BY <1>2, BeginAchieves DEF Deliver, Redeliver
  <1>3. ASSUME NEW s \in Sessions, Step(s) \/ Fail(s)
        PROVE  SoleEventReflected' /\ \A t \in Sessions : Achieves(t)'
    BY <1>3, GetByOriginAchieves, LoopAchieves, CommitAchieves, RollbackAchieves
    DEF Step, LockConflict, DeadlockVictim, Reject, InsertConflict, Fail
  <1> QED
    BY <1>1, <1>2, <1>3 DEF Next

\* Nobody ends a whole payload without a commit, except by a failure or after
\* somebody else's commit.
LEMMA LoneDelivery ==
  ASSUME PInv, [Next]_vars
  PROVE  [LoneDeliveryStep]_vars
  <1> SUFFICES ASSUME NEW s \in Sessions, event[s] \in Published, RanAlone(s)
               PROVE  Reflects(event[s], rows')
    BY DEF LoneDeliveryStep
  <1>1. /\ todo[s] = <<>> /\ event[s] # None /\ event'[s] = None
        /\ budget' = budget
        /\ s \notin disturbed
    BY DEF RanAlone, Ready, Busy
  <1>2. found[s] = None
    BY <1>1 DEF PInv, IInv, SessionSound, FoundSound
  <1>3. Progress(s) /\ OriginsFree(s)
    BY <1>1 DEF PInv, Achieves, LoneSound
  <1>4. PICK t \in Sessions : Step(t) \/ Fail(t)
    <2>1. ~ UNCHANGED vars
      BY <1>1 DEF vars
    <2>2. \A e \in Events : ~Emit(e)
      BY <1>1 DEF Emit
    <2>3. \A t \in Sessions, e \in Events : ~Deliver(t, e) /\ ~Redeliver(t, e)
      BY <1>1, NoneAssumption
      DEF Deliver, Redeliver, Begin, Busy, PInv, IInv, TypeOK
    <2> QED
      BY <2>1, <2>2, <2>3 DEF Next
  <1>5. t = s
    BY <1>1, <1>4
    DEF Step, Fail, GetByOrigin, Insert, Skip, Update, Proceed, LockConflict,
        DeadlockVictim, Reject, Commit, InsertConflict, Rollback, End,
        PInv, IInv, TypeOK
  <1>6. ~Fail(s)
    BY <1>1 DEF Fail, PInv, IInv, TypeOK
  <1>7. Commit(s)
    BY <1>1, <1>2, <1>3, <1>4, <1>5, <1>6, NoneAssumption
    DEF Step, GetByOrigin, Insert, Skip, Update, LockConflict, DeadlockVictim,
        WaitsFor, Reject, InsertConflict
  <1> QED
    BY <1>3, <1>7, CommitReflects

-----------------------------------------------------------------------------
(* Refinement: a commit is one step of AtomicUpsert, all else is none. *)

\* What a transaction holds for a schedule it has dealt with: nothing, the
\* revision of the row that is still the committed one, or a row to create.
Holds(s, wanted) ==
    LET updated == Upsert!Of(wanted.item, updates[s])
        created == Upsert!Of(wanted.item, inserts[s])
    IN  \/ wanted.want = Off /\ updated = {} /\ created = {}
        \/ /\ wanted.want \in Details \cup {Off} /\ created = {}
           /\ \E old \in rows :
                 /\ old.item = wanted.item
                 /\ updated = {Upsert!Revised(old, wanted.want)}
        \/ /\ wanted.want \in Details /\ updated = {}
           /\ \E id \in Ids : created = {Upsert!Created(id, wanted)}

\* A delivery is of an event that was emitted, holds something for each
\* schedule dealt with, and for no other schedule.
Tracks(s) ==
    /\ event[s] # None => event[s] \in owed \cup handled
    /\ event[s] \in Published =>
          /\ \A n \in DOMAIN Payload[event[s]] :
                Without(todo[s], Payload[event[s]][n].item) =>
                   Holds(s, Payload[event[s]][n])
          /\ \A row \in updates[s] \cup inserts[s] :
                Upsert!Named(event[s], row.item)

RInv == PInv /\ \A s \in Sessions : Tracks(s)

\* The two ways of saying what an UPDATE makes of a row agree.
LEMMA RevisedIs ==
  ASSUME NEW row \in Row, NEW want
  PROVE  /\ want = Off => Upsert!Revised(row, want) = Deactivated(row)
         /\ want # Off => Upsert!Revised(row, want) = Activated(row, want)
         /\ Upsert!Revised(row, want).id = row.id
         /\ Upsert!Revised(row, want).item = row.item
  <1>1. CASE want # Off
    BY <1>1 DEF Upsert!Revised, Activated, Row
  <1>2. CASE want = Off /\ row.active
    BY <1>2 DEF Upsert!Revised, Deactivated, Row
  <1>3. CASE want = Off /\ ~row.active
    BY <1>3 DEF Upsert!Revised, Deactivated
  <1> QED
    BY <1>1, <1>2, <1>3

\* A step of s that commits nothing concerns s alone.
LEMMA OwnStepTracks ==
  ASSUME RInv, NEW s \in Sessions, rows' = rows, owed' = owed,
         handled' = handled, Tracks(s)',
         \A t \in Sessions \ {s} :
            /\ event'[t] = event[t] /\ todo'[t] = todo[t]
            /\ updates'[t] = updates[t] /\ inserts'[t] = inserts[t]
  PROVE  \A t \in Sessions : Tracks(t)'
  <1> SUFFICES ASSUME NEW t \in Sessions \ {s} PROVE Tracks(t)'
    OBVIOUS
  <1>1. \A wanted : Holds(t, wanted)' <=> Holds(t, wanted)
    BY DEF Holds
  <1>2. Tracks(t)
    BY DEF RInv
  <1> QED
    BY <1>1, <1>2 DEF Tracks

\* A session at rest has nothing to keep track of.
LEMMA RestTracks ==
  ASSUME TypeOK, NEW s \in Sessions, End(s)
  PROVE  Tracks(s)'
  <1>1. event'[s] = None /\ None \notin Published
    BY EndRests, NoneAssumption DEF Events
  <1> QED
    BY <1>1 DEF Tracks

\* Nothing is dealt with when a delivery begins.
LEMMA BeginTracks ==
  ASSUME RInv, NEW s \in Sessions, NEW e \in Events, Begin(s, e),
         e \in owed \cup handled
  PROVE  \A t \in Sessions : Tracks(t)'
  <1>1. /\ event'[s] = e /\ todo'[s] = Schedules(e)
        /\ rows' = rows /\ owed' = owed /\ handled' = handled
        /\ updates' = updates /\ inserts' = inserts
        /\ \A t \in Sessions \ {s} : event'[t] = event[t] /\ todo'[t] = todo[t]
    BY DEF Begin, RInv, PInv, IInv, TypeOK
  <1>2. updates[s] = {} /\ inserts[s] = {}
    BY DEF Begin, Busy, RInv, PInv, IInv, SessionSound, Rested
  <1>3. ASSUME e \in Published, NEW n \in DOMAIN Payload[e]
        PROVE  ~Without(todo'[s], Payload[e][n].item)
    BY <1>1, <1>3 DEF Schedules, Without
  <1>4. Tracks(s)'
    BY <1>1, <1>2, <1>3 DEF Tracks
  <1> QED
    BY <1>1, <1>4, OwnStepTracks

\* The loop goes on: what it holds for the schedule at hand comes on top of
\* what it held for the others.
LEMMA ProceedTracks ==
  ASSUME RInv, NEW s \in Sessions, found[s] # None, Proceed(s),
         \A t \in Sessions \ {s} :
            updates'[t] = updates[t] /\ inserts'[t] = inserts[t],
         NEW head, head = Head(todo[s]), Holds(s, head)',
         \A row : row.item # head.item =>
            /\ row \in updates'[s] <=> row \in updates[s]
            /\ row \in inserts'[s] <=> row \in inserts[s]
  PROVE  \A t \in Sessions : Tracks(t)'
  <1>1. /\ rows' = rows /\ owed' = owed /\ handled' = handled /\ event' = event
        /\ todo'[s] = Tail(todo[s])
        /\ \A t \in Sessions \ {s} : todo'[t] = todo[t]
    BY DEF Proceed, RInv, PInv, IInv, TypeOK
  <1>2. /\ IInv /\ Tracks(s) /\ FromPayload(s)
        /\ todo[s] # <<>> /\ todo[s] \in Seq(Schedule)
    BY DEF RInv, PInv, Achieves, IInv, TypeOK, SessionSound, FoundSound, Schedule
  <1>3. event[s] \in Published /\ Upsert!Named(event[s], head.item)
    <2>1. 1 \in DOMAIN todo[s] /\ head = todo[s][1]
      BY <1>2
    <2> QED
      BY <1>2, <2>1 DEF FromPayload, Upsert!Named
  <1>4. ASSUME NEW wanted, wanted.item # head.item, Holds(s, wanted)
        PROVE  Holds(s, wanted)'
    <2>1. /\ Upsert!Of(wanted.item, updates'[s]) = Upsert!Of(wanted.item, updates[s])
          /\ Upsert!Of(wanted.item, inserts'[s]) = Upsert!Of(wanted.item, inserts[s])
      BY <1>4 DEF Upsert!Of
    <2> QED
      BY <1>1, <1>4, <2>1 DEF Holds
  <1>5. ASSUME NEW n \in DOMAIN Payload[event[s]],
               Without(todo'[s], Payload[event[s]][n].item)
        PROVE  Holds(s, Payload[event[s]][n])'
    <2>1. PICK wanted : wanted = Payload[event[s]][n]
      OBVIOUS
    <2>2. \/ wanted = head
          \/ wanted.item # head.item /\ Without(todo[s], wanted.item)
      BY <1>1, <1>2, <1>3, <1>5, <2>1, DealtWith
    <2>3. CASE wanted = head
      BY <1>1, <2>1, <2>3
    <2>4. CASE wanted.item # head.item /\ Without(todo[s], wanted.item)
      <3>1. Holds(s, wanted)
        BY <1>2, <1>3, <2>1, <2>4 DEF Tracks
      <3>2. Holds(s, wanted)'
        BY <1>4, <2>4, <3>1
      <3> QED
        BY <1>1, <2>1, <3>2
    <2> QED
      BY <2>2, <2>3, <2>4
  <1>6. ASSUME NEW row \in updates'[s] \cup inserts'[s]
        PROVE  Upsert!Named(event[s], row.item)
    BY <1>2, <1>3 DEF Tracks
  <1>7. Tracks(s)'
    BY <1>1, <1>2, <1>3, <1>5, <1>6 DEF Tracks
  <1> QED
    BY <1>1, <1>7, OwnStepTracks

\* Each outcome of the loop's body is one of those in Holds.
LEMMA LoopTracks ==
  ASSUME RInv, NEW s \in Sessions, Insert(s) \/ Update(s) \/ Skip(s)
  PROVE  \A t \in Sessions : Tracks(t)'
  <1> DEFINE head == Head(todo[s])
  <1>1. IInv /\ found[s] # None /\ Proceed(s) /\ rows' = rows
    BY NoneAssumption DEF Insert, Update, Skip, Proceed, RInv, PInv
  <1>2. \A row \in updates[s] \cup inserts[s] : row.item # head.item
    BY <1>1, WritesElsewhere
  <1>3. \A t \in Sessions \ {s} :
            updates'[t] = updates[t] /\ inserts'[t] = inserts[t]
    BY <1>1 DEF Insert, Update, Skip, IInv, TypeOK
  <1>4. PICK wanted : wanted = head
    OBVIOUS
  <1>5. CASE Insert(s)
    <2>1. PICK id \in Ids : inserts'[s] = inserts[s] \cup {Upsert!Created(id, wanted)}
      <3>1. (CHOOSE id \in FreshIds : TRUE) \in Ids
        BY <1>5 DEF Insert, FreshIds
      <3> QED
        BY <1>1, <1>4, <1>5, <3>1 DEF Insert, IInv, TypeOK, Upsert!Created
    <2>2. updates' = updates /\ wanted.want \in Details
      BY <1>4, <1>5 DEF Insert
    <2> DEFINE new == Upsert!Created(id, wanted)
    <2>3. new.item = wanted.item
      BY DEF Upsert!Created
    <2> HIDE DEF new
    <2>4. inserts'[s] = inserts[s] \cup {new}
      BY <2>1 DEF new
    <2>5. /\ Upsert!Of(wanted.item, updates'[s]) = {}
          /\ Upsert!Of(wanted.item, inserts'[s]) = {new}
      BY <1>2, <1>4, <2>2, <2>3, <2>4 DEF Upsert!Of
    <2>6. Holds(s, wanted)'
      BY <2>2, <2>5 DEF Holds, new
    <2> HIDE DEF head
    <2> QED
      BY <1>1, <1>3, <1>4, <2>2, <2>3, <2>4, <2>6, ProceedTracks DEF head
  <1>6. CASE Update(s)
    <2> DEFINE new == Upsert!Revised(found[s], wanted.want)
    <2>1. /\ found[s] \in Row /\ Unchanged(found[s]) /\ inserts' = inserts
          /\ wanted.want \in Details \cup {Off}
      BY <1>4, <1>6 DEF Update
    <2>2. found[s] \in rows /\ found[s].item = wanted.item
      BY <1>1, <1>4, <2>1, FoundCommitted
    <2>3. updates'[s] = updates[s] \cup {new} /\ new.item = wanted.item
      <3>1. updates'[s] = updates[s] \cup
                {IF wanted.want = Off THEN Deactivated(found[s])
                 ELSE Activated(found[s], wanted.want)}
        BY <1>1, <1>4, <1>6 DEF Update, IInv, TypeOK
      <3> QED
        BY <2>1, <2>2, <3>1, RevisedIs
    <2> HIDE DEF new
    <2>4. /\ Upsert!Of(wanted.item, updates'[s]) = {new}
          /\ Upsert!Of(wanted.item, inserts'[s]) = {}
      BY <1>2, <1>4, <2>1, <2>3 DEF Upsert!Of
    <2>5. Holds(s, wanted)'
      BY <1>1, <2>1, <2>2, <2>4 DEF Holds, new
    <2> HIDE DEF head
    <2> QED
      BY <1>1, <1>3, <1>4, <2>1, <2>3, <2>5, ProceedTracks DEF head
  <1>7. CASE Skip(s)
    <2>1. updates' = updates /\ inserts' = inserts /\ wanted.want = Off
      BY <1>4, <1>7 DEF Skip
    <2>2. /\ Upsert!Of(wanted.item, updates'[s]) = {}
          /\ Upsert!Of(wanted.item, inserts'[s]) = {}
      BY <1>2, <1>4, <2>1 DEF Upsert!Of
    <2>3. Holds(s, wanted)'
      BY <2>1, <2>2 DEF Holds
    <2> HIDE DEF head
    <2> QED
      BY <1>1, <1>3, <1>4, <2>1, <2>3, ProceedTracks DEF head
  <1> QED
    BY <1>5, <1>6, <1>7

\* A row that the transaction of t has locked stays committed when s commits.
LEMMA LockedStays ==
  ASSUME IInv, NEW s \in Sessions, Commit(s), NEW t \in Sessions \ {s},
         NEW old \in rows, NEW new \in updates[t], new.id = old.id
  PROVE  old \in rows'
  <1>1. \A u \in updates[s] : u.id # old.id
    BY DEF IInv, Apart
  <1> QED
    BY <1>1 DEF Commit

\* A commit leaves what the others hold as good as it was.
LEMMA CommitTracks ==
  ASSUME RInv, NEW s \in Sessions, Commit(s)
  PROVE  \A t \in Sessions : Tracks(t)'
  <1>1. /\ IInv /\ TypeOK /\ End(s)
        /\ owed' \cup handled' = owed \cup handled \cup {event[s]}
    BY DEF Commit, RInv, PInv, IInv
  <1>2. ASSUME NEW t \in Sessions \ {s} PROVE Tracks(t)'
    <2>1. /\ event'[t] = event[t] /\ todo'[t] = todo[t]
          /\ updates'[t] = updates[t] /\ inserts'[t] = inserts[t]
      BY <1>1, EndRests
    <2>2. Tracks(t)
      BY DEF RInv
    <2>3. ASSUME NEW wanted, Holds(t, wanted) PROVE Holds(t, wanted)'
      <3>1. CASE \E old \in rows :
                    /\ old.item = wanted.item
                    /\ Upsert!Of(wanted.item, updates[t])
                          = {Upsert!Revised(old, wanted.want)}
        <4>1. PICK old \in rows :
                  /\ old.item = wanted.item
                  /\ Upsert!Of(wanted.item, updates[t])
                        = {Upsert!Revised(old, wanted.want)}
          BY <3>1
        <4>2. old \in Row
          BY <1>1 DEF TypeOK
        <4>3. /\ Upsert!Revised(old, wanted.want) \in updates[t]
              /\ Upsert!Revised(old, wanted.want).id = old.id
          BY <4>1, <4>2, RevisedIs DEF Upsert!Of
        <4>4. old \in rows'
          BY <1>1, <4>3, LockedStays
        <4> QED
          BY <2>1, <2>3, <4>1, <4>4 DEF Holds
      <3>2. CASE ~ \E old \in rows :
                      /\ old.item = wanted.item
                      /\ Upsert!Of(wanted.item, updates[t])
                            = {Upsert!Revised(old, wanted.want)}
        BY <2>1, <2>3, <3>2 DEF Holds
      <3> QED
        BY <3>1, <3>2
    <2> QED
      BY <1>1, <2>1, <2>2, <2>3 DEF Tracks
  <1> QED
    BY <1>1, <1>2, RestTracks

\* Outside the schedules that it writes to, a commit leaves the table alone.
LEMMA CommitElsewhere ==
  ASSUME IInv, NEW s \in Sessions, Commit(s), NEW item,
         \A row \in updates[s] \cup inserts[s] : row.item # item
  PROVE  \A row : row.item = item => (row \in rows' <=> row \in rows)
  <1>1. rows' = {row \in rows : \A new \in updates[s] : new.id # row.id}
                  \cup updates[s] \cup inserts[s]
    BY DEF Commit
  <1>2. ASSUME NEW row \in rows, row.item = item, NEW new \in updates[s],
               new.id = row.id
        PROVE  FALSE
    <2>1. PICK old \in rows : Succeeds(new, old)
      BY DEF IInv, SessionSound, WritesSound
    <2>2. old = row
      BY <1>2, <2>1 DEF IInv, IdsUnique, Succeeds
    <2> QED
      BY <1>2, <2>1, <2>2 DEF Succeeds
  <1> QED
    BY <1>1, <1>2

\* What a transaction holds for a schedule is what its commit does to it.
LEMMA CommitUpserts ==
  ASSUME IInv, NEW s \in Sessions, Commit(s), NEW wanted, Holds(s, wanted)
  PROVE  Upsert!Upserted(wanted, Upsert!Of(wanted.item, rows),
                                 Upsert!Of(wanted.item, rows'))
  <1> DEFINE item == wanted.item
             updated == Upsert!Of(item, updates[s])
             created == Upsert!Of(item, inserts[s])
             before == Upsert!Of(item, rows)
             after == Upsert!Of(item, rows')
  <1>1. rows' = {row \in rows : \A new \in updates[s] : new.id # row.id}
                  \cup updates[s] \cup inserts[s]
    BY DEF Commit
  <1>2. CASE wanted.want = Off /\ updated = {} /\ created = {}
    <2>1. \A row \in updates[s] \cup inserts[s] : row.item # item
      BY <1>2 DEF Upsert!Of
    <2>2. after = before
      BY <2>1, CommitElsewhere DEF Upsert!Of
    <2> QED
      BY <1>2, <2>2 DEF Upsert!Upserted
  <1>3. ASSUME wanted.want \in Details \cup {Off}, created = {}, NEW old \in rows,
               old.item = item, updated = {Upsert!Revised(old, wanted.want)}
        PROVE  Upsert!Upserted(wanted, before, after)
    <2> DEFINE new == Upsert!Revised(old, wanted.want)
    <2>1. new.id = old.id /\ new.item = item
      BY <1>3, RevisedIs DEF IInv, TypeOK
    <2> HIDE DEF new
    <2>2. /\ new \in updates[s]
          /\ \A row \in updates[s] : row.item = item => row = new
          /\ \A row \in inserts[s] : row.item # item
      BY <1>3 DEF Upsert!Of, new
    <2>3. \A row \in rows : row.item = item => row = old
      BY <1>3 DEF IInv, OnePerOrigin
    <2>4. before = {old}
      BY <1>3, <2>3 DEF Upsert!Of
    <2>5. after = {new}
      BY <1>1, <2>1, <2>2, <2>3 DEF Upsert!Of
    <2> QED
      BY <1>3, <2>4, <2>5 DEF Upsert!Upserted, new
  <1>4. ASSUME wanted.want \in Details, updated = {}, NEW id \in Ids,
               created = {Upsert!Created(id, wanted)}
        PROVE  Upsert!Upserted(wanted, before, after)
    <2> DEFINE new == Upsert!Created(id, wanted)
    <2>1. new.item = item
      BY DEF Upsert!Created
    <2> HIDE DEF new
    <2>2. /\ new \in inserts[s]
          /\ \A row \in updates[s] : row.item # item
          /\ \A row \in inserts[s] : row.item = item => row = new
      BY <1>4 DEF Upsert!Of, new
    <2>3. \A row \in rows : row.item # item
      BY <2>1, <2>2 DEF Commit, OriginsFree
    <2>4. before = {} /\ after = {new}
      BY <1>1, <2>1, <2>2, <2>3 DEF Upsert!Of
    <2> QED
      BY <1>4, <2>4 DEF Upsert!Upserted, new
  <1> QED
    BY <1>2, <1>3, <1>4 DEF Holds

\* A commit applies its publication to the table as it stands.
LEMMA CommitHandles ==
  ASSUME RInv, NEW s \in Sessions, Commit(s)
  PROVE  event[s] \in Events /\ Upsert!Handle(event[s])
  <1> DEFINE e == event[s]
  <1>1. /\ IInv /\ Tracks(s) /\ FromPayload(s)
        /\ e \in Events /\ e # None /\ todo[s] = <<>>
        /\ owed' = owed \ {e} /\ handled' = handled \cup {e}
    BY DEF Commit, Ready, Busy, RInv, PInv, Achieves, IInv, TypeOK
  <1>2. e \in owed \cup handled
    BY <1>1 DEF Tracks
  <1>3. CASE e \in Published
    <2>1. ASSUME NEW n \in DOMAIN Payload[e]
          PROVE  Upsert!Upserted(Payload[e][n],
                     Upsert!Of(Payload[e][n].item, rows),
                     Upsert!Of(Payload[e][n].item, rows'))
      <3>1. Without(todo[s], Payload[e][n].item)
        BY <1>1 DEF Without
      <3>2. Holds(s, Payload[e][n])
        BY <1>1, <1>3, <3>1 DEF Tracks
      <3> QED
        BY <1>1, <3>2, CommitUpserts
    <2>2. ASSUME NEW row \in (rows \ rows') \cup (rows' \ rows)
          PROVE  Upsert!Named(e, row.item)
      <3>1. PICK new \in updates[s] \cup inserts[s] : new.item = row.item
        BY <1>1, <2>2, CommitElsewhere
      <3> QED
        BY <1>1, <1>3, <3>1 DEF Tracks
    <2>3. \A a, b \in rows' : a.id = b.id => a = b
      BY <1>1, CommitRows DEF IdsUnique
    <2>4. Upsert!Apply(e)
      BY <1>3, <2>1, <2>2, <2>3 DEF Upsert!Apply
    <2> QED
      BY <1>1, <1>2, <2>4 DEF Upsert!Handle
  <1>4. CASE e \in Suspended
    <2>1. e \notin Published
      BY <1>4, EventsAssumption
    <2>2. rows' = rows
      BY <1>1, <2>1 DEF FromPayload, Commit
    <2> QED
      BY <1>1, <1>2, <1>4, <2>2 DEF Upsert!Handle
  <1> QED
    BY <1>1, <1>3, <1>4 DEF Events

\* The invariant holds initially and is kept by every step.
LEMMA InitRInv == Init => RInv
  <1> SUFFICES ASSUME Init PROVE \A s \in Sessions : Tracks(s)
    BY InitPInv DEF RInv
  <1>1. None \notin Published
    BY NoneAssumption DEF Events
  <1> QED
    BY <1>1 DEF Init, Tracks

LEMMA NextRInv == RInv /\ [Next]_vars => RInv'
  <1> SUFFICES ASSUME RInv, [Next]_vars PROVE \A t \in Sessions : Tracks(t)'
    BY NextPInv DEF RInv
  <1>1. CASE (\E e \in Events : Emit(e)) \/ UNCHANGED vars
    <2>1. /\ UNCHANGED <<rows, handled, event, todo, updates, inserts>>
          /\ owed \subseteq owed'
      BY <1>1 DEF Emit, vars
    <2>2. \A t \in Sessions : \A wanted : Holds(t, wanted)' <=> Holds(t, wanted)
      BY <2>1 DEF Holds
    <2> QED
      BY <2>1, <2>2 DEF RInv, Tracks
  <1>2. ASSUME NEW s \in Sessions, NEW e \in Events, Deliver(s, e) \/ Redeliver(s, e)
        PROVE  \A t \in Sessions : Tracks(t)'
    <2>1. Begin(s, e)
      BY <1>2 DEF Deliver, Redeliver
    <2>2. e \in owed \cup handled
      BY <1>2, NoneAssumption DEF Deliver, Redeliver, RInv, Tracks
    <2> QED
      BY <2>1, <2>2, BeginTracks
  <1>3. ASSUME NEW s \in Sessions, GetByOrigin(s)
        PROVE  \A t \in Sessions : Tracks(t)'
    <2>1. UNCHANGED <<rows, owed, handled, event, todo, updates, inserts>>
      BY <1>3 DEF GetByOrigin
    <2>2. \A t \in Sessions : \A wanted : Holds(t, wanted)' <=> Holds(t, wanted)
      BY <2>1 DEF Holds
    <2> QED
      BY <2>1, <2>2 DEF RInv, Tracks
  <1>4. ASSUME NEW s \in Sessions, Rollback(s)
        PROVE  \A t \in Sessions : Tracks(t)'
    <2>1. TypeOK /\ End(s) /\ rows' = rows /\ owed' = owed /\ handled' = handled
      BY <1>4 DEF Rollback, RInv, PInv, IInv
    <2> QED
      BY <2>1, EndRests, RestTracks, OwnStepTracks
  <1>5. ASSUME NEW s \in Sessions, Step(s) \/ Fail(s)
        PROVE  \A t \in Sessions : Tracks(t)'
    BY <1>3, <1>4, <1>5, LoopTracks, CommitTracks
    DEF Step, LockConflict, DeadlockVictim, Reject, InsertConflict, Fail
  <1> QED
    BY <1>1, <1>2, <1>5 DEF Next

\* Emissions and commits are steps of AtomicUpsert, all others leave its
\* variables alone.
LEMMA StepRefines == RInv /\ [Next]_vars => [Upsert!Next]_(Upsert!vars)
  <1> SUFFICES ASSUME RInv, [Next]_vars
               PROVE  Upsert!Next \/ UNCHANGED Upsert!vars
    OBVIOUS
  <1>1. ASSUME NEW e \in Events, Emit(e) PROVE Upsert!Next
    BY <1>1 DEF Emit, Events, Upsert!Accept, Upsert!Next
  <1>2. ASSUME NEW s \in Sessions, Commit(s) PROVE Upsert!Next
    BY <1>2, CommitHandles DEF Events, Upsert!Next
  <1>3. CASE /\ \A e \in Events : ~Emit(e)
             /\ \A s \in Sessions : ~Commit(s)
    BY <1>3
    DEF Next, vars, Deliver, Redeliver, Begin, Step, GetByOrigin, Insert, Skip,
        Update, Proceed, LockConflict, DeadlockVictim, Reject, InsertConflict,
        Fail, Rollback, Upsert!vars
  <1> QED
    BY <1>1, <1>2, <1>3

-----------------------------------------------------------------------------
(* The theorems. *)

\* Every reachable state satisfies the inductive invariant.
THEOREM InductiveInvariant == Spec => []IInv
  BY InitIInv, NextKeeps, PTL DEF Spec

\* Type correctness of the rows, the events and the deliveries.
THEOREM TypeCorrect == Spec => []TypeOK
  <1>1. IInv => TypeOK
    BY DEF IInv
  <1> QED
    BY InductiveInvariant, <1>1, PTL

\* However often and however concurrently events are delivered, there is one
\* requirement for a schedule at most.
THEOREM AlwaysOnePerOrigin == Spec => []OnePerOrigin
  <1>1. IInv => OnePerOrigin
    BY DEF IInv
  <1> QED
    BY InductiveInvariant, <1>1, PTL

\* Each update replaces the version that its delivery has read.
THEOREM UpdatesAlwaysFollowVersions == Spec => UpdatesFollowVersions
  <1>1. IInv /\ [Next]_vars => [RowStep]_vars
    <2> SUFFICES ASSUME IInv, [Next]_vars PROVE RowStep
      OBVIOUS
    <2>1. CASE rows' = rows
      BY <2>1 DEF RowStep
    <2>2. CASE \E s \in Sessions : Commit(s)
      BY <2>2, CommitRows
    <2>3. rows' = rows \/ \E s \in Sessions : Commit(s)
      BY DEF Next, Emit, Deliver, Redeliver, Begin, Step, GetByOrigin, Insert,
             Skip, Update, LockConflict, DeadlockVictim, Reject,
             InsertConflict, Fail, Rollback, Proceed, vars
    <2> QED
      BY <2>1, <2>2, <2>3
  <1> QED
    BY InductiveInvariant, <1>1, PTL DEF Spec, UpdatesFollowVersions

\* What the deliveries achieve is invariant too.
THEOREM ProgressInvariant == Spec => []PInv
  BY InitPInv, NextPInv, PTL DEF Spec

\* However many deliveries of it raced and failed, the only publication applied
\* so far is what the table says, wholly; before there is one it is empty.
THEOREM SoleEventsReflected == Spec => []SoleEventReflected
  <1>1. PInv => SoleEventReflected
    BY DEF PInv
  <1> QED
    BY ProgressInvariant, <1>1, PTL

\* A delivery that runs alone applies its publication over any table.
THEOREM LoneDeliveriesApply == Spec => LoneDeliveryApplies
  <1>1. PInv /\ [Next]_vars => [LoneDeliveryStep]_vars
    BY LoneDelivery
  <1> QED
    BY ProgressInvariant, <1>1, PTL DEF Spec, LoneDeliveryApplies

\* A commit is one step over the table of that moment.
THEOREM RefinementInvariant == Spec => []RInv
  BY InitRInv, NextRInv, PTL DEF Spec

\* Whatever deliveries read before each other's commits and however they end,
\* the table moves as if each committed one were one atomic upsert.
THEOREM ImplementsAtomicUpsert == Spec => AppliesAtomically
  <1>1. Init => Upsert!Init
    BY DEF Init, Upsert!Init
  <1>2. RInv /\ [Next]_vars => [Upsert!Next]_(Upsert!vars)
    BY StepRefines
  <1> QED
    BY RefinementInvariant, <1>1, <1>2, PTL
    DEF Spec, AppliesAtomically, Upsert!Spec

=============================================================================
