-------------------------- MODULE QuotationProofs --------------------------
(***************************************************************************)
(* Proofs about Quotation for any number of requests, items and prices:    *)
(* what the merge protects under concurrency, and what the state machine   *)
(* guarantees to a request that runs alone.                                *)
(***************************************************************************)
EXTENDS Quotation, TLAPS

\* Nobody works on a quotation that does not exist.
AbsentUntouched == status = "ABSENT" => \A s \in Sessions : pc[s] = "idle"

\* A loaded copy is a copy of something.
LoadedExists == \A s \in Sessions : pc[s] # "idle" => copy[s].status # "ABSENT"

\* As long as nothing is committed beside it, a session's copy is the tables.
CopyCurrent(s) ==
    /\ pc[s] \in {"row", "items", "loaded", "pricing"} => copy[s].status = status
    /\ pc[s] \in {"items", "loaded", "pricing"} => copy[s].items = items
    /\ pc[s] = "loaded" => \A i \in items : copy[s].price[i] = price[i]

\* calculate() works on the copy of a draft.
CalculatesDraft ==
    \A s \in Sessions : pc[s] = "pricing" => copy[s].status = "DRAFT"

\* What a lone session is about to save follows from the tables.
SaveFollows(s) ==
    pc[s] = "saving" =>
        /\ seen[s].status = status
        /\ copy[s].status = status \/ <<status, copy[s].status>> \in Transitions
        /\ items \subseteq copy[s].items
        /\ copy[s].status = "SUBMITTED" /\ status # "SUBMITTED"
             => FullyPriced(copy[s])

\* Only stored snapshots are seen.
SeenStored ==
    \A s \in Sessions : pc[s] = "saving" =>
        \A i \in seen[s].priced : price[i] # None

LoneSessions ==
    \A s \in Sessions \ disturbed :
        CopyCurrent(s) /\ SaveFollows(s)

IInv ==
    /\ TypeOK
    /\ AbsentUntouched
    /\ LoadedExists
    /\ CalculatesDraft
    /\ SeenStored
    /\ LoneSessions

LoneInv(s) == CopyCurrent(s) /\ SaveFollows(s)

\* Session s leaves every other session as it was.
OthersKept(s) ==
    \A t \in Sessions \ {s} :
        /\ pc'[t] = pc[t] /\ copy'[t] = copy[t]
        /\ unpriced'[t] = unpriced[t] /\ seen'[t] = seen[t]
        /\ t \in disturbed => t \in disturbed'

-----------------------------------------------------------------------------

\* The initial state satisfies the inductive invariant.
LEMMA InitIInv == Init => IInv
  BY PricesAssumption
  DEF Init, IInv, TypeOK, AbsentUntouched, SeenStored, LoneSessions,
      LoadedExists, CalculatesDraft, CopyCurrent, SaveFollows, Aggregate,
      QuotationStatus, NoPrices, NoCopy, NotSeen

\* A step of one session that leaves the tables alone keeps the invariant if
\* it does so for that session.
LEMMA LocalStep ==
  ASSUME IInv, NEW s \in Sessions, UNCHANGED tables, OthersKept(s), TypeOK',
         pc[s] # "idle" \/ status # "ABSENT",
         pc'[s] = "saving" => \A i \in seen'[s].priced : price[i] # None,
         pc'[s] # "idle" => copy'[s].status # "ABSENT",
         pc'[s] = "pricing" => copy'[s].status = "DRAFT",
         s \notin disturbed' => LoneInv(s)'
  PROVE  IInv'
  <1>1. AbsentUntouched'
    BY DEF IInv, AbsentUntouched, OthersKept, tables
  <1>2. SeenStored'
    BY DEF IInv, SeenStored, OthersKept, tables
  <1>3. ASSUME NEW t \in Sessions \ {s}, t \notin disturbed'
        PROVE  (CopyCurrent(t) /\ SaveFollows(t))'
    <2>1. t \notin disturbed
      BY <1>3 DEF OthersKept
    <2>2. CopyCurrent(t) /\ SaveFollows(t)
      BY <2>1 DEF IInv, LoneSessions
    <2>3. QED
      BY <2>2 DEF CopyCurrent, SaveFollows, OthersKept, tables,
         FullyPriced
  <1>4. LoneSessions'
    BY <1>3 DEF LoneSessions, LoneInv
  <1>5. LoadedExists'
    BY DEF IInv, LoadedExists, OthersKept
  <1>6. CalculatesDraft'
    BY DEF IInv, CalculatesDraft, OthersKept
  <1>7. QED
    BY <1>1, <1>2, <1>4, <1>5, <1>6 DEF IInv

\* One SELECT: the copy takes over what the tables say.
LEMMA LoadKeeps ==
  ASSUME IInv, NEW s \in Sessions, LoadRow(s) \/ LoadItems(s) \/ LoadSnapshots(s)
  PROVE  IInv'
  <1>1. PICK from \in {"idle", "row", "items"}, to \in {"row", "items", "loaded"},
             loaded \in Aggregate : Load(s, from, to, loaded)
    <2>1. CASE LoadRow(s)
      BY <2>1 DEF LoadRow, IInv, TypeOK, Aggregate
    <2>2. CASE LoadItems(s)
      BY <2>2 DEF LoadItems, IInv, TypeOK, Aggregate
    <2>3. CASE LoadSnapshots(s)
      BY <2>3 DEF LoadSnapshots, IInv, TypeOK, Aggregate
    <2>4. QED
      BY <2>1, <2>2, <2>3
  <1>2. TypeOK'
    BY <1>1 DEF Load, IInv, TypeOK, tables
  <1>3. OthersKept(s)
    BY <1>1 DEF Load, OthersKept, IInv, TypeOK
  <1>4. s \notin disturbed' => LoneInv(s)'
    <2> SUFFICES ASSUME s \notin disturbed' PROVE LoneInv(s)'
      OBVIOUS
    <2>1. LoneInv(s)
      BY <1>1 DEF Load, IInv, LoneSessions, LoneInv
    <2>2. CASE LoadRow(s)
      BY <2>1, <2>2 DEF LoadRow, Load, LoneInv, CopyCurrent,
        SaveFollows, IInv, TypeOK, Aggregate, tables
    <2>3. CASE LoadItems(s)
      BY <2>1, <2>3 DEF LoadItems, Load, LoneInv, CopyCurrent,
        SaveFollows, IInv, TypeOK, Aggregate, tables
    <2>4. CASE LoadSnapshots(s)
      BY <2>1, <2>4 DEF LoadSnapshots, Load, LoneInv, CopyCurrent,
        SaveFollows, IInv, TypeOK, Aggregate, tables
    <2>5. QED
      BY <2>2, <2>3, <2>4
  <1>5. UNCHANGED tables /\ pc'[s] \notin {"saving", "pricing"}
    BY <1>1 DEF Load, IInv, TypeOK
  <1>6. pc[s] # "idle" \/ status # "ABSENT"
    BY DEF LoadRow, LoadItems, LoadSnapshots, Load
  <1>7. copy'[s].status # "ABSENT"
    BY DEF LoadRow, LoadItems, LoadSnapshots, Load, IInv, TypeOK, LoadedExists,
       Aggregate
  <1>8. QED
    BY <1>2, <1>3, <1>4, <1>5, <1>6, <1>7, LocalStep

\* A session that rolls back leaves nothing behind.
LEMMA RollbackKeeps ==
  ASSUME IInv, NEW s \in Sessions, pc[s] # "idle", Finish(s),
         disturbed' = disturbed \ {s}, UNCHANGED <<tables, tariff>>
  PROVE  IInv'
  <1>1. TypeOK'
    BY PricesAssumption DEF Finish, IInv, TypeOK, NoCopy, NotSeen, NoPrices,
       Aggregate, tables
  <1>2. OthersKept(s) /\ pc'[s] = "idle"
    BY DEF Finish, OthersKept, IInv, TypeOK
  <1>3. LoneInv(s)'
    BY <1>2 DEF LoneInv, CopyCurrent, SaveFollows
  <1>4. QED
    BY <1>1, <1>2, <1>3, LocalStep

\* save_quotation() of a copy that follows from the tables as long as nothing
\* is committed beside it.
LEMMA SaveKeeps ==
  ASSUME IInv, NEW s \in Sessions, NEW new \in Aggregate,
         pc[s] \in {"loaded", "pricing"}, Save(s, new),
         copy[s].items \subseteq new.items,
         \/ new.status = copy[s].status
         \/ <<copy[s].status, new.status>> \in Transitions,
         s \notin disturbed /\ new.status = "SUBMITTED"
           /\ copy[s].status # "SUBMITTED" => FullyPriced(new)
  PROVE  IInv'
  <1>1. /\ pc'[s] = "saving" /\ copy'[s] = new /\ unpriced'[s] = {}
        /\ seen'[s].status \in {copy[s].status, status}
        /\ seen'[s].priced = {i \in Items : price[i] # None}
        /\ UNCHANGED <<tables, disturbed>>
    BY DEF Save, IInv, TypeOK
  <1>2. TypeOK'
    BY DEF Save, IInv, TypeOK, Aggregate, tables
  <1>3. OthersKept(s)
    BY DEF Save, OthersKept, IInv, TypeOK
  <1>4. s \notin disturbed' => LoneInv(s)'
    <2> SUFFICES ASSUME s \notin disturbed PROVE LoneInv(s)'
      BY <1>1
    <2>1. copy[s].status = status /\ copy[s].items = items
      BY DEF IInv, LoneSessions, CopyCurrent
    <2>2. QED
      BY <1>1, <2>1 DEF LoneInv, CopyCurrent, SaveFollows, tables,
         FullyPriced
  <1>5. new.status # "ABSENT"
    BY DEF IInv, LoadedExists, Transitions
  <1>6. QED
    BY <1>1, <1>2, <1>3, <1>4, <1>5, LocalStep

\* Every step preserves the inductive invariant.
LEMMA NextIInv == IInv /\ [Next]_vars => IInv'
  <1> SUFFICES ASSUME IInv, [Next]_vars PROVE IInv'
    OBVIOUS
  <1>1. CASE Create
    <2>1. \A s \in Sessions : pc[s] = "idle"
      BY <1>1 DEF Create, IInv, AbsentUntouched
    <2>2. QED
      BY <1>1, <2>1 DEF Create, IInv, TypeOK, AbsentUntouched, LoadedExists,
         CalculatesDraft, SeenStored,
         LoneSessions, CopyCurrent, SaveFollows, QuotationStatus
  <1>2. CASE ChangeTariff
    BY <1>2 DEF ChangeTariff, IInv, TypeOK, AbsentUntouched, LoadedExists,
       CalculatesDraft, SeenStored,
       LoneSessions, CopyCurrent, SaveFollows, FullyPriced, tables
  <1>3. ASSUME NEW s \in Sessions, LoadRow(s) \/ LoadItems(s) \/ LoadSnapshots(s)
        PROVE  IInv'
    BY <1>3, LoadKeeps
  <1>4. ASSUME NEW s \in Sessions, Fail(s) \/ CommitConflict(s) PROVE IInv'
    BY <1>4, RollbackKeeps DEF Fail, CommitConflict
  <1>5. ASSUME NEW s \in Sessions, Commit(s) PROVE IInv'
    <2>1. TypeOK'
      BY <1>5, PricesAssumption DEF Commit, Finish, MergedItems, NewSnapshots,
         IInv, TypeOK, Aggregate, NoCopy, NotSeen, NoPrices
    <2>2. /\ \A t \in Sessions : t \notin disturbed' => pc'[t] = "idle"
          /\ pc'[s] = "idle"
          /\ \A t \in Sessions \ {s} : pc'[t] = pc[t] /\ seen'[t] = seen[t]
      BY <1>5 DEF Commit, Finish, IInv, TypeOK
    <2>3. LoneSessions'
      BY <2>2 DEF LoneSessions, CopyCurrent, SaveFollows
    <2>4. status' # "ABSENT"
      BY <1>5 DEF Commit, IInv, AbsentUntouched, LoadedExists
    <2>5. LoadedExists'
      BY <1>5, <2>2 DEF Commit, Finish, IInv, TypeOK, LoadedExists
    <2>6. SeenStored'
      <3>1. \A i \in Items : price[i] # None => price'[i] # None
        BY <1>5 DEF Commit, NewSnapshots, IInv, TypeOK
      <3>2. QED
        BY <2>2, <3>1 DEF IInv, TypeOK, SeenStored
    <2>7. CalculatesDraft'
      BY <1>5, <2>2 DEF Commit, Finish, IInv, TypeOK, CalculatesDraft
    <2>8. QED
      BY <2>1, <2>3, <2>4, <2>5, <2>6, <2>7 DEF IInv, AbsentUntouched
  <1>6. ASSUME NEW s \in Sessions, NEW newStatus \in QuotationStatus,
               Move(s, newStatus),
               \/ newStatus = copy[s].status
               \/ <<copy[s].status, newStatus>> \in Transitions,
               newStatus = "SUBMITTED" /\ copy[s].status # "SUBMITTED"
                 => FullyPriced(copy[s])
        PROVE  IInv'
    <2> DEFINE new == [copy[s] EXCEPT !.status = newStatus]
    <2>1. /\ new \in Aggregate /\ new.status = newStatus
          /\ new.items = copy[s].items /\ new.price = copy[s].price
      BY <1>6 DEF IInv, TypeOK, Aggregate
    <2>2. pc[s] = "loaded" /\ Save(s, new)
      BY <1>6 DEF Move
    <2>3. QED
      BY <1>6, <2>1, <2>2, SaveKeeps DEF FullyPriced
  <1>7. ASSUME NEW s \in Sessions, NEW i \in Items, AddItem(s, i) PROVE IInv'
    <2> DEFINE new == [copy[s] EXCEPT !.items = @ \cup {i}]
    <2>1. copy[s] \in Aggregate /\ copy[s].status = "DRAFT"
      BY <1>7 DEF AddItem, IInv, TypeOK
    <2>2. copy[s].items \cup {i} \in SUBSET Items
      BY <2>1 DEF Aggregate
    <2>3. new \in Aggregate /\ new.items = copy[s].items \cup {i}
      BY <2>1, <2>2 DEF Aggregate
    <2>4. new.status = "DRAFT"
      BY <2>1 DEF Aggregate
    <2>5. pc[s] = "loaded" /\ Save(s, new)
      BY <1>7 DEF AddItem
    <2> HIDE DEF new
    <2>6. QED
      BY <2>1, <2>3, <2>4, <2>5, SaveKeeps
  <1>8. ASSUME NEW s \in Sessions, StartCalculate(s) PROVE IInv'
    <2>1. TypeOK'
      BY <1>8 DEF StartCalculate, IInv, TypeOK, Aggregate, tables
    <2>2. OthersKept(s) /\ pc'[s] = "pricing" /\ copy'[s] = copy[s]
      BY <1>8 DEF StartCalculate, OthersKept, IInv, TypeOK
    <2>3. s \notin disturbed' => LoneInv(s)'
      BY <1>8, <2>2 DEF StartCalculate, IInv, TypeOK, LoneSessions, LoneInv,
         CopyCurrent, SaveFollows, tables
    <2>4. QED
      BY <1>8, <2>1, <2>2, <2>3, LocalStep DEF StartCalculate
  <1>9. ASSUME NEW s \in Sessions, NEW i \in Items, PriceItem(s, i) PROVE IInv'
    <2>1. TypeOK'
      BY <1>9 DEF PriceItem, IInv, TypeOK, Aggregate, tables
    <2>2. /\ OthersKept(s) /\ pc'[s] = "pricing" /\ UNCHANGED <<tables, disturbed>>
          /\ copy'[s].status = copy[s].status /\ copy'[s].items = copy[s].items
      BY <1>9 DEF PriceItem, OthersKept, IInv, TypeOK, Aggregate
    <2>5. s \notin disturbed' => LoneInv(s)'
      BY <1>9, <2>2 DEF PriceItem, IInv, LoneSessions, LoneInv,
         CopyCurrent, SaveFollows, tables
    <2>6. copy'[s].status # "ABSENT"
      BY <1>9, <2>2 DEF PriceItem, IInv, LoadedExists
    <2>7. copy'[s].status = "DRAFT"
      BY <1>9, <2>2 DEF PriceItem, IInv, CalculatesDraft
    <2>8. QED
      BY <1>9, <2>1, <2>2, <2>5, <2>6, <2>7, LocalStep DEF PriceItem
  <1>10. ASSUME NEW s \in Sessions, FinishCalculate(s) PROVE IInv'
    <2> DEFINE new == [copy[s] EXCEPT !.status = "PRICED"]
    <2>1. /\ new \in Aggregate /\ new.status = "PRICED"
          /\ new.items = copy[s].items
      BY DEF IInv, TypeOK, Aggregate, QuotationStatus
    <2>2. pc[s] = "pricing" /\ Save(s, new)
      BY <1>10 DEF FinishCalculate
    <2>3. copy[s].status = "DRAFT"
      BY <2>2 DEF IInv, CalculatesDraft
    <2>4. <<copy[s].status, new.status>> \in Transitions
      BY <2>1, <2>3 DEF Transitions
    <2> HIDE DEF new
    <2>5. QED
      BY <2>1, <2>2, <2>4, SaveKeeps
  <1>11. ASSUME NEW s \in Sessions,
                Submit(s) \/ Approve(s) \/ Reject(s) \/ Expire(s)
         PROVE  IInv'
    <2>1. CASE Submit(s)
      BY <2>1, <1>6 DEF Submit, Transitions, QuotationStatus
    <2>2. CASE Approve(s)
      BY <2>2, <1>6 DEF Approve, Transitions, QuotationStatus
    <2>3. CASE Reject(s)
      BY <2>3, <1>6 DEF Reject, Transitions, QuotationStatus
    <2>4. CASE Expire(s)
      <3>1. copy[s].status \in QuotationStatus
        BY <2>4 DEF Expire, Move, IInv, TypeOK, LoadedExists, Aggregate
      <3>2. CASE copy[s].status \in {"APPROVED", "REJECTED", "EXPIRED"}
        BY <2>4, <1>6, <3>1, <3>2 DEF Expire
      <3>3. CASE copy[s].status \in {"DRAFT", "PRICED", "SUBMITTED"}
        BY <2>4, <1>6, <3>3 DEF Expire, Transitions, QuotationStatus
      <3>4. QED
        BY <3>1, <3>2, <3>3 DEF QuotationStatus
    <2>5. QED
      BY <1>11, <2>1, <2>2, <2>3, <2>4
  <1>12. CASE UNCHANGED vars
    BY <1>12 DEF vars, tables, IInv, TypeOK, AbsentUntouched, LoadedExists,
       SeenStored, LoneSessions, CopyCurrent, SaveFollows,
       CalculatesDraft, FullyPriced
  <1>13. QED
    BY <1>1, <1>2, <1>3, <1>4, <1>5, <1>7, <1>8, <1>9, <1>10, <1>11, <1>12
    DEF Next, Step

-----------------------------------------------------------------------------
(* Steps. *)

\* Only a commit changes stored prices and items, and it adds to them.
LEMMA TablesGrow ==
    IInv /\ [Next]_vars => PricesStandStep /\ items \subseteq items'
  <1> SUFFICES ASSUME IInv, [Next]_vars
               PROVE  PricesStandStep /\ items \subseteq items'
    OBVIOUS
  <1>1. ASSUME NEW s \in Sessions, Commit(s)
        PROVE  PricesStandStep /\ items \subseteq items'
    <2>1. \A i \in Items : price[i] # None => i \notin NewSnapshots(s)
      BY <1>1 DEF Commit, SnapshotConflict, NewSnapshots, IInv, TypeOK
    <2>2. QED
      BY <1>1, <2>1 DEF Commit, MergedItems, PricesStandStep
  <1>2. CASE UNCHANGED <<items, price>>
    BY <1>2 DEF PricesStandStep
  <1>3. (\E s \in Sessions : Commit(s)) \/ UNCHANGED <<items, price>>
    BY DEF Next, Step, Create, ChangeTariff, LoadRow, LoadItems, LoadSnapshots,
       Load, Fail, CommitConflict, AddItem, StartCalculate, PriceItem,
       FinishCalculate, Submit, Approve, Reject, Expire, Move, Save, vars, tables
  <1>4. QED
    BY <1>1, <1>2, <1>3

\* What a lone session saves.
LEMMA LoneSave ==
  ASSUME IInv, [Next]_vars, NEW s \in Sessions, SavedAlone(s)
  PROVE  /\ status' # status => <<status, status'>> \in Transitions
         /\ status # "SUBMITTED" /\ status' = "SUBMITTED"
              => items' # {} /\ \A i \in items' : price'[i] # None
  <1>1. pc[s] = "saving" /\ pc'[s] = "idle" /\ tables' # tables
    BY DEF SavedAlone
  <1>2. PICK t \in Sessions : Commit(t)
    <2>1. ~Create
      BY <1>1 DEF Create, IInv, AbsentUntouched
    <2>2. QED
      BY <1>1, <2>1 DEF Next, Step, ChangeTariff, LoadRow, LoadItems,
         LoadSnapshots, Load, Fail, CommitConflict, AddItem, StartCalculate,
         PriceItem, FinishCalculate, Submit, Approve, Reject, Expire, Move,
         Save, vars, tables
  <1>3. t = s
    BY <1>1, <1>2 DEF Commit, Finish, IInv, TypeOK
  <1>4. /\ seen[s].status = status
        /\ copy[s].status = status \/ <<status, copy[s].status>> \in Transitions
        /\ items \subseteq copy[s].items
        /\ copy[s].status = "SUBMITTED" /\ status # "SUBMITTED"
             => FullyPriced(copy[s])
    BY <1>1 DEF SavedAlone, IInv, LoneSessions, SaveFollows
  <1>5. status' = copy[s].status /\ items' = copy[s].items
    BY <1>2, <1>3, <1>4 DEF Commit, MergedItems
  <1>6. ASSUME FullyPriced(copy[s])
        PROVE  items' # {} /\ \A i \in items' : price'[i] # None
    <2>1. copy[s].items \subseteq Items
      BY DEF IInv, TypeOK, Aggregate
    <2>2. ASSUME NEW i \in copy[s].items PROVE price'[i] # None
      <3>1. CASE i \in NewSnapshots(s)
        BY <1>2, <1>3, <1>6, <2>1, <3>1 DEF Commit, FullyPriced
      <3>2. CASE i \notin NewSnapshots(s)
        <4>1. i \in seen[s].priced
          BY <1>6, <3>2 DEF NewSnapshots, FullyPriced
        <4>2. price[i] # None
          BY <1>1, <4>1 DEF IInv, SeenStored
        <4>3. QED
          BY <1>2, <1>3, <2>1, <3>2, <4>2 DEF Commit
      <3>3. QED
        BY <3>1, <3>2
    <2>3. QED
      BY <1>5, <1>6, <2>2 DEF FullyPriced
  <1>7. QED
    BY <1>4, <1>5, <1>6

-----------------------------------------------------------------------------
(* The theorems. *)

\* Every reachable state satisfies the inductive invariant.
THEOREM InductiveInvariant == Spec => []IInv
  BY InitIInv, NextIInv, PTL DEF Spec

\* Type correctness of the tables and of every session's copy.
THEOREM TypeCorrect == Spec => []TypeOK
  <1>1. IInv => TypeOK
    BY DEF IInv
  <1>2. QED
    BY InductiveInvariant, <1>1, PTL

\* A stored price never changes or disappears, however many calculations race.
THEOREM PricesAlwaysStand == Spec => PricesStand
  <1>1. IInv /\ [Next]_vars => [PricesStandStep]_vars
    BY TablesGrow
  <1>2. QED
    BY InductiveInvariant, <1>1, PTL DEF Spec, PricesStand

\* No save drops an item another request has added.
THEOREM ItemsAlwaysKept == Spec => ItemsKept
  <1>1. IInv /\ [Next]_vars => [items \subseteq items']_vars
    BY TablesGrow
  <1>2. QED
    BY InductiveInvariant, <1>1, PTL DEF Spec, ItemsKept

\* A request that nothing is committed beside respects the state machine.
THEOREM LoneRequestsFollowLifecycle == Spec => LoneRequestFollowsLifecycle
  <1>1. IInv /\ [Next]_vars =>
          [\A s \in Sessions : SavedAlone(s) /\ status' # status =>
              <<status, status'>> \in Transitions]_vars
    BY LoneSave
  <1>2. QED
    BY InductiveInvariant, <1>1, PTL DEF Spec, LoneRequestFollowsLifecycle

\* A submission that nothing is committed beside offers a full price.
THEOREM LoneSubmissionsFullyPriced == Spec => LoneSubmissionFullyPriced
  <1>1. IInv /\ [Next]_vars =>
          [\A s \in Sessions :
              SavedAlone(s) /\ status # "SUBMITTED" /\ status' = "SUBMITTED"
                => items' # {} /\ \A i \in items' : price'[i] # None]_vars
    BY LoneSave
  <1>2. QED
    BY InductiveInvariant, <1>1, PTL DEF Spec, LoneSubmissionFullyPriced

=============================================================================
