----------------------------- MODULE Quotation -----------------------------
(***************************************************************************)
(* One quotation and the requests that work on it concurrently.            *)
(*                                                                         *)
(* QuotationService loads the aggregate with three SELECTs (row, items,    *)
(* price snapshots), changes its copy and hands it to save_quotation(),    *)
(* which merges it into the tables: the status, new items, new snapshots.  *)
(* There is no version and no row lock.  What protects the tables is the   *)
(* merge itself: items are never deleted, stored snapshots never updated.  *)
(***************************************************************************)
EXTENDS Naturals

CONSTANTS
    Sessions,       \* database sessions, one per request in flight
    Items,          \* ids of items that may be added
    Prices,         \* prices the Pricing engine may give an item
    None

ASSUME PricesAssumption == None \notin Prices /\ Prices # {}

QuotationStatus ==
    {"DRAFT", "PRICED", "SUBMITTED", "APPROVED", "REJECTED", "EXPIRED"}

VARIABLES
    status,     \* the quotation row; "ABSENT" before create_quotation()
    items,      \* item rows
    price,      \* snapshot rows: the price of each item, None without snapshot
    tariff,     \* what the Pricing engine answers now
    pc,         \* where each session is in its request
    copy,       \* the aggregate each session has in memory
    unpriced,   \* items calculate() has still to ask a price for
    seen,       \* what save_quotation() found in the tables
    disturbed   \* sessions during whose request another one was committed

tables == <<status, items, price>>
vars == <<tables, tariff, pc, copy, unpriced, seen, disturbed>>

NoPrices == [i \in Items |-> None]
NoCopy == [status |-> "ABSENT", items |-> {}, price |-> NoPrices]
NotSeen == [status |-> "ABSENT", priced |-> {}]

Init ==
    /\ status = "ABSENT"
    /\ items = {}
    /\ price = NoPrices
    /\ tariff \in Prices
    /\ pc = [s \in Sessions |-> "idle"]
    /\ copy = [s \in Sessions |-> NoCopy]
    /\ unpriced = [s \in Sessions |-> {}]
    /\ seen = [s \in Sessions |-> NotSeen]
    /\ disturbed = {}

-----------------------------------------------------------------------------
(* Loading. *)

Create ==
    /\ status = "ABSENT"
    /\ status' = "DRAFT"
    /\ UNCHANGED <<items, price, tariff, pc, copy, unpriced, seen, disturbed>>

\* A price table is activated or a rule edited: the engine's answer changes.
ChangeTariff ==
    /\ tariff' \in Prices \ {tariff}
    /\ UNCHANGED <<tables, pc, copy, unpriced, seen, disturbed>>

\* One SELECT of get_quotation_by_id().
Load(s, from, to, loaded) ==
    /\ pc[s] = from
    /\ pc' = [pc EXCEPT ![s] = to]
    /\ copy' = [copy EXCEPT ![s] = loaded]
    /\ UNCHANGED <<tables, tariff, unpriced, seen, disturbed>>

LoadRow(s) ==
    /\ status # "ABSENT"
    /\ Load(s, "idle", "row", [copy[s] EXCEPT !.status = status])

LoadItems(s) == Load(s, "row", "items", [copy[s] EXCEPT !.items = items])

LoadSnapshots(s) ==
    Load(s, "items", "loaded", [copy[s] EXCEPT !.price =
        [i \in Items |-> IF i \in copy[s].items THEN price[i] ELSE None]])

\* The session closes.
Finish(s) ==
    /\ pc' = [pc EXCEPT ![s] = "idle"]
    /\ copy' = [copy EXCEPT ![s] = NoCopy]
    /\ unpriced' = [unpriced EXCEPT ![s] = {}]
    /\ seen' = [seen EXCEPT ![s] = NotSeen]

\* A domain error, a lost client or a crash: everything is rolled back.
Fail(s) ==
    /\ pc[s] # "idle"
    /\ Finish(s)
    /\ disturbed' = disturbed \ {s}
    /\ UNCHANGED <<tables, tariff>>

-----------------------------------------------------------------------------
(* Saving. *)

\* The reads of save_quotation(): the row, from the identity map if the loaded
\* one is still referenced and else from the table, and the stored snapshots.
Save(s, new) ==
    /\ pc' = [pc EXCEPT ![s] = "saving"]
    /\ copy' = [copy EXCEPT ![s] = new]
    /\ \E rowStatus \in {copy[s].status, status} :
          seen' = [seen EXCEPT ![s] =
            [status |-> rowStatus, priced |-> {i \in Items : price[i] # None}]]
    /\ unpriced' = [unpriced EXCEPT ![s] = {}]
    /\ UNCHANGED <<tables, tariff, disturbed>>

\* Mutant of NewSnapshots: stored snapshots are written again.
AllSnapshots(s) == {i \in copy[s].items : copy[s].price[i] # None}

\* Snapshots the flush INSERTs.
NewSnapshots(s) ==
    {i \in copy[s].items \ seen[s].priced : copy[s].price[i] # None}

SnapshotConflict(s) == \E i \in NewSnapshots(s) \ seen[s].priced : price[i] # None

\* Mutant of MergedItems: the copy's items replace the stored ones.
ReplacedItems(s) == copy[s].items

\* The merge adds the copy's items to the stored ones.
MergedItems(s) == items \cup copy[s].items

\* Flush and COMMIT: an UPDATE of the status only if it differs from the one
\* seen, whatever the row holds by now.
Commit(s) ==
    /\ pc[s] = "saving"
    /\ ~SnapshotConflict(s)
    /\ status' = IF copy[s].status # seen[s].status THEN copy[s].status
                                                    ELSE status
    /\ items' = MergedItems(s)
    /\ price' = [i \in Items |->
                   IF i \in NewSnapshots(s) THEN copy[s].price[i] ELSE price[i]]
    /\ disturbed' = (disturbed \cup {t \in Sessions : pc[t] # "idle"}) \ {s}
    /\ Finish(s)
    /\ UNCHANGED tariff

\* Another request has stored the snapshot since: IntegrityError, rollback.
CommitConflict(s) ==
    /\ pc[s] = "saving"
    /\ SnapshotConflict(s)
    /\ Finish(s)
    /\ disturbed' = disturbed \ {s}
    /\ UNCHANGED <<tables, tariff>>

-----------------------------------------------------------------------------
(* The service's commands. *)

\* The copy with a new status is saved.
Move(s, newStatus) ==
    /\ pc[s] = "loaded"
    /\ Save(s, [copy[s] EXCEPT !.status = newStatus])

AddItem(s, i) ==
    /\ pc[s] = "loaded"
    /\ copy[s].status = "DRAFT"
    /\ i \notin items
    /\ \A t \in Sessions : i \notin copy[t].items
    /\ Save(s, [copy[s] EXCEPT !.items = @ \cup {i}])

\* calculate(): the check, then one call of the engine per item.
StartCalculate(s) ==
    /\ pc[s] = "loaded"
    /\ copy[s].status = "DRAFT"
    /\ pc' = [pc EXCEPT ![s] = "pricing"]
    /\ unpriced' = [unpriced EXCEPT ![s] = copy[s].items]
    /\ UNCHANGED <<tables, tariff, copy, seen, disturbed>>

PriceItem(s, i) ==
    /\ pc[s] = "pricing"
    /\ i \in unpriced[s]
    /\ unpriced' = [unpriced EXCEPT ![s] = @ \ {i}]
    /\ copy' = [copy EXCEPT ![s].price[i] = tariff]
    /\ UNCHANGED <<tables, tariff, pc, seen, disturbed>>

FinishCalculate(s) ==
    /\ pc[s] = "pricing"
    /\ unpriced[s] = {}
    /\ Save(s, [copy[s] EXCEPT !.status = "PRICED"])

FullyPriced(q) == q.items # {} /\ \A i \in q.items : q.price[i] # None

\* Mutant of Submit: only asks whether there are items.
SubmitUnpriced(s) ==
    /\ copy[s].status \in {"DRAFT", "PRICED"}
    /\ copy[s].items # {}
    /\ Move(s, "SUBMITTED")

Submit(s) ==
    /\ copy[s].status \in {"DRAFT", "PRICED"}
    /\ FullyPriced(copy[s])
    /\ Move(s, "SUBMITTED")

\* Mutant of Approve: accepts a quotation that was only priced.
ApprovePriced(s) ==
    /\ copy[s].status \in {"PRICED", "SUBMITTED"}
    /\ Move(s, "APPROVED")

\* The events of the approval are collected and dropped (a TODO in the code).
Approve(s) ==
    /\ copy[s].status = "SUBMITTED"
    /\ Move(s, "APPROVED")

Reject(s) ==
    /\ copy[s].status \in {"DRAFT", "PRICED", "SUBMITTED"}
    /\ Move(s, "REJECTED")

\* Mutant of Expire: a status the enumeration does not have.
ExpireCancelled(s) ==
    Move(s, IF copy[s].status \in {"APPROVED", "REJECTED", "EXPIRED"}
            THEN copy[s].status ELSE "CANCELLED")

\* A terminal quotation is saved as it is.
Expire(s) ==
    Move(s, IF copy[s].status \in {"APPROVED", "REJECTED", "EXPIRED"}
            THEN copy[s].status ELSE "EXPIRED")

Step(s) ==
    \/ LoadRow(s)
    \/ LoadItems(s)
    \/ LoadSnapshots(s)
    \/ Fail(s)
    \/ Commit(s)
    \/ CommitConflict(s)
    \/ \E i \in Items : AddItem(s, i)
    \/ StartCalculate(s)
    \/ \E i \in Items : PriceItem(s, i)
    \/ FinishCalculate(s)
    \/ Submit(s)
    \/ Approve(s)
    \/ Reject(s)
    \/ Expire(s)

Next == Create \/ ChangeTariff \/ \E s \in Sessions : Step(s)

Spec == Init /\ [][Next]_vars

-----------------------------------------------------------------------------
(* Properties. *)

Aggregate == [status : QuotationStatus \cup {"ABSENT"},
              items : SUBSET Items,
              price : [Items -> Prices \cup {None}]]

\* Tables and copies are well formed; a stored snapshot belongs to an item.
TypeOK ==
    /\ status \in QuotationStatus \cup {"ABSENT"}
    /\ items \subseteq Items
    /\ price \in [Items -> Prices \cup {None}]
    /\ \A i \in Items : price[i] # None => i \in items
    /\ tariff \in Prices
    /\ pc \in [Sessions ->
                 {"idle", "row", "items", "loaded", "pricing", "saving"}]
    /\ copy \in [Sessions -> Aggregate]
    /\ unpriced \in [Sessions -> SUBSET Items]
    /\ seen \in [Sessions -> [status : QuotationStatus \cup {"ABSENT"},
                              priced : SUBSET Items]]
    /\ disturbed \subseteq Sessions

\* "Immutable snapshot": once stored, the price of an item stands, although two
\* calculations may race, and a quotation put back to DRAFT by a stale save may
\* be calculated again after the tariff has changed.
PricesStandStep ==
    \A i \in Items : price[i] # None => price'[i] = price[i]

PricesStand == [][PricesStandStep]_vars

\* No committed save drops an item that another request has added since the
\* saving one loaded its copy.
ItemsKept == [][items \subseteq items']_vars

\* Session s has saved and nothing was committed beside it.
SavedAlone(s) ==
    pc[s] = "saving" /\ tables' # tables /\ pc'[s] = "idle" /\ s \notin disturbed

\* Where one request may move the quotation.
Transitions ==
    ({"DRAFT"} \X {"PRICED", "SUBMITTED", "REJECTED", "EXPIRED"})
    \cup ({"PRICED"} \X {"SUBMITTED", "REJECTED", "EXPIRED"})
    \cup ({"SUBMITTED"} \X {"APPROVED", "REJECTED", "EXPIRED"})

\* A request nothing was committed beside moves the quotation along the
\* aggregate's state machine.
LoneRequestFollowsLifecycle ==
    [][\A s \in Sessions : SavedAlone(s) /\ status' # status =>
          <<status, status'>> \in Transitions]_vars

\* A submission nothing was committed beside offers the customer at least one
\* item and a price for every one, whatever races preceded it.
LoneSubmissionFullyPriced ==
    [][\A s \in Sessions :
          SavedAlone(s) /\ status # "SUBMITTED" /\ status' = "SUBMITTED"
             => items' # {} /\ \A i \in items' : price'[i] # None]_vars

=============================================================================
