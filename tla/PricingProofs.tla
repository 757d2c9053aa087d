--------------------------- MODULE PricingProofs ---------------------------
(***************************************************************************)
(* Proofs about Pricing, for any forms, rules, prices and quantities: its  *)
(* types, that at every step of every calculation the parts of a price add *)
(* up and its rules compound, which table a calculation uses, and when a   *)
(* table gets a second item.                                               *)
(***************************************************************************)
EXTENDS Pricing, FiniteSetTheorems, WellFoundedInduction, TLAPS

\* Types, one part per group of variables.
TablesOK ==
    /\ table \in [Tables -> Form \cup {None}]
    /\ item \in [Items -> [table : Tables, price : Prices] \cup {None}]
    /\ created \subseteq Rules

EditsOK ==
    /\ pc \in [Sessions -> {"idle", "loaded", "priced", "applying"}]
    /\ edit \in [Sessions -> [id : Tables \cup {None}, copy : Form \cup {None},
                              items : SUBSET Items]]
    /\ \A s \in Sessions : pc[s] = "loaded" =>
          edit[s].id \in Tables /\ table[edit[s].id] # None /\ edit[s].copy # None
    /\ disturbed \subseteq Sessions

Calculation == [context : Contexts \cup {None}, table : Tables \cup {None},
                total : Nat, final : Int, surcharges : Nat, discounts : Nat,
                read : SUBSET Rules, pending : SUBSET Rules]

AmountsOK == calc \in [Sessions -> Calculation]

Inv == TablesOK /\ EditsOK /\ AmountsOK /\ Balanced

\* What a flush writes is a row, whichever row it was compared with.
LEMMA FlushIsForm ==
    ASSUME NEW form \in Form, NEW row \in Form, NEW now \in Form
    PROVE  Flushed(form, row, now) \in Form
BY DEF Flushed, Form

\* PricingRule.apply() gives an amount for any amount, negative ones included.
LEMMA ApplyIsAmount ==
    ASSUME NEW amount \in Int, NEW r \in Rules
    PROVE  Apply(amount, r) \in Int
<1>1. Rule[r].value \in Nat
  BY RulesAssumption
<1> DEFINE share == (amount * Rule[r].value) \div 100
<1>2. amount * Rule[r].value \in Int
  BY <1>1
<1>3. share \in Int
  BY <1>2
<1> HIDE DEF share
<1>4. /\ amount - share \in Int /\ amount + share \in Int
      /\ amount - Rule[r].value \in Int /\ amount + Rule[r].value \in Int
  BY <1>1, <1>3
<1>5. QED
  BY <1>4 DEF Apply, share

\* The engine books a difference in full, on exactly one of the two sides.
LEMMA DifferenceIsBooked ==
    ASSUME NEW diff \in Int
    PROVE  /\ SurchargeOf(diff) \in Nat /\ DiscountOf(diff) \in Nat
           /\ diff = SurchargeOf(diff) - DiscountOf(diff)
BY DEF SurchargeOf, DiscountOf

LEMMA InitialState == Init => Inv
<1> SUFFICES ASSUME Init PROVE Inv
  OBVIOUS
<1>1. NoCalc \in Calculation
  BY DEF NoCalc, Calculation
<1>2. TablesOK /\ EditsOK
  BY DEF Init, TablesOK, EditsOK, NoEdit
<1>3. AmountsOK
  BY <1>1 DEF Init, AmountsOK
<1>4. Balanced
  <2>1. NoCalc.final = NoCalc.total + NoCalc.surcharges - NoCalc.discounts
    BY DEF NoCalc
  <2>2. \A s \in Sessions : calc[s] = NoCalc
    BY DEF Init
  <2>3. QED
    BY <2>1, <2>2 DEF Balanced
<1>5. QED
  BY <1>2, <1>3, <1>4 DEF Inv

\* A request that ends forgets its copies and its calculation.
LEMMA FinishForgets ==
    ASSUME Inv, NEW s \in Sessions, Finish(s), disturbed' \subseteq Sessions,
           \A t \in Tables : table[t] # None => table'[t] # None
    PROVE  EditsOK' /\ AmountsOK' /\ Balanced'
<1>1. NoCalc \in Calculation
  BY DEF NoCalc, Calculation
<1>2. AmountsOK'
  BY <1>1 DEF Inv, AmountsOK, Finish
<1>3. Balanced'
  BY <1>1 DEF Inv, AmountsOK, Balanced, Finish, NoCalc
<1>4. EditsOK'
  <2>1. edit' = [edit EXCEPT ![s] = NoEdit] /\ pc' = [pc EXCEPT ![s] = "idle"]
    BY DEF Finish
  <2>2. NoEdit \in [id : Tables \cup {None}, copy : Form \cup {None},
                    items : SUBSET Items]
    BY DEF NoEdit
  <2>3. ASSUME NEW t \in Sessions, pc'[t] = "loaded"
        PROVE  /\ edit'[t].id \in Tables /\ table'[edit'[t].id] # None
               /\ edit'[t].copy # None
    BY <2>1, <2>3 DEF Inv, EditsOK
  <2>4. QED
    BY <2>1, <2>2, <2>3 DEF Inv, EditsOK
<1>5. QED
  BY <1>2, <1>3, <1>4

\* save_price_table() writes a row where there was one.
LEMMA SaveWritesForm ==
    ASSUME Inv, NEW s \in Sessions, NEW form \in Form, Save(s, form)
    PROVE  /\ table' \in [Tables -> Form \cup {None}]
           /\ created' = created
           /\ EditsOK' /\ AmountsOK' /\ Balanced'
<1> DEFINE now == table[edit[s].id]
<1>1. /\ edit[s].id \in Tables
      /\ now \in Form /\ edit[s].copy \in Form
  BY DEF Save, Inv, TablesOK, EditsOK
<1>2. PICK row \in {edit[s].copy, now} :
        table' = [table EXCEPT ![edit[s].id] = Flushed(form, row, now)]
  BY DEF Save
<1>3. Flushed(form, row, now) \in Form
  BY <1>1, <1>2, FlushIsForm
<1>4. Flushed(form, row, now) # None
  BY <1>3, FormsAssumption
<1> HIDE DEF now
<1>5. /\ table' \in [Tables -> Form \cup {None}]
      /\ \A t \in Tables : table[t] # None => table'[t] # None
  BY <1>1, <1>2, <1>3, <1>4 DEF Inv, TablesOK
<1>6. Finish(s) /\ disturbed' \subseteq Sessions /\ created' = created
  BY DEF Save, Inv, EditsOK
<1>7. QED
  BY <1>5, <1>6, FinishForgets

LEMMA StepKeepsInvariant == Inv /\ [Next]_vars => Inv'
<1> SUFFICES ASSUME Inv, [Next]_vars PROVE Inv'
  OBVIOUS
<1>1. ASSUME NEW t \in Tables, NEW form \in Forms, CreateTable(t, form)
      PROVE  Inv'
  <2>1. form \in Form /\ form # None
    BY FormsAssumption
  <2>2. table' = [table EXCEPT ![t] = form]
    BY <1>1 DEF CreateTable
  <2>3. TablesOK' /\ EditsOK'
    BY <1>1, <2>1, <2>2 DEF CreateTable, Inv, TablesOK, EditsOK
  <2>4. AmountsOK' /\ Balanced'
    BY <1>1 DEF CreateTable, Inv, AmountsOK, Balanced
  <2>5. QED
    BY <2>3, <2>4 DEF Inv
<1>2. ASSUME NEW r \in Rules, CreateRule(r) PROVE Inv'
  BY <1>2 DEF CreateRule, Inv, TablesOK, EditsOK, AmountsOK, Balanced
<1>3. ASSUME NEW s \in Sessions, Step(s) PROVE Inv'
  <2>1. ASSUME NEW t \in Tables, LoadTable(s, t) PROVE Inv'
    <3>1. TablesOK' /\ AmountsOK' /\ Balanced'
      BY <2>1 DEF LoadTable, tables, Inv, TablesOK, AmountsOK, Balanced
    <3>2. EditsOK'
      <4>1. /\ table[t] \in Form /\ table[t] # None /\ ItemsOf(t) \subseteq Items
        BY <2>1 DEF LoadTable, Inv, TablesOK, ItemsOf
      <4>2. QED
        BY <2>1, <4>1 DEF LoadTable, tables, Inv, EditsOK
    <3>3. QED
      BY <3>1, <3>2 DEF Inv
  <2>2. ASSUME NEW form \in Forms, UpdateTable(s, form) PROVE Inv'
    BY <2>2, SaveWritesForm, FormsAssumption DEF UpdateTable, Inv, TablesOK
  <2>3. CASE ToggleTable(s)
    <3>1. edit[s].copy \in Form
      BY <2>3 DEF ToggleTable, Save, Inv, EditsOK
    <3>2. [edit[s].copy EXCEPT !.active = ~@] \in Form
      BY <3>1 DEF Form
    <3>3. QED
      BY <2>3, <3>2, SaveWritesForm DEF ToggleTable, Inv, TablesOK
  <2>4. ASSUME NEW i \in Items, NEW price \in Prices, AddItem(s, i, price)
        PROVE  Inv'
    <3>1. edit[s].copy \in Form /\ edit[s].id \in Tables
      BY <2>4 DEF AddItem, Save, Inv, EditsOK
    <3>2. item' = [item EXCEPT ![i] = [table |-> edit[s].id, price |-> price]]
      BY <2>4 DEF AddItem
    <3>3. item' \in [Items -> [table : Tables, price : Prices] \cup {None}]
      BY <3>1, <3>2 DEF Inv, TablesOK
    <3>4. QED
      BY <2>4, <3>1, <3>3, SaveWritesForm DEF AddItem, Inv, TablesOK
  <2>5. ASSUME NEW c \in Contexts, NEW t \in Tables, NEW i \in Items,
               NEW quantity \in Quantities, ReadTables(s, c, t, i, quantity)
        PROVE  Inv'
    <3> DEFINE base == item[i].price * quantity
               new == [NoCalc EXCEPT !.context = c, !.table = t,
                                     !.total = base, !.final = base]
    <3>1. base \in Nat
      <4>1. item[i].price \in Prices
        BY <2>5 DEF ReadTables, ItemsOf, Inv, TablesOK
      <4>2. item[i].price \in Nat /\ quantity \in Nat
        BY <4>1, AmountsAssumption
      <4>3. \A m, n \in Nat : m * n \in Nat
        OBVIOUS
      <4>4. QED
        BY <4>2, <4>3
    <3>2. /\ calc' = [calc EXCEPT ![s] = new]
          /\ pc' = [pc EXCEPT ![s] = "priced"]
          /\ UNCHANGED <<tables, edit, disturbed>>
      BY <2>5 DEF ReadTables
    <3> HIDE DEF base
    <3>3. /\ new \in Calculation
          /\ new.final = new.total + new.surcharges - new.discounts
      <4>1. NoCalc \in Calculation
        BY DEF NoCalc, Calculation
      <4>2. new \in Calculation
        <5> DEFINE asked == [NoCalc EXCEPT !.context = c, !.table = t]
        <5>1. asked \in Calculation
          BY <4>1 DEF Calculation
        <5>2. new = [asked EXCEPT !.total = base, !.final = base]
          OBVIOUS
        <5> HIDE DEF asked, new
        <5>3. base \in Nat /\ base \in Int
          BY <3>1
        <5>4. [asked EXCEPT !.total = base] \in Calculation
          BY <5>1, <5>3 DEF Calculation
        <5>5. new = [[asked EXCEPT !.total = base] EXCEPT !.final = base]
          BY <5>2
        <5>6. QED
          BY <5>3, <5>4, <5>5 DEF Calculation
      <4>3. /\ new.final = base /\ new.total = base
            /\ new.surcharges = 0 /\ new.discounts = 0
        BY DEF NoCalc
      <4>4. QED
        BY <3>1, <4>2, <4>3
    <3> HIDE DEF new
    <3>4. AmountsOK' /\ Balanced'
      BY <3>2, <3>3 DEF Inv, AmountsOK, Balanced
    <3>5. TablesOK' /\ EditsOK'
      BY <3>2 DEF tables, Inv, TablesOK, EditsOK
    <3>6. QED
      BY <3>4, <3>5 DEF Inv
  <2>6. CASE ReadRules(s)
    <3> DEFINE read == {r \in created : RuleApplies(r, calc[s].context)}
    <3>1. read \subseteq Rules
      BY DEF Inv, TablesOK
    <3>2. /\ calc' = [calc EXCEPT ![s].read = read, ![s].pending = read]
          /\ pc' = [pc EXCEPT ![s] = "applying"]
          /\ UNCHANGED <<tables, edit, disturbed>>
      BY <2>6 DEF ReadRules
    <3> HIDE DEF read
    <3>3. AmountsOK' /\ Balanced'
      BY <3>1, <3>2 DEF Inv, AmountsOK, Calculation, Balanced
    <3>4. TablesOK' /\ EditsOK'
      BY <3>2 DEF tables, Inv, TablesOK, EditsOK
    <3>5. QED
      BY <3>3, <3>4 DEF Inv
  <2>7. ASSUME NEW r \in Rules, ApplyRule(s, r) PROVE Inv'
    <3> DEFINE new == Apply(calc[s].final, r)
               diff == new - calc[s].final
    <3>1. new \in Int /\ diff \in Int
      BY ApplyIsAmount DEF Inv, AmountsOK, Calculation
    <3>2. /\ SurchargeOf(diff) \in Nat /\ DiscountOf(diff) \in Nat
          /\ diff = SurchargeOf(diff) - DiscountOf(diff)
      BY <3>1, DifferenceIsBooked
    <3>3. /\ calc' = [calc EXCEPT
                        ![s].final = new,
                        ![s].surcharges = @ + SurchargeOf(diff),
                        ![s].discounts = @ + DiscountOf(diff),
                        ![s].pending = @ \ {r}]
          /\ UNCHANGED <<tables, pc, edit, disturbed>>
      BY <2>7 DEF ApplyRule
    <3>4. new = calc[s].final + diff
      BY <3>1 DEF Inv, AmountsOK, Calculation
    <3> HIDE DEF new, diff
    <3>5. calc[s] \in Calculation
      BY DEF Inv, AmountsOK
    <3> DEFINE booked == [calc[s] EXCEPT !.final = new,
                                         !.surcharges = @ + SurchargeOf(diff),
                                         !.discounts = @ + DiscountOf(diff),
                                         !.pending = @ \ {r}]
    <3>6. /\ booked \in Calculation
          /\ booked.final = booked.total + booked.surcharges - booked.discounts
      <4>1. /\ calc[s].total \in Nat /\ calc[s].final \in Int
            /\ calc[s].surcharges \in Nat /\ calc[s].discounts \in Nat
            /\ calc[s].final =
                  calc[s].total + calc[s].surcharges - calc[s].discounts
        BY <3>5 DEF Calculation, Inv, Balanced
      <4>2. booked \in Calculation
        <5> DEFINE up == calc[s].surcharges + SurchargeOf(diff)
                   down == calc[s].discounts + DiscountOf(diff)
                   left == calc[s].pending \ {r}
        <5>1. up \in Nat /\ down \in Nat
          BY <3>2, <4>1
        <5>2. left \in SUBSET Rules
          BY <3>5 DEF Calculation
        <5>3. booked = [calc[s] EXCEPT !.final = new, !.surcharges = up,
                                       !.discounts = down, !.pending = left]
          OBVIOUS
        <5> HIDE DEF up, down, left, booked
        <5>4. QED
          BY <3>1, <3>5, <5>1, <5>2, <5>3 DEF Calculation
      <4>3. /\ booked.final = new /\ booked.total = calc[s].total
            /\ booked.surcharges = calc[s].surcharges + SurchargeOf(diff)
            /\ booked.discounts = calc[s].discounts + DiscountOf(diff)
        BY <3>5 DEF Calculation
      <4>4. QED
        BY <3>1, <3>2, <3>4, <4>1, <4>2, <4>3
    <3>7. calc' = [calc EXCEPT ![s] = booked]
      BY <3>3
    <3> HIDE DEF booked
    <3>8. AmountsOK' /\ Balanced'
      BY <3>6, <3>7 DEF Inv, AmountsOK, Balanced
    <3>9. TablesOK' /\ EditsOK'
      BY <3>3 DEF tables, Inv, TablesOK, EditsOK
    <3>10. QED
      BY <3>8, <3>9 DEF Inv
  <2>8. CASE Answer(s) \/ Fail(s)
    <3>1. Finish(s) /\ disturbed' \subseteq Sessions /\ UNCHANGED tables
      BY <2>8 DEF Answer, Fail, Inv, EditsOK
    <3>2. EditsOK' /\ AmountsOK' /\ Balanced'
      BY <3>1, FinishForgets DEF tables
    <3>3. QED
      BY <3>1, <3>2 DEF tables, Inv, TablesOK
  <2>9. QED
    BY <1>3, <2>1, <2>2, <2>3, <2>4, <2>5, <2>6, <2>7, <2>8 DEF Step
<1>4. CASE UNCHANGED vars
  BY <1>4 DEF vars, tables, Inv, TablesOK, EditsOK, AmountsOK, Balanced
<1>5. QED
  BY <1>1, <1>2, <1>3, <1>4 DEF Next

-----------------------------------------------------------------------------
(* Edits and selections. *)

\* A session that nobody disturbed knows all items of the table it edits.
ItemsKnown ==
    \A s \in Sessions : pc[s] = "loaded" /\ s \notin disturbed =>
        edit[s].items = ItemsOf(edit[s].id)

\* Only a save changes items, and it disturbs whoever else edits a table.
LEMMA StepKeepsItemsKnown == Inv /\ ItemsKnown /\ [Next]_vars => ItemsKnown'
<1> SUFFICES ASSUME Inv, ItemsKnown, [Next]_vars,
                    NEW s \in Sessions, pc'[s] = "loaded", s \notin disturbed'
             PROVE  edit'[s].items = ItemsOf(edit[s].id)'
  BY DEF ItemsKnown
<1>1. CASE UNCHANGED <<item, pc, edit, disturbed>>
  BY <1>1 DEF ItemsKnown, ItemsOf
<1>2. ASSUME NEW t \in Sessions, NEW form, Save(t, form) PROVE FALSE
  <2>1. t # s
    BY <1>2 DEF Save, Finish, Inv, EditsOK
  <2>2. pc[s] = "loaded"
    BY <1>2, <2>1 DEF Save, Finish, Inv, EditsOK
  <2>3. QED
    BY <1>2, <2>1, <2>2 DEF Save
<1>3. ASSUME NEW t \in Sessions, NEW id \in Tables, LoadTable(t, id)
      PROVE  edit'[s].items = ItemsOf(edit[s].id)'
  <2>1. item' = item /\ disturbed' = disturbed
    BY <1>3 DEF LoadTable, tables
  <2>2. CASE s = t
    <3>1. edit'[s].id = id /\ edit'[s].items = ItemsOf(id)
      BY <1>3, <2>2 DEF LoadTable, Inv, EditsOK
    <3>2. QED
      BY <2>1, <3>1 DEF ItemsOf
  <2>3. CASE s # t
    <3>1. pc[s] = "loaded" /\ edit'[s] = edit[s]
      BY <1>3, <2>3 DEF LoadTable, Inv, EditsOK
    <3>2. QED
      BY <2>1, <3>1 DEF ItemsKnown, ItemsOf
  <2>4. QED
    BY <2>2, <2>3
<1>4. ASSUME NEW t \in Sessions, UNCHANGED <<item, edit>>,
             disturbed' = disturbed, pc'[s] = pc[s]
      PROVE  edit'[s].items = ItemsOf(edit[s].id)'
  BY <1>4 DEF ItemsKnown, ItemsOf
<1>5. ASSUME NEW t \in Sessions, Finish(t), disturbed' = disturbed \ {t},
             UNCHANGED tables
      PROVE  edit'[s].items = ItemsOf(edit[s].id)'
  <2>1. s # t
    BY <1>5 DEF Finish, Inv, EditsOK
  <2>2. /\ item' = item /\ edit'[s] = edit[s] /\ pc[s] = "loaded"
        /\ s \notin disturbed
    BY <1>5, <2>1 DEF Finish, tables, Inv, EditsOK
  <2>3. QED
    BY <2>2 DEF ItemsKnown, ItemsOf
<1>6. ASSUME NEW t \in Sessions, Step(t)
      PROVE  edit'[s].items = ItemsOf(edit[s].id)'
  <2>1. CASE \/ \E form \in Forms : UpdateTable(t, form)
             \/ ToggleTable(t)
             \/ \E i \in Items, price \in Prices : AddItem(t, i, price)
    BY <1>2, <2>1 DEF UpdateTable, ToggleTable, AddItem
  <2>2. CASE \E id \in Tables : LoadTable(t, id)
    BY <1>3, <2>2
  <2>3. CASE \/ \E c \in Contexts, id \in Tables, i \in Items, q \in Quantities :
                   ReadTables(t, c, id, i, q)
             \/ ReadRules(t)
    <3>1. pc'[s] = pc[s] /\ UNCHANGED <<tables, edit, disturbed>>
      BY <2>3 DEF ReadTables, ReadRules, Inv, EditsOK
    <3>2. QED
      BY <1>4, <3>1 DEF tables
  <2>4. CASE \E r \in Rules : ApplyRule(t, r)
    BY <1>1, <2>4 DEF ApplyRule, tables
  <2>5. CASE Answer(t) \/ Fail(t)
    BY <1>5, <2>5 DEF Answer, Fail
  <2>6. QED
    BY <1>6, <2>1, <2>2, <2>3, <2>4, <2>5 DEF Step
<1>7. CASE \/ \E t \in Tables, form \in Forms : CreateTable(t, form)
           \/ \E r \in Rules : CreateRule(r)
  BY <1>1, <1>7 DEF CreateTable, CreateRule
<1>8. CASE UNCHANGED vars
  BY <1>1, <1>8 DEF vars, tables
<1>9. QED
  BY <1>6, <1>7, <1>8 DEF Next

\* An item is added where the copy shows none.
LEMMA ItemsAreAdded ==
    ASSUME Inv, ItemsKnown, [Next]_vars
    PROVE  [NewItemStep]_vars
<1> SUFFICES ASSUME NEW i \in Items, item[i] = None, item'[i] # None
             PROVE  \E s \in Sessions :
                      /\ pc[s] = "loaded" /\ pc'[s] = "idle"
                      /\ edit[s].id = item'[i].table
                      /\ s \in disturbed \/ ItemsOf(edit[s].id) = {}
  BY DEF NewItemStep
<1>1. PICK s \in Sessions, j \in Items, price \in Prices : AddItem(s, j, price)
  BY DEF Next, Step, CreateTable, CreateRule, LoadTable, UpdateTable,
         ToggleTable, ReadTables, ReadRules, ApplyRule, Answer, Fail, vars,
         tables
<1>2. pc[s] = "loaded" /\ pc'[s] = "idle"
  BY <1>1 DEF AddItem, Save, Finish, Inv, EditsOK
<1>3. item'[i].table = edit[s].id
  BY <1>1 DEF AddItem, Inv, TablesOK
<1>4. s \notin disturbed => ItemsOf(edit[s].id) = {}
  BY <1>1, <1>2 DEF AddItem, HasItem, ItemsKnown
<1>5. QED
  BY <1>2, <1>3, <1>4

\* _select_best_table() prefers a table named, then one for the customer, then
\* one for the region.
LEMMA BestIsMostSpecific ==
    ASSUME NEW c \in Contexts, NEW t \in BestTables(c), NEW u \in Applicable(c)
    PROVE  Rank(u, c) <= Rank(t, c)
<1>1. t \in Applicable(c)
  BY DEF BestTables
<1>2. CASE c.table # None
  <2>1. t = c.table /\ u = c.table
    BY <1>1, <1>2 DEF Applicable
  <2>2. Rank(t, c) = 3
    BY <2>1 DEF Rank
  <2>3. QED
    BY <2>1, <2>2
<1>3. CASE c.table = None
  <2>1. t # c.table /\ u # c.table
    BY <1>1, <1>3, ContextsAssumption DEF Applicable
  <2>2. CASE ForCustomer(t, c)
    <3>1. Rank(t, c) = 2
      BY <2>1, <2>2 DEF Rank
    <3>2. Rank(u, c) \in {0, 1, 2}
      BY <2>1 DEF Rank
    <3>3. QED
      BY <3>1, <3>2
  <2>3. CASE ~ForCustomer(t, c)
    <3>1. ~ForCustomer(u, c)
      BY <1>3, <2>3 DEF BestTables
    <3>2. CASE ForRegion(t, c)
      <4>1. Rank(t, c) = 1
        BY <2>1, <2>3, <3>2 DEF Rank
      <4>2. Rank(u, c) \in {0, 1}
        BY <2>1, <3>1 DEF Rank
      <4>3. QED
        BY <4>1, <4>2
    <3>3. CASE ~ForRegion(t, c)
      <4>1. ~ForRegion(u, c)
        BY <1>3, <2>3, <3>3 DEF BestTables
      <4>2. Rank(t, c) = 0 /\ Rank(u, c) = 0
        BY <2>1, <2>3, <3>1, <3>3, <4>1 DEF Rank
      <4>3. QED
        BY <4>2
    <3>4. QED
      BY <3>2, <3>3
  <2>4. QED
    BY <2>2, <2>3
<1>4. QED
  BY <1>2, <1>3

\* A calculation starts from what the selection returned.
LEMMA SelectionsAreBest ==
    ASSUME Inv, [Next]_vars
    PROVE  [SelectionStep]_vars
<1> SUFFICES ASSUME NEW s \in Sessions, pc[s] = "idle", pc'[s] = "priced"
             PROVE  \A u \in Applicable(calc'[s].context) :
                      Rank(u, calc'[s].context)
                        <= Rank(calc'[s].table, calc'[s].context)
  BY DEF SelectionStep
<1>1. PICK r \in Sessions, c \in Contexts, t \in Tables, i \in Items,
           q \in Quantities : ReadTables(r, c, t, i, q)
  BY DEF Next, Step, CreateTable, CreateRule, LoadTable, UpdateTable,
         ToggleTable, AddItem, Save, Finish, ReadRules, ApplyRule, Answer, Fail,
         vars, tables, Inv, EditsOK
<1>2. r = s
  BY <1>1 DEF ReadTables, Inv, EditsOK
<1>3. calc'[s].context = c /\ calc'[s].table = t
  BY <1>1, <1>2 DEF ReadTables, NoCalc, Inv, AmountsOK
<1>4. t \in BestTables(c)
  BY <1>1 DEF ReadTables
<1>5. QED
  BY <1>3, <1>4, BestIsMostSpecific

-----------------------------------------------------------------------------
(* Induction over the natural numbers, for sets; the prices that rules     *)
(* compound to, one rule after the other.                                  *)

\* The library's theorem on well-founded relations, for less-than: a set of
\* natural numbers has an element that none of the others precedes.
LEMMA LessThanIsWellFounded ==
    ASSUME NEW T, T \subseteq Nat, T # {}
    PROVE  \E n \in T : \A m \in T : <<m, n>> \notin OpToRel(<, Nat)
BY WFMin, NatLessThanWellFounded, Zenon

\* A set of natural numbers has a least element, unless it is empty.
LEMMA LeastNumber ==
    ASSUME NEW T \in SUBSET Nat, T # {}
    PROVE  \E n \in T : \A m \in T : n <= m
<1>1. PICK n \in T : \A m \in T : <<m, n>> \notin OpToRel(<, Nat)
  <2>1. T \subseteq Nat
    OBVIOUS
  <2>2. QED
    BY <2>1, LessThanIsWellFounded, Zenon
<1>2. ASSUME NEW m \in T PROVE n <= m
  <2>1. n \in Nat /\ m \in Nat
    OBVIOUS
  <2>2. m < n => <<m, n>> \in OpToRel(<, Nat)
    BY <2>1 DEF OpToRel
  <2>3. ~(m < n)
    BY <1>1, <2>2, Zenon
  <2>4. QED
    BY <2>1, <2>3
<1>3. QED
  BY <1>2

\* Induction, for a set of natural numbers.
LEMMA NaturalsByInduction ==
    ASSUME NEW T \in SUBSET Nat, 0 \in T, \A n \in T : n + 1 \in T
    PROVE  T = Nat
<1> SUFFICES ASSUME Nat \ T # {} PROVE FALSE
  OBVIOUS
<1>1. PICK n \in Nat \ T : \A m \in Nat \ T : n <= m
  BY LeastNumber, Nat \ T \in SUBSET Nat
<1>2. n # 0 /\ n - 1 \in Nat
  BY <1>1
<1>3. n - 1 \in T
  BY <1>1, <1>2
<1>4. QED
  BY <1>1, <1>2, <1>3

\* f gives the prices after the first rules of an order, one after the other.
Unfolds(f, base, order, n) ==
    f = [m \in 0..n |-> IF m = 0 THEN base ELSE Apply(f[m - 1], order[m])]

\* There are such prices.
LEMMA PricesUnfold ==
    ASSUME NEW base, NEW order, NEW n \in Nat
    PROVE  \E f : Unfolds(f, base, order, n)
<1> DEFINE T == {k \in Nat : \E f : Unfolds(f, base, order, k)}
<1>1. 0 \in T
  <2> DEFINE f == [m \in 0..0 |-> base]
  <2>1. Unfolds(f, base, order, 0)
    BY DEF Unfolds
  <2>2. QED
    BY <2>1
<1>2. ASSUME NEW k \in T PROVE k + 1 \in T
  <2>1. PICK f : Unfolds(f, base, order, k)
    OBVIOUS
  <2> DEFINE g == [m \in 0..(k + 1) |->
                     IF m <= k THEN f[m] ELSE Apply(f[k], order[k + 1])]
             h == [m \in 0..(k + 1) |->
                     IF m = 0 THEN base ELSE Apply(g[m - 1], order[m])]
  <2>2. k \in Nat
    OBVIOUS
  <2>3. \A m \in 0..k : f[m] = IF m = 0 THEN base ELSE Apply(f[m - 1], order[m])
    BY <2>1 DEF Unfolds
  <2>4. ASSUME NEW m \in 0..(k + 1) PROVE g[m] = h[m]
    <3>1. CASE m = 0
      BY <2>2, <2>3, <3>1
    <3>2. CASE m \in 1..k
      <4>1. g[m] = f[m] /\ g[m - 1] = f[m - 1]
        BY <2>2, <3>2
      <4>2. f[m] = Apply(f[m - 1], order[m])
        BY <2>2, <2>3, <3>2
      <4>3. h[m] = Apply(g[m - 1], order[m])
        BY <2>2, <3>2
      <4>4. QED
        BY <4>1, <4>2, <4>3
    <3>3. CASE m = k + 1
      <4>1. g[m] = Apply(f[k], order[k + 1]) /\ g[m - 1] = f[k]
        BY <2>2, <3>3
      <4>2. h[m] = Apply(g[m - 1], order[m])
        BY <2>2, <3>3
      <4>3. QED
        BY <3>3, <4>1, <4>2
    <3>4. QED
      BY <2>2, <3>1, <3>2, <3>3
  <2>5. g = h
    BY <2>4
  <2>6. Unfolds(g, base, order, k + 1)
    BY <2>5 DEF Unfolds
  <2>7. QED
    BY <2>2, <2>6
<1>3. T = Nat
  <2>1. T \in SUBSET Nat
    OBVIOUS
  <2> HIDE DEF T
  <2>2. QED
    BY <1>1, <1>2, <2>1, NaturalsByInduction
<1>4. QED
  BY <1>3

\* Two orders with the same first rules have the same first prices.
LEMMA PricesAgree ==
    ASSUME NEW base, NEW order, NEW longer, NEW n \in Nat, NEW l \in Nat, n <= l,
           \A m \in 1..n : order[m] = longer[m],
           NEW f, Unfolds(f, base, order, n),
           NEW g, Unfolds(g, base, longer, l)
    PROVE  \A m \in 0..n : f[m] = g[m]
<1> DEFINE T == {k \in Nat : k <= n => f[k] = g[k]}
<1>1. /\ \A m \in 0..n : f[m] = IF m = 0 THEN base ELSE Apply(f[m - 1], order[m])
      /\ \A m \in 0..l : g[m] = IF m = 0 THEN base ELSE Apply(g[m - 1], longer[m])
  BY DEF Unfolds
<1>2. 0 \in T
  BY <1>1
<1>3. ASSUME NEW k \in T PROVE k + 1 \in T
  <2>1. CASE k + 1 <= n
    <3>1. f[k] = g[k] /\ order[k + 1] = longer[k + 1]
      BY <2>1
    <3>2. /\ f[k + 1] = Apply(f[k], order[k + 1])
          /\ g[k + 1] = Apply(g[k], longer[k + 1])
      <4>1. k + 1 \in 0..n /\ k + 1 \in 0..l /\ k + 1 # 0 /\ (k + 1) - 1 = k
        BY <2>1
      <4>2. QED
        BY <1>1, <4>1
    <3>3. QED
      BY <3>1, <3>2
  <2>2. QED
    BY <2>1
<1>4. T = Nat
  <2>1. T \in SUBSET Nat
    OBVIOUS
  <2> HIDE DEF T
  <2>2. QED
    BY <1>2, <1>3, <2>1, NaturalsByInduction
<1>5. QED
  BY <1>4

LEMMA CompoundUnfolds ==
    ASSUME NEW base, NEW order, NEW n \in Nat
    PROVE  \E f : Unfolds(f, base, order, n) /\ Compound(base, order, n) = f[n]
<1> DEFINE price == CHOOSE f : Unfolds(f, base, order, n)
<1>1. Unfolds(price, base, order, n)
  <2>1. \E f : Unfolds(f, base, order, n)
    BY PricesUnfold
  <2> HIDE DEF Unfolds
  <2>2. QED
    BY <2>1
<1>2. Compound(base, order, n) = price[n]
  BY Zenon DEF Compound, Unfolds
<1> HIDE DEF price
<1>3. QED
  BY <1>1, <1>2

\* Without rules the price is the base price.
LEMMA CompoundNone ==
    ASSUME NEW base, NEW order
    PROVE  Compound(base, order, 0) = base
<1>1. PICK f : Unfolds(f, base, order, 0) /\ Compound(base, order, 0) = f[0]
  BY CompoundUnfolds
<1>2. QED
  BY <1>1 DEF Unfolds

\* One more rule is applied to what the rules before it come to.
LEMMA CompoundMore ==
    ASSUME NEW base, NEW order, NEW longer, NEW n \in Nat,
           \A m \in 1..n : order[m] = longer[m]
    PROVE  Compound(base, longer, n + 1)
             = Apply(Compound(base, order, n), longer[n + 1])
<1>1. PICK f : Unfolds(f, base, order, n) /\ Compound(base, order, n) = f[n]
  BY CompoundUnfolds
<1>2. PICK g : /\ Unfolds(g, base, longer, n + 1)
               /\ Compound(base, longer, n + 1) = g[n + 1]
  BY n + 1 \in Nat, CompoundUnfolds
<1>3. f[n] = g[n]
  BY <1>1, <1>2, PricesAgree
<1>4. g[n + 1] = Apply(g[n], longer[n + 1])
  BY <1>2 DEF Unfolds
<1>5. QED
  BY <1>1, <1>2, <1>3, <1>4

-----------------------------------------------------------------------------
(* Rules compound by priority. *)

\* A calculation starts from its base price, and has compounded on it the
\* rules it has applied, of which there are finitely many.
Calculated ==
    \A s \in Sessions :
        /\ pc[s] = "priced" => calc[s].final = calc[s].total
        /\ pc[s] = "applying" =>
              /\ calc[s].pending \subseteq calc[s].read
              /\ IsFiniteSet(calc[s].read \ calc[s].pending)
              /\ Compounded(calc[s])

\* Nothing applied is compounded to the base price.
LEMMA NothingCompounds ==
    ASSUME NEW c, c.pending = c.read, c.final = c.total
    PROVE  Compounded(c)
<1> DEFINE none == [i \in 1..0 |-> 0]
<1>1. c.read \ c.pending = {} /\ Cardinality({}) = 0
  BY FS_EmptySet
<1>2. none \in ByPriority({})
  BY <1>1 DEF ByPriority
<1>3. c.final = Compound(c.total, none, 0)
  BY CompoundNone
<1> HIDE DEF none
<1>4. QED
  BY <1>1, <1>2, <1>3 DEF Compounded

\* Applying a first one of the rules that wait compounds it as well.
LEMMA OneMoreCompounds ==
    ASSUME NEW c \in Calculation, Compounded(c), c.pending \subseteq c.read,
           IsFiniteSet(c.read \ c.pending),
           NEW r \in c.pending,
           \A q \in c.pending : Rule[q].priority <= Rule[r].priority,
           NEW d \in Calculation, d.total = c.total, d.read = c.read,
           d.final = Apply(c.final, r), d.pending = c.pending \ {r}
    PROVE  /\ IsFiniteSet(d.read \ d.pending)
           /\ Compounded(d)
<1> DEFINE done == c.read \ c.pending
           n == Cardinality(done)
<1>1. d.read \ d.pending = done \cup {r} /\ r \notin done
  OBVIOUS
<1>2. /\ IsFiniteSet(done \cup {r}) /\ n \in Nat
      /\ Cardinality(done \cup {r}) = n + 1
  BY <1>1, FS_AddElement, FS_CardinalityType
<1>3. PICK order \in ByPriority(done) : c.final = Compound(c.total, order, n)
  BY DEF Compounded
<1> DEFINE longer == [i \in 1..(n + 1) |-> IF i <= n THEN order[i] ELSE r]
<1>4. order \in [1..n -> done]
  BY DEF ByPriority
<1>5. \A q \in done : Rule[q].priority >= Rule[r].priority
  BY DEF Compounded
<1> HIDE DEF done, n
<1>6. /\ longer \in [1..(n + 1) -> done \cup {r}]
      /\ \A i \in 1..n : longer[i] = order[i]
      /\ longer[n + 1] = r
  BY <1>2, <1>4
<1> HIDE DEF longer
<1>7. ASSUME NEW i \in 1..(n + 1), NEW j \in 1..(n + 1), i < j
      PROVE  /\ longer[i] # longer[j]
             /\ Rule[longer[i]].priority >= Rule[longer[j]].priority
  <2>1. i \in 1..n
    BY <1>2, <1>7
  <2>2. CASE j \in 1..n
    BY <1>3, <1>4, <1>6, <1>7, <2>1, <2>2 DEF ByPriority
  <2>3. CASE j = n + 1
    BY <1>1, <1>4, <1>5, <1>6, <2>1, <2>3
  <2>4. QED
    BY <1>2, <2>2, <2>3
<1>8. longer \in ByPriority(done \cup {r})
  <2>1. DOMAIN longer = 1..(n + 1)
    BY <1>6
  <2>2. QED
    BY <1>2, <1>6, <1>7, <2>1 DEF ByPriority
<1>9. d.final = Compound(d.total, longer, n + 1)
  <2>1. Compound(c.total, longer, n + 1)
          = Apply(Compound(c.total, order, n), longer[n + 1])
    BY <1>2, <1>6, CompoundMore
  <2>2. QED
    BY <1>3, <1>6, <2>1
<1>10. \A p \in done \cup {r}, q \in d.pending :
          Rule[p].priority >= Rule[q].priority
  <2>1. \A q \in c.pending : q \in Rules
    BY DEF Calculation
  <2>2. \A q \in Rules : Rule[q].priority \in Nat
    BY RulesAssumption
  <2>3. QED
    BY <2>1, <2>2 DEF Compounded, done
<1>11. QED
  BY <1>1, <1>2, <1>8, <1>9, <1>10 DEF Compounded

\* Every step of a calculation keeps it compounded.
LEMMA StepKeepsCalculated == Inv /\ Calculated /\ [Next]_vars => Calculated'
<1> SUFFICES ASSUME Inv, Calculated, [Next]_vars PROVE Calculated'
  OBVIOUS
<1>1. CASE UNCHANGED <<pc, calc>>
  BY <1>1 DEF Calculated
<1>2. ASSUME NEW s \in Sessions, Finish(s) PROVE Calculated'
  BY <1>2 DEF Finish, Calculated, Inv, EditsOK, AmountsOK
<1>3. ASSUME NEW s \in Sessions, NEW t \in Tables, LoadTable(s, t)
      PROVE  Calculated'
  BY <1>3 DEF LoadTable, Calculated, Inv, EditsOK
<1>4. ASSUME NEW s \in Sessions, NEW c \in Contexts, NEW t \in Tables,
             NEW i \in Items, NEW q \in Quantities, ReadTables(s, c, t, i, q)
      PROVE  Calculated'
  BY <1>4 DEF ReadTables, Calculated, Inv, EditsOK, AmountsOK, NoCalc
<1>5. ASSUME NEW s \in Sessions, ReadRules(s) PROVE Calculated'
  <2>1. /\ pc[s] = "priced" /\ pc'[s] = "applying"
        /\ \A t \in Sessions \ {s} : pc'[t] = pc[t] /\ calc'[t] = calc[t]
    BY <1>5 DEF ReadRules, Inv, EditsOK, AmountsOK
  <2>2. /\ calc'[s].pending = calc'[s].read /\ calc'[s].final = calc[s].final
        /\ calc'[s].total = calc[s].total
    BY <1>5 DEF ReadRules, Inv, AmountsOK, Calculation
  <2>3. calc'[s].final = calc'[s].total
    BY <2>1, <2>2 DEF Calculated
  <2>4. Compounded(calc'[s])
    BY <2>2, <2>3, NothingCompounds
  <2>5. calc'[s].read \ calc'[s].pending = {} /\ IsFiniteSet({})
    BY <2>2, FS_EmptySet
  <2>6. QED
    BY <2>1, <2>2, <2>4, <2>5 DEF Calculated
<1>6. ASSUME NEW s \in Sessions, NEW r \in Rules, ApplyRule(s, r)
      PROVE  Calculated'
  <2>1. /\ pc[s] = "applying" /\ pc' = pc
        /\ \A t \in Sessions \ {s} : calc'[t] = calc[t]
    BY <1>6 DEF ApplyRule, Inv, AmountsOK
  <2>2. /\ r \in calc[s].pending
        /\ \A q \in calc[s].pending : Rule[q].priority <= Rule[r].priority
    BY <1>6 DEF ApplyRule, First
  <2>3. /\ calc'[s].total = calc[s].total /\ calc'[s].read = calc[s].read
        /\ calc'[s].final = Apply(calc[s].final, r)
        /\ calc'[s].pending = calc[s].pending \ {r}
    BY <1>6 DEF ApplyRule, Inv, AmountsOK, Calculation
  <2>4. calc[s] \in Calculation /\ calc'[s] \in Calculation
    BY StepKeepsInvariant DEF Inv, AmountsOK
  <2>5. /\ IsFiniteSet(calc'[s].read \ calc'[s].pending)
        /\ Compounded(calc'[s])
    BY <2>1, <2>2, <2>3, <2>4, OneMoreCompounds DEF Calculated
  <2>6. QED
    BY <2>1, <2>3, <2>5 DEF Calculated
<1>7. ASSUME NEW s \in Sessions, Step(s) PROVE Calculated'
  <2>1. CASE \/ \E form \in Forms : UpdateTable(s, form)
             \/ ToggleTable(s)
             \/ \E i \in Items, price \in Prices : AddItem(s, i, price)
             \/ Answer(s) \/ Fail(s)
    BY <1>2, <2>1 DEF UpdateTable, ToggleTable, AddItem, Save, Answer, Fail
  <2>2. QED
    BY <1>3, <1>4, <1>5, <1>6, <1>7, <2>1 DEF Step
<1>8. QED
  BY <1>1, <1>7 DEF Next, CreateTable, CreateRule, vars

-----------------------------------------------------------------------------
(* The theorems. *)

\* Tables, copies and amounts stay well formed, whatever is edited and priced.
THEOREM TypeCorrect == Spec => []TypeOK
<1>1. Inv => TypeOK
  BY DEF Inv, TablesOK, EditsOK, AmountsOK, Calculation, TypeOK
<1>2. QED
  BY <1>1, InitialState, StepKeepsInvariant, PTL DEF Spec

\* The price a calculation ends with is the base price with the surcharges it
\* reports and less the discounts it reports, for any rules in any order.
THEOREM PricesBalance == Spec => []Balanced
<1>1. Inv => Balanced
  BY DEF Inv
<1>2. QED
  BY <1>1, InitialState, StepKeepsInvariant, PTL DEF Spec

\* The price a calculation has come to is its base price with the rules applied
\* so far compounded on it by descending priority, for any rules.
THEOREM PricesCompound == Spec => []RulesCompound
<1>1. Init => Calculated
  BY DEF Init, Calculated
<1>2. Calculated => RulesCompound
  BY DEF Calculated, RulesCompound
<1>3. QED
  BY <1>1, <1>2, InitialState, StepKeepsInvariant, StepKeepsCalculated, PTL
  DEF Spec

\* A calculation uses a table of the highest rank among the applicable ones.
THEOREM SelectionsAreMostSpecific == Spec => MostSpecificTable
<1>1. Inv /\ [Next]_vars => [SelectionStep]_vars
  BY SelectionsAreBest
<1>2. QED
  BY <1>1, InitialState, StepKeepsInvariant, PTL DEF Spec, MostSpecificTable

\* Two items for one service in one table take two requests that overlap.
THEOREM LoneItemsAreOnly == Spec => LoneItemIsOnly
<1>1. Init => ItemsKnown
  BY DEF Init, ItemsKnown
<1>2. Inv /\ ItemsKnown /\ [Next]_vars => [NewItemStep]_vars
  BY ItemsAreAdded
<1>3. QED
  BY <1>1, <1>2, InitialState, StepKeepsInvariant, StepKeepsItemsKnown, PTL
  DEF Spec, LoneItemIsOnly

=============================================================================
