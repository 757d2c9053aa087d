------------------------------ MODULE Pricing ------------------------------
(***************************************************************************)
(* Price tables and pricing rules, the requests that edit them and the     *)
(* calculation of a price, for one service in one unit of measure.         *)
(*                                                                         *)
(* An edit loads the table and its items, changes its copy and saves it;   *)
(* nothing locks or versions a table and no constraint keeps its items     *)
(* apart.  A calculation reads the tables, then the rules, and runs the    *)
(* engine on what it read.                                                 *)
(*                                                                         *)
(* Amounts are integers in a unit small enough for percentages to be exact *)
(* (the code computes with Decimal).                                       *)
(***************************************************************************)
EXTENDS Integers, FiniteSets

CONSTANTS
    Sessions,   \* database sessions, one per request in flight
    Tables,     \* ids of price tables that may be created
    Items,      \* ids of items that may be added
    Prices,     \* unit prices
    Quantities, \* quantities asked for
    Forms,      \* what administrators enter for a table
    Rules,      \* ids of rules that may be created
    Rule,       \* what administrators enter for each rule
    Customers, Regions, Days,
    Contexts,   \* what callers ask a price for
    None

Form == [active : BOOLEAN, customer : Customers \cup {None},
         region : Regions \cup {None}, from : Days, until : Days \cup {None}]

RuleType == {"PERCENTAGE_DISCOUNT", "ABSOLUTE_DISCOUNT",
             "PERCENTAGE_SURCHARGE", "ABSOLUTE_SURCHARGE"}

\* SERVICE is left out: with one service such a rule is like a GLOBAL one.
RuleScope == {"GLOBAL", "CUSTOMER", "REGION", "CONTRACT"}

ASSUME AmountsAssumption == Prices \subseteq Nat /\ Quantities \subseteq Nat
ASSUME DaysAssumption == Days \subseteq Nat /\ None \notin Days
ASSUME FormsAssumption == Forms \subseteq Form /\ None \notin Form
ASSUME RulesAssumption ==
    Rule \in [Rules -> [scope : RuleScope,
                        customer : Customers \cup {None},
                        region : Regions \cup {None},
                        type : RuleType, value : Nat, priority : Nat]]

\* What a caller asks: a customer, a region, a table of his choice, a day.
Context == [customer : Customers \cup {None}, region : Regions \cup {None},
            table : Tables \cup {None}, day : Days]

ASSUME ContextsAssumption == Contexts \subseteq Context /\ None \notin Tables

VARIABLES
    table,      \* rows of price tables, None before they are created
    item,       \* rows of items: their table and price, None before
    created,    \* the rules created so far
    pc,         \* where each session is in its request
    edit,       \* the table each session edits: its copy and its items
    calc,       \* the calculation each session makes
    disturbed   \* sessions during whose request another one was committed

tables == <<table, item, created>>
vars == <<tables, pc, edit, calc, disturbed>>

NoEdit == [id |-> None, copy |-> None, items |-> {}]
NoCalc == [context |-> None, table |-> None, total |-> 0, final |-> 0,
           surcharges |-> 0, discounts |-> 0, read |-> {}, pending |-> {}]

Init ==
    /\ table = [t \in Tables |-> None]
    /\ item = [i \in Items |-> None]
    /\ created = {}
    /\ pc = [s \in Sessions |-> "idle"]
    /\ edit = [s \in Sessions |-> NoEdit]
    /\ calc = [s \in Sessions |-> NoCalc]
    /\ disturbed = {}

ItemsOf(t) == {i \in Items : item[i] # None /\ item[i].table = t}

Finish(s) ==
    /\ pc' = [pc EXCEPT ![s] = "idle"]
    /\ edit' = [edit EXCEPT ![s] = NoEdit]
    /\ calc' = [calc EXCEPT ![s] = NoCalc]

\* A domain error, a lost client or a crash: what is not committed is lost.
Fail(s) ==
    /\ pc[s] # "idle"
    /\ Finish(s)
    /\ disturbed' = disturbed \ {s}
    /\ UNCHANGED tables

-----------------------------------------------------------------------------
(* Administration. *)

\* validate(): a period ends after it begins.
Valid(form) == form.until # None => form.until > form.from

CreateTable(t, form) ==
    /\ table[t] = None
    /\ Valid(form)
    /\ table' = [table EXCEPT ![t] = form]
    /\ UNCHANGED <<item, created, pc, edit, calc, disturbed>>

CreateRule(r) ==
    /\ r \notin created
    /\ Rule[r].scope = "CUSTOMER" => Rule[r].customer # None
    /\ Rule[r].scope = "REGION" => Rule[r].region # None
    /\ created' = created \cup {r}
    /\ UNCHANGED <<table, item, pc, edit, calc, disturbed>>

\* get_price_table_by_id(): the row and its items; rebuilding validates.
LoadTable(s, t) ==
    /\ pc[s] = "idle"
    /\ table[t] # None
    /\ Valid(table[t])
    /\ pc' = [pc EXCEPT ![s] = "loaded"]
    /\ edit' = [edit EXCEPT ![s] =
                  [id |-> t, copy |-> table[t], items |-> ItemsOf(t)]]
    /\ UNCHANGED <<tables, calc, disturbed>>

\* The flush writes the fields in which the form differs from the row found.
Flushed(form, row, now) ==
    [f \in DOMAIN form |-> IF form[f] # row[f] THEN form[f] ELSE now[f]]

\* save_price_table() finds the row in the identity map, if the one loaded is
\* still referenced, and else reads it again; then it is flushed and committed.
\* That nobody else commits between this second read and the flush is assumed.
Save(s, form) ==
    /\ pc[s] = "loaded"
    /\ LET now == table[edit[s].id] IN
          \E row \in {edit[s].copy, now} :
              table' = [table EXCEPT ![edit[s].id] = Flushed(form, row, now)]
    /\ disturbed' = (disturbed \cup {t \in Sessions : pc[t] # "idle"}) \ {s}
    /\ Finish(s)
    /\ UNCHANGED created

\* The fields are replaced; nothing validates them.
UpdateTable(s, form) == Save(s, form) /\ UNCHANGED item

ToggleTable(s) ==
    /\ Save(s, [edit[s].copy EXCEPT !.active = ~@])
    /\ UNCHANGED item

\* Mutant of HasItem: the items of the table are not looked at.
HasNothing(s) == edit[s].items # edit[s].items

\* add_item(): "already exists for this service and UOM".
HasItem(s) == edit[s].items # {}

AddItem(s, i, price) ==
    /\ ~HasItem(s)
    /\ item[i] = None
    /\ Save(s, edit[s].copy)
    /\ item' = [item EXCEPT ![i] = [table |-> edit[s].id, price |-> price]]

-----------------------------------------------------------------------------
(* Calculation. *)

InForce(t, day) ==
    /\ table[t] # None
    /\ table[t].active
    /\ table[t].from <= day
    /\ table[t].until # None => day <= table[t].until

ForCustomer(t, c) == c.customer # None /\ table[t].customer = c.customer
ForRegion(t, c) == c.region # None /\ table[t].region = c.region
ForAll(t) == table[t].customer = None /\ table[t].region = None

\* get_applicable_price_tables()
Applicable(c) ==
    {t \in Tables :
        /\ InForce(t, c.day)
        /\ ItemsOf(t) # {}
        /\ IF c.table # None THEN t = c.table
           ELSE ForCustomer(t, c) \/ ForRegion(t, c) \/ ForAll(t)}

\* Mutant of BestTables: the region is looked at first.
RegionFirst(c) ==
    LET customer == {t \in Applicable(c) : ForCustomer(t, c)}
        region == {t \in Applicable(c) : ForRegion(t, c)}
    IN IF region # {} THEN region ELSE IF customer # {} THEN customer
       ELSE Applicable(c)

\* The tables _select_best_table() may return: it takes the first of a list
\* the database returns in any order.
BestTables(c) ==
    LET customer == {t \in Applicable(c) : ForCustomer(t, c)}
        region == {t \in Applicable(c) : ForRegion(t, c)}
    IN IF c.table # None THEN Applicable(c)
       ELSE IF customer # {} THEN customer
       ELSE IF region # {} THEN region
       ELSE Applicable(c)

\* Bound: one calculation at a time.  Calculations share nothing they write.
Calculating == \E s \in Sessions : pc[s] \in {"priced", "applying"}

\* The tables are read and rebuilt, which validates them, and the price found.
ReadTables(s, c, t, i, quantity) ==
    /\ pc[s] = "idle"
    /\ ~Calculating
    /\ \A u \in Applicable(c) : Valid(table[u])
    /\ t \in BestTables(c)
    /\ i \in ItemsOf(t)
    /\ pc' = [pc EXCEPT ![s] = "priced"]
    /\ calc' = [calc EXCEPT ![s] =
            [NoCalc EXCEPT !.context = c, !.table = t,
                           !.total = item[i].price * quantity,
                           !.final = item[i].price * quantity]]
    /\ UNCHANGED <<tables, edit, disturbed>>

\* get_applicable_pricing_rules(); nothing selects a CONTRACT rule.
RuleApplies(r, c) ==
    \/ Rule[r].scope = "GLOBAL"
    \/ /\ Rule[r].scope = "CUSTOMER"
       /\ c.customer # None /\ Rule[r].customer = c.customer
    \/ /\ Rule[r].scope = "REGION"
       /\ c.region # None /\ Rule[r].region = c.region

ReadRules(s) ==
    /\ pc[s] = "priced"
    /\ pc' = [pc EXCEPT ![s] = "applying"]
    /\ LET read == {r \in created : RuleApplies(r, calc[s].context)} IN
          calc' = [calc EXCEPT ![s].read = read, ![s].pending = read]
    /\ UNCHANGED <<tables, edit, disturbed>>

\* PricingRule.apply()
Apply(amount, r) ==
    LET value == Rule[r].value
        share == (amount * value) \div 100
    IN CASE Rule[r].type = "PERCENTAGE_DISCOUNT" -> amount - share
         [] Rule[r].type = "ABSOLUTE_DISCOUNT" ->
                IF amount > value THEN amount - value ELSE 0
         [] Rule[r].type = "PERCENTAGE_SURCHARGE" -> amount + share
         [] OTHER -> amount + value

\* Mutant of First: any rule may be next.
AnyNext(s, r) == r \in calc[s].pending

\* Rules go by descending priority; between equals the order of the rows.
First(s, r) ==
    /\ r \in calc[s].pending
    /\ \A q \in calc[s].pending : Rule[q].priority <= Rule[r].priority

\* Mutant of SurchargeOf: every difference is added.
SurchargeSigned(diff) == diff

SurchargeOf(diff) == IF diff > 0 THEN diff ELSE 0

\* Mutant of DiscountOf: the sign of the difference is kept.
DiscountSigned(diff) == IF diff > 0 THEN 0 ELSE diff

DiscountOf(diff) == IF diff > 0 THEN 0 ELSE -diff

ApplyRule(s, r) ==
    /\ pc[s] = "applying"
    /\ First(s, r)
    /\ LET new == Apply(calc[s].final, r)
           diff == new - calc[s].final
       IN calc' = [calc EXCEPT ![s].final = new,
                               ![s].surcharges = @ + SurchargeOf(diff),
                               ![s].discounts = @ + DiscountOf(diff),
                               ![s].pending = @ \ {r}]
    /\ UNCHANGED <<tables, pc, edit, disturbed>>

Answer(s) ==
    /\ pc[s] = "applying"
    /\ calc[s].pending = {}
    /\ Finish(s)
    /\ disturbed' = disturbed \ {s}
    /\ UNCHANGED tables

Step(s) ==
    \/ \E t \in Tables : LoadTable(s, t)
    \/ \E form \in Forms : UpdateTable(s, form)
    \/ ToggleTable(s)
    \/ \E i \in Items, price \in Prices : AddItem(s, i, price)
    \/ \E c \in Contexts, t \in Tables, i \in Items, q \in Quantities :
          ReadTables(s, c, t, i, q)
    \/ ReadRules(s)
    \/ \E r \in Rules : ApplyRule(s, r)
    \/ Answer(s)
    \/ Fail(s)

Next ==
    \/ \E t \in Tables, form \in Forms : CreateTable(t, form)
    \/ \E r \in Rules : CreateRule(r)
    \/ \E s \in Sessions : Step(s)

Spec == Init /\ [][Next]_vars

-----------------------------------------------------------------------------
(* Properties. *)

\* Tables and copies are well formed.
TypeOK ==
    /\ table \in [Tables -> Form \cup {None}]
    /\ item \in [Items -> [table : Tables, price : Prices] \cup {None}]
    /\ created \subseteq Rules
    /\ pc \in [Sessions -> {"idle", "loaded", "priced", "applying"}]
    /\ edit \in [Sessions -> [id : Tables \cup {None}, copy : Form \cup {None},
                              items : SUBSET Items]]
    /\ calc \in [Sessions ->
          [context : Contexts \cup {None}, table : Tables \cup {None},
           total : Nat, final : Int, surcharges : Nat, discounts : Nat,
           read : SUBSET Rules, pending : SUBSET Rules]]
    /\ \A s \in Sessions : pc[s] = "loaded" =>
          edit[s].id \in Tables /\ table[edit[s].id] # None /\ edit[s].copy # None
    /\ disturbed \subseteq Sessions

\* At every step of a calculation the price is the base price with the
\* surcharges and less the discounts, although a discount that brings a negative
\* price back to zero counts as a surcharge and one stopped at zero counts only
\* for what it took off.
Balanced ==
    \A s \in Sessions :
        calc[s].final = calc[s].total + calc[s].surcharges - calc[s].discounts

\* The orders of some rules in which no priority is higher than one before.
ByPriority(rules) ==
    {order \in [1..Cardinality(rules) -> rules] :
        \A i, j \in DOMAIN order : i < j =>
            /\ order[i] # order[j]
            /\ Rule[order[i]].priority >= Rule[order[j]].priority}

\* Reference for the engine: the price after the first n rules of an order,
\* each applied to the result of the one before.
Compound(base, order, n) ==
    LET price[m \in 0..n] ==
            IF m = 0 THEN base ELSE Apply(price[m - 1], order[m])
    IN  price[n]

\* What a calculation has come to is the price after the rules it has applied,
\* none of which has a lower priority than one that waits.
Compounded(c) ==
    LET done == c.read \ c.pending IN
    /\ \A r \in done, q \in c.pending : Rule[r].priority >= Rule[q].priority
    /\ \E order \in ByPriority(done) :
          c.final = Compound(c.total, order, Cardinality(done))

\* At every step of a calculation its price is the base price with the rules
\* applied so far compounded on it by descending priority, whatever rules are
\* created meanwhile, and so is the answer with all the rules read.
RulesCompound == \A s \in Sessions : pc[s] = "applying" => Compounded(calc[s])

\* price_calculation_engine.py:31, "Explicit ID > CUSTOMER > REGION > GLOBAL",
\* as a rank of what a calculation may use.
Rank(t, c) ==
    CASE t = c.table -> 3
      [] t # c.table /\ ForCustomer(t, c) -> 2
      [] t # c.table /\ ~ForCustomer(t, c) /\ ForRegion(t, c) -> 1
      [] OTHER -> 0

\* Whatever administrators did to the tables, a calculation takes its base from
\* one of the highest rank among those applicable when it read them.
SelectionStep ==
    \A s \in Sessions : pc[s] = "idle" /\ pc'[s] = "priced" =>
        LET c == calc'[s].context IN
        \A t \in Applicable(c) : Rank(t, c) <= Rank(calc'[s].table, c)

\* SelectionStep, of every step.
MostSpecificTable == [][SelectionStep]_vars

\* pricing/aggregate-design.md:16: a table has one item per service and unit.  It
\* gets a second one only from a request that somebody committed beside.
NewItemStep ==
    \A i \in Items : item[i] = None /\ item'[i] # None =>
        \E s \in Sessions :
            /\ pc[s] = "loaded" /\ pc'[s] = "idle"
            /\ edit[s].id = item'[i].table
            /\ s \in disturbed \/ ItemsOf(edit[s].id) = {}

\* NewItemStep, of every step.
LoneItemIsOnly == [][NewItemStep]_vars

=============================================================================
