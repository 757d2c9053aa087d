----------------------------- MODULE MCPricing -----------------------------
(* Instance of Pricing for TLC: two requests, two tables, two items, and     *)
(* rules that do not commute: a discount of 150 % that makes a price         *)
(* negative, an absolute discount, and a surcharge of equal priority.        *)
EXTENDS Pricing, TLC

CONSTANTS s1, s2, t1, t2, i1, i2, half, off, fee, c1, r1

MCSessions == {s1, s2}
MCTables == {t1, t2}
MCItems == {i1, i2}
MCPrices == {10000}
MCQuantities == {2}
MCRules == {half, off, fee}
MCCustomers == {c1}
MCRegions == {r1}
MCDays == 1..3

MCRule ==
    [r \in MCRules |->
        CASE r = half -> [scope |-> "GLOBAL", customer |-> None,
                          region |-> None, priority |-> 2,
                          type |-> "PERCENTAGE_DISCOUNT", value |-> 150]
          [] r = off -> [scope |-> "CUSTOMER", customer |-> c1,
                         region |-> None, priority |-> 1,
                         type |-> "ABSOLUTE_DISCOUNT", value |-> 5000]
          [] r = fee -> [scope |-> "REGION", customer |-> None,
                         region |-> r1, priority |-> 1,
                         type |-> "PERCENTAGE_SURCHARGE", value |-> 10]]

Always == [active |-> TRUE, customer |-> None, region |-> None,
           from |-> 2, until |-> None]

\* The last one is not valid.
MCForms == {Always, [Always EXCEPT !.customer = c1],
            [Always EXCEPT !.region = r1, !.until = 3],
            [Always EXCEPT !.region = r1, !.until = 2]}

\* A customer in a region, before and in the period of the tables, another one in
\* that region, and two callers who name the table.
Asked == [customer |-> c1, region |-> r1, table |-> None, day |-> 3]
MCContexts == {Asked, [Asked EXCEPT !.day = 1], [Asked EXCEPT !.customer = None],
               [Asked EXCEPT !.region = None, !.table = t1],
               [Asked EXCEPT !.region = None, !.table = t2]}

Symmetry == Permutations(MCSessions) \cup Permutations(MCTables)
                \cup Permutations(MCItems)

=============================================================================
