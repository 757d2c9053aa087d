------------------------------ MODULE Dispatch ------------------------------
(***************************************************************************)
(* Dispatching service orders to routes, and the unchecked PATCH of one    *)
(* order.                                                                  *)
(*                                                                         *)
(* A dispatch reads its orders and judges their status, creates the route  *)
(* in a commit of its own, may try to give it a vehicle and a driver, and  *)
(* writes the orders in a last commit.  Nothing is locked in between and   *)
(* no row has a version; an UPDATE writes the columns that differ from     *)
(* what the session read.  A route is named after the request that made    *)
(* it.                                                                     *)
(***************************************************************************)
EXTENDS Naturals, FiniteSets

CONSTANTS
    Orders,    \* service orders
    Requests,  \* requests, one session each
    NoRoute    \* the route of an order nobody dispatched

ASSUME NoRouteAssumption == NoRoute \notin Requests

OrderStatus == {"PENDING", "SCHEDULED", "IN_PROGRESS", "COMPLETED", "CANCELED"}
Open == {"PENDING", "SCHEDULED"}

VARIABLES
    orders,   \* the rows: status and route
    routes,   \* the routes committed
    req,      \* each request: what it does and how far it is
    copies,   \* the rows a request read
    turns,    \* commits of dispatched orders so far
    turn,     \* which of them was each request's, 0 for none
    alone     \* requests nothing was committed beside

vars == <<orders, routes, req, copies, turns, turn, alone>>

Row == [status : OrderStatus, route : Requests \cup {NoRoute}]
Idle == [op |-> "none", on |-> {}, to |-> "PENDING", at |-> "idle"]

Init ==
    /\ orders = [o \in Orders |-> [status |-> "PENDING", route |-> NoRoute]]
    /\ routes = {}
    /\ req = [r \in Requests |-> Idle]
    /\ copies = [r \in Requests |-> orders]
    /\ turns = 0
    /\ turn = [r \in Requests |-> 0]
    /\ alone = Requests

UnderWay(r) == req[r].at \in {"read", "routed"}

(* A commit of request r spoils every other request that is under way.     *)
Commits(r) == alone' = alone \ {q \in Requests \ {r} : UnderWay(q)}

Begin(r, op, on, to, at) ==
    /\ req[r].at = "idle"
    /\ req' = [req EXCEPT ![r] = [op |-> op, on |-> on, to |-> to, at |-> at]]
    /\ copies' = [copies EXCEPT ![r] = orders]
    /\ UNCHANGED <<orders, routes, turns, turn, alone>>

Goes(r, at) == req' = [req EXCEPT ![r].at = at]

-----------------------------------------------------------------------------
\* Dispatch

(* A mutant: the status of the orders is not looked at.                     *)
ReadAny(r, S, op) ==
    /\ S # {}
    /\ Begin(r, op, S, "SCHEDULED", "read")

(* The orders are read; one that is not open refuses the whole dispatch.   *)
Read(r, S, op) ==
    /\ S # {}
    /\ Begin(r, op, S, "SCHEDULED",
             IF \A o \in S : orders[o].status \in Open THEN "read" ELSE "failed")

(* The route is created and committed, a draft without stops.              *)
CreateRoute(r) ==
    /\ req[r].at = "read" /\ req[r].op \in {"dispatch", "assign"}
    /\ routes' = routes \cup {r}
    /\ Goes(r, "routed")
    /\ Commits(r)
    /\ UNCHANGED <<orders, copies, turns, turn>>

(* With a vehicle and a driver the route is read back, which raises: its   *)
(* mapping leaves out the status a Route requires.                         *)
AssignResources(r) ==
    /\ req[r].at = "routed" /\ req[r].op = "assign"
    /\ Goes(r, "failed")
    /\ UNCHANGED <<orders, routes, copies, turns, turn, alone>>

(* A mutant: the status that the comment of the use case gives the orders.  *)
ScheduledRouted(row, copy, r) == [status |-> "ROUTED", route |-> r]

(* A row after an UPDATE of the columns that differ from the copy.         *)
Scheduled(row, copy, r) ==
    [status |-> IF copy.status = "SCHEDULED" THEN row.status ELSE "SCHEDULED",
     route |-> r]

(* All orders of the dispatch are put on its route in one commit.          *)
CommitOrders(r) ==
    /\ req[r].at = "routed" /\ req[r].op = "dispatch"
    /\ orders' = [o \in Orders |->
                    IF o \in req[r].on
                    THEN Scheduled(orders[o], copies[r][o], r) ELSE orders[o]]
    /\ turns' = turns + 1
    /\ turn' = [turn EXCEPT ![r] = turns + 1]
    /\ Goes(r, "done")
    /\ Commits(r)
    /\ UNCHANGED <<routes, copies>>

(* The connection or the process is lost; what was committed stays.        *)
Fail(r) ==
    /\ UnderWay(r)
    /\ Goes(r, "failed")
    /\ UNCHANGED <<orders, routes, copies, turns, turn, alone>>

-----------------------------------------------------------------------------
\* PATCH of one order

ReadOrder(r, o, status) == Begin(r, "patch", {o}, status, "read")

(* A mutant: the whole row is written back.                                 *)
PatchRow(r) ==
    /\ req[r].at = "read" /\ req[r].op = "patch"
    /\ orders' = [o \in Orders |->
                    IF o \in req[r].on
                    THEN [copies[r][o] EXCEPT !.status = req[r].to] ELSE orders[o]]
    /\ Goes(r, "done")
    /\ Commits(r)
    /\ UNCHANGED <<routes, copies, turns, turn>>

(* Any status may follow any other; only a changed one is written.         *)
Patch(r) ==
    /\ req[r].at = "read" /\ req[r].op = "patch"
    /\ orders' = [o \in Orders |->
                    IF o \in req[r].on /\ copies[r][o].status # req[r].to
                    THEN [orders[o] EXCEPT !.status = req[r].to] ELSE orders[o]]
    /\ Goes(r, "done")
    /\ Commits(r)
    /\ UNCHANGED <<routes, copies, turns, turn>>

Next ==
    \E r \in Requests :
        \/ \E S \in SUBSET Orders, op \in {"dispatch", "assign"} : Read(r, S, op)
        \/ \E o \in Orders, status \in OrderStatus : ReadOrder(r, o, status)
        \/ CreateRoute(r) \/ AssignResources(r) \/ CommitOrders(r)
        \/ Patch(r) \/ Fail(r)

Spec == Init /\ [][Next]_vars

-----------------------------------------------------------------------------
\* Properties

TypeOK ==
    /\ orders \in [Orders -> Row]
    /\ routes \subseteq Requests
    /\ req \in [Requests ->
                  [op : {"none", "dispatch", "assign", "patch"},
                   on : SUBSET Orders, to : OrderStatus,
                   at : {"idle", "read", "routed", "done", "failed"}]]
    /\ copies \in [Requests -> [Orders -> Row]]
    /\ turns \in Nat
    /\ turn \in [Requests -> Nat]
    /\ alone \subseteq Requests

Dispatched(o) == {r \in Requests : turn[r] > 0 /\ o \in req[r].on}

(* An order is on the committed route of the last dispatch that wrote it,  *)
(* with every other order of that dispatch no later one took away: however *)
(* dispatches, patches and failures interleave, no route is lost to a      *)
(* stale copy and no dispatch is carried out by halves.                    *)
RouteIsLatest ==
    \A o \in Orders :
        IF Dispatched(o) = {} THEN orders[o].route = NoRoute
        ELSE /\ orders[o].route \in Dispatched(o) \cap routes
             /\ \A r \in Dispatched(o) :
                    turn[r] <= turn[orders[o].route]

(* A dispatch that nothing was committed beside puts only open orders on   *)
(* its route: an order that is under way, completed or cancelled keeps its *)
(* status and its route.  Beside a PATCH or another dispatch this fails.   *)
LoneDispatchStep ==
    \A r \in alone, o \in Orders :
        req[r].at = "routed" /\ req'[r].at = "done" /\ o \in req[r].on =>
            orders[o].status \in Open

LoneDispatchTakesOpenOrders == [][LoneDispatchStep]_vars
=============================================================================
