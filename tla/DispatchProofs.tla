--------------------------- MODULE DispatchProofs ---------------------------
(***************************************************************************)
(* Proofs about Dispatch for any orders and requests: routes survive every *)
(* race, and a dispatch that ran alone took open orders.                   *)
(***************************************************************************)
EXTENDS Dispatch, TLAPS

\* Only a finished dispatch has had its turn; the turns are counted.
TurnsCounted ==
    \A r \in Requests :
        /\ turn[r] <= turns
        /\ turn[r] > 0 => req[r].at = "done"

\* A dispatch that may write its orders has committed its route.
RouteCommitted == \A r \in Requests : req[r].at = "routed" => r \in routes

\* Only dispatches get a route.
DispatchesOnly ==
    \A r \in Requests : req[r].at = "routed" => req[r].op # "patch"

\* A dispatch nothing was committed beside judged the orders as they are.
LoneIsCurrent ==
    \A r \in alone : UnderWay(r) /\ req[r].op # "patch" =>
        \A o \in req[r].on : orders[o].status \in Open

IInv ==
    /\ TypeOK
    /\ TurnsCounted
    /\ RouteCommitted
    /\ DispatchesOnly
    /\ LoneIsCurrent
    /\ RouteIsLatest

\* The type of a request, for the records that the steps build.
Request ==
    [op : {"none", "dispatch", "assign", "patch"}, on : SUBSET Orders,
     to : OrderStatus, at : {"idle", "read", "routed", "done", "failed"}]

\* Request r leaves the other requests as they were.
OthersKept(r) == \A q \in Requests \ {r} : req'[q] = req[q]

-----------------------------------------------------------------------------

\* The initial state satisfies the inductive invariant.
LEMMA InitIInv == Init => IInv
  BY NoRouteAssumption
  DEF Init, IInv, TypeOK, TurnsCounted, RouteCommitted, DispatchesOnly,
      LoneIsCurrent, RouteIsLatest, Dispatched, UnderWay, Idle, Row,
      OrderStatus

\* A step that has no turn and leaves every route alone keeps the orders on the
\* routes of their last dispatch.
LEMMA NoTurnKeeps ==
  ASSUME IInv, NEW r \in Requests, OthersKept(r), turn' = turn,
         turn[r] > 0 => req'[r].on = req[r].on, routes \subseteq routes',
         \A o \in Orders : orders'[o].route = orders[o].route
  PROVE  RouteIsLatest'
  <1>1. \A o \in Orders : Dispatched(o)' = Dispatched(o)
    BY DEF Dispatched, OthersKept
  <1>2. QED
    BY <1>1 DEF IInv, RouteIsLatest, Dispatched

\* A request that begins.
LEMMA BeginKeeps ==
  ASSUME IInv, NEW r \in Requests, NEW on \in SUBSET Orders,
         NEW op \in {"dispatch", "assign", "patch"}, NEW to \in OrderStatus,
         NEW at \in {"read", "failed"}, Begin(r, op, on, to, at),
         op # "patch" /\ at = "read" => \A o \in on : orders[o].status \in Open
  PROVE  IInv'
  <1> DEFINE new == [op |-> op, on |-> on, to |-> to, at |-> at]
  <1>1. new \in Request
    BY DEF Request
  <1>2. req \in [Requests -> Request] /\ req' = [req EXCEPT ![r] = new]
    BY DEF IInv, TypeOK, Request, Begin
  <1>3. req'[r] = new /\ OthersKept(r)
    BY <1>2 DEF OthersKept
  <1>4. turn[r] = 0
    BY DEF Begin, IInv, TypeOK, TurnsCounted
  <1>5. TypeOK'
    BY <1>1, <1>2 DEF Begin, IInv, TypeOK, Request
  <1>6. TurnsCounted'
    BY <1>3, <1>4 DEF Begin, IInv, TypeOK, TurnsCounted, OthersKept
  <1>7. RouteCommitted' /\ DispatchesOnly'
    BY <1>3 DEF Begin, IInv, RouteCommitted, DispatchesOnly, OthersKept
  <1>8. LoneIsCurrent'
    BY <1>3 DEF Begin, IInv, TypeOK, LoneIsCurrent, OthersKept, UnderWay
  <1>9. RouteIsLatest'
    BY <1>3, <1>4, NoTurnKeeps DEF Begin
  <1>10. QED
    BY <1>5, <1>6, <1>7, <1>8, <1>9 DEF IInv

\* A request that goes on or ends without touching an order.
LEMMA GoesKeeps ==
  ASSUME IInv, NEW r \in Requests, UnderWay(r), NEW at \in {"routed", "failed"},
         Goes(r, at), UNCHANGED <<orders, copies, turns, turn>>,
         at = "routed" => req[r].op # "patch" /\ r \in routes',
         routes \subseteq routes', routes' \subseteq Requests,
         alone' \subseteq alone
  PROVE  IInv'
  <1> DEFINE new == [req[r] EXCEPT !.at = at]
  <1>1. req \in [Requests -> Request] /\ req' = [req EXCEPT ![r] = new]
    BY DEF IInv, TypeOK, Request, Goes
  <1>2. req[r] \in Request
    BY <1>1
  <1>3. /\ new \in Request
        /\ new.at = at /\ new.on = req[r].on
        /\ new.op = req[r].op
    BY <1>2 DEF Request
  <1>4. req'[r] = new /\ OthersKept(r)
    BY <1>1 DEF OthersKept
  <1> HIDE DEF new
  <1>5. turn[r] = 0
    BY DEF UnderWay, IInv, TypeOK, TurnsCounted
  <1>6. TypeOK'
    BY <1>1, <1>3 DEF IInv, TypeOK, Request
  <1>7. TurnsCounted'
    BY <1>3, <1>4, <1>5 DEF IInv, TypeOK, TurnsCounted, OthersKept
  <1>8. RouteCommitted' /\ DispatchesOnly'
    BY <1>3, <1>4 DEF IInv, RouteCommitted, DispatchesOnly, OthersKept
  <1>9. LoneIsCurrent'
    BY <1>3, <1>4 DEF IInv, TypeOK, LoneIsCurrent, OthersKept, UnderWay
  <1>10. RouteIsLatest'
    BY <1>3, <1>4, NoTurnKeeps
  <1>11. QED
    BY <1>6, <1>7, <1>8, <1>9, <1>10 DEF IInv

\* A PATCH: no order changes its route, and who is under way is alone no more.
LEMMA PatchKeeps ==
  ASSUME IInv, NEW r \in Requests, Patch(r)
  PROVE  IInv'
  <1> DEFINE new == [req[r] EXCEPT !.at = "done"]
  <1>1. req \in [Requests -> Request] /\ req' = [req EXCEPT ![r] = new]
    BY DEF IInv, TypeOK, Request, Patch, Goes
  <1>2. req[r] \in Request
    BY <1>1
  <1>3. /\ new \in Request
        /\ new.at = "done" /\ new.on = req[r].on
    BY <1>2 DEF Request
  <1>4. req'[r] = new /\ OthersKept(r)
    BY <1>1 DEF OthersKept
  <1> HIDE DEF new
  <1>5. /\ orders' \in [Orders -> Row]
        /\ \A o \in Orders : orders'[o].route = orders[o].route
    BY <1>2 DEF Patch, IInv, TypeOK, Row, Request
  <1>6. TypeOK'
    BY <1>1, <1>3, <1>5 DEF IInv, TypeOK, Request, Patch, Commits
  <1>7. TurnsCounted'
    BY <1>3, <1>4 DEF IInv, TypeOK, TurnsCounted, OthersKept, Patch
  <1>8. RouteCommitted' /\ DispatchesOnly'
    BY <1>3, <1>4 DEF IInv, RouteCommitted, DispatchesOnly, OthersKept, Patch
  <1>9. LoneIsCurrent'
    BY <1>3, <1>4
    DEF IInv, TypeOK, LoneIsCurrent, OthersKept, UnderWay, Patch, Commits
  <1>10. RouteIsLatest'
    BY <1>3, <1>4, <1>5, NoTurnKeeps DEF Patch
  <1>11. QED
    BY <1>6, <1>7, <1>8, <1>9, <1>10 DEF IInv

\* The commit of a dispatch: its orders go to its route, which is the latest.
LEMMA CommitKeeps ==
  ASSUME IInv, NEW r \in Requests, CommitOrders(r)
  PROVE  IInv'
  <1> DEFINE new == [req[r] EXCEPT !.at = "done"]
  <1>1. req \in [Requests -> Request] /\ req' = [req EXCEPT ![r] = new]
    BY DEF IInv, TypeOK, Request, CommitOrders, Goes
  <1>2. req[r] \in Request /\ turns \in Nat
    BY <1>1 DEF IInv, TypeOK
  <1>3. /\ new \in Request
        /\ new.at = "done" /\ new.on = req[r].on
    BY <1>2 DEF Request
  <1>4. req'[r] = new /\ OthersKept(r)
    BY <1>1 DEF OthersKept
  <1> HIDE DEF new
  <1>5. /\ orders' \in [Orders -> Row]
        /\ \A o \in Orders :
              orders'[o].route = IF o \in req[r].on THEN r ELSE orders[o].route
    BY <1>2 DEF CommitOrders, Scheduled, IInv, TypeOK, Row, OrderStatus
  <1>6. TypeOK'
    BY <1>1, <1>2, <1>3, <1>5
    DEF IInv, TypeOK, Request, CommitOrders, Commits
  <1>7. TurnsCounted'
    <2>1. turns' = turns + 1 /\ turn' = [turn EXCEPT ![r] = turns + 1]
      BY DEF CommitOrders
    <2>2. turn \in [Requests -> Nat]
      BY DEF IInv, TypeOK
    <2>3. QED
      BY <1>2, <1>3, <1>4, <2>1, <2>2 DEF IInv, TurnsCounted, OthersKept
  <1>8. RouteCommitted' /\ DispatchesOnly'
    BY <1>3, <1>4
    DEF IInv, RouteCommitted, DispatchesOnly, OthersKept, CommitOrders
  <1>9. LoneIsCurrent'
    BY <1>3, <1>4
    DEF IInv, TypeOK, LoneIsCurrent, OthersKept, UnderWay, CommitOrders, Commits
  <1>10. RouteIsLatest'
    <2> SUFFICES ASSUME NEW o \in Orders
                 PROVE  IF Dispatched(o)' = {} THEN orders'[o].route = NoRoute
                        ELSE /\ orders'[o].route \in Dispatched(o)' \cap routes'
                             /\ \A q \in Dispatched(o)' :
                                  turn'[q] <= turn'[orders'[o].route]
      BY DEF RouteIsLatest
    <2>1. r \in routes' /\ routes' = routes
      BY DEF CommitOrders, IInv, RouteCommitted
    <2>2. turn[r] = 0
      BY DEF CommitOrders, IInv, TypeOK, TurnsCounted
    <2>3. /\ turn \in [Requests -> Nat] /\ \A q \in Requests : turn[q] <= turns
          /\ turn' = [turn EXCEPT ![r] = turns + 1]
      BY DEF CommitOrders, IInv, TypeOK, TurnsCounted
    <2>4. CASE o \in req[r].on
      <3>1. orders'[o].route = r /\ r \in Dispatched(o)'
        BY <1>2, <1>3, <1>4, <1>5, <2>3, <2>4 DEF Dispatched
      <3>2. turn'[r] = turns + 1 /\ \A q \in Requests : turn'[q] <= turns + 1
        BY <1>2, <2>3
      <3>3. QED
        BY <2>1, <3>1, <3>2 DEF Dispatched
    <2>5. CASE o \notin req[r].on
      <3>1. orders'[o].route = orders[o].route
        BY <1>5, <2>5
      <3>2. Dispatched(o)' = Dispatched(o) /\ r \notin Dispatched(o)
        BY <1>3, <1>4, <2>2, <2>3, <2>5 DEF Dispatched, OthersKept
      <3>3. \A q \in Dispatched(o) : turn'[q] = turn[q]
        BY <2>3, <3>2 DEF Dispatched
      <3>4. QED
        BY <2>1, <3>1, <3>2, <3>3 DEF IInv, RouteIsLatest
    <2>6. QED
      BY <2>4, <2>5
  <1>11. QED
    BY <1>6, <1>7, <1>8, <1>9, <1>10 DEF IInv

\* Every step keeps the inductive invariant.
LEMMA NextIInv == IInv /\ [Next]_vars => IInv'
  <1> SUFFICES ASSUME IInv, [Next]_vars PROVE IInv'
    OBVIOUS
  <1>1. ASSUME NEW r \in Requests, NEW S \in SUBSET Orders,
               NEW op \in {"dispatch", "assign"}, Read(r, S, op)
        PROVE  IInv'
    BY <1>1, BeginKeeps DEF Read, OrderStatus
  <1>2. ASSUME NEW r \in Requests, NEW o \in Orders, NEW status \in OrderStatus,
               ReadOrder(r, o, status)
        PROVE  IInv'
    <2>1. {o} \in SUBSET Orders
      OBVIOUS
    <2>2. Begin(r, "patch", {o}, status, "read")
      BY <1>2 DEF ReadOrder
    <2>3. QED
      BY <2>1, <2>2, BeginKeeps
  <1>3. ASSUME NEW r \in Requests, CreateRoute(r) PROVE IInv'
    BY <1>3, GoesKeeps DEF CreateRoute, Commits, UnderWay, IInv, TypeOK
  <1>4. ASSUME NEW r \in Requests, AssignResources(r) PROVE IInv'
    BY <1>4, GoesKeeps DEF AssignResources, UnderWay, IInv, TypeOK
  <1>5. ASSUME NEW r \in Requests, CommitOrders(r) PROVE IInv'
    BY <1>5, CommitKeeps
  <1>6. ASSUME NEW r \in Requests, Patch(r) PROVE IInv'
    BY <1>6, PatchKeeps
  <1>7. ASSUME NEW r \in Requests, Fail(r) PROVE IInv'
    BY <1>7, GoesKeeps DEF Fail, IInv, TypeOK
  <1>8. CASE UNCHANGED vars
    BY <1>8 DEF vars, IInv, TypeOK, TurnsCounted, RouteCommitted,
       DispatchesOnly, LoneIsCurrent, UnderWay, RouteIsLatest, Dispatched
  <1>9. QED
    BY <1>1, <1>2, <1>3, <1>4, <1>5, <1>6, <1>7, <1>8 DEF Next

\* A dispatch that ends alone takes open orders.
LEMMA LoneStep == IInv /\ [Next]_vars => [LoneDispatchStep]_vars
  <1> SUFFICES ASSUME IInv, NEW r \in alone, NEW o \in Orders,
                      req[r].at = "routed", o \in req[r].on
               PROVE  orders[o].status \in Open
    BY DEF LoneDispatchStep
  <1>1. r \in Requests
    BY DEF IInv, TypeOK
  <1>2. QED
    BY <1>1 DEF IInv, DispatchesOnly, LoneIsCurrent, UnderWay

-----------------------------------------------------------------------------
(* The theorems. *)

\* Every reachable state satisfies the inductive invariant.
THEOREM InductiveInvariant == Spec => []IInv
  BY InitIInv, NextIInv, PTL DEF Spec

\* Type correctness of the orders, the routes and the requests.
THEOREM TypeCorrect == Spec => []TypeOK
  <1>1. IInv => TypeOK
    BY DEF IInv
  <1>2. QED
    BY InductiveInvariant, <1>1, PTL

\* An order is on the committed route of the last dispatch that wrote it,
\* however dispatches, patches and failures interleave.
THEOREM RoutesAreLatest == Spec => []RouteIsLatest
  <1>1. IInv => RouteIsLatest
    BY DEF IInv
  <1>2. QED
    BY InductiveInvariant, <1>1, PTL

\* A dispatch that nothing was committed beside takes open orders only.
THEOREM LoneDispatchesTakeOpenOrders == Spec => LoneDispatchTakesOpenOrders
  <1>1. IInv /\ [Next]_vars => [LoneDispatchStep]_vars
    BY LoneStep
  <1>2. QED
    BY InductiveInvariant, <1>1, PTL DEF Spec, LoneDispatchTakesOpenOrders

=============================================================================
