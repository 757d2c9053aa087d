CONSTANTS
    o1 = o1
    o2 = o2
    r1 = r1
    r2 = r2
    r3 = r3
    none = none
    Orders <- TwoOrders
    Requests <- ThreeRequests
    NoRoute <- none
SYMMETRY Symmetric
SPECIFICATION Spec
INVARIANTS TypeOK RouteIsLatest
PROPERTIES LoneDispatchTakesOpenOrders
CHECK_DEADLOCK FALSE
