CONSTANTS
    s1 = s1
    s2 = s2
    i1 = i1
    i2 = i2
    p1 = p1
    p2 = p2
    Sessions <- MCSessions
    Items <- MCItems
    Prices <- MCPrices
    None = None
SPECIFICATION Spec
INVARIANT
    TypeOK
PROPERTIES
    PricesStand
    ItemsKept
    LoneRequestFollowsLifecycle
    LoneSubmissionFullyPriced
