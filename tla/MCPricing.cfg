CONSTANTS
    s1 = s1
    s2 = s2
    t1 = t1
    t2 = t2
    i1 = i1
    i2 = i2
    half = half
    off = off
    fee = fee
    c1 = c1
    r1 = r1
    Sessions <- MCSessions
    Tables <- MCTables
    Items <- MCItems
    Prices <- MCPrices
    Quantities <- MCQuantities
    Forms <- MCForms
    Rules <- MCRules
    Rule <- MCRule
    Customers <- MCCustomers
    Regions <- MCRegions
    Days <- MCDays
    Contexts <- MCContexts
    None = None
SYMMETRY Symmetry
CHECK_DEADLOCK FALSE
SPECIFICATION Spec
INVARIANTS
    TypeOK
    Balanced
    RulesCompound
PROPERTIES
    MostSpecificTable
    LoneItemIsOnly
