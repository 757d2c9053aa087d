CONSTANTS
    c1 = c1
    c2 = c2
    d1 = d1
    d2 = d2
    Forms <- ThreeForms
    Places <- TwoPlaces
    Records <- TwoRecords
    MaxActs = 8
SPECIFICATION FormSpec
INVARIANTS FilledFromSource SearchShown
PROPERTIES LookupsEnd
CHECK_DEADLOCK FALSE
