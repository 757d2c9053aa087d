CONSTANTS
    s1 = s1
    s2 = s2
    l1 = l1
    c1 = c1
    c2 = c2
    o1 = o1
    o2 = o2
    d1 = d1
    d2 = d2
    Sessions <- MCSessions
    Leads <- MCLeads
    Reachable <- MCReachable
    Companies <- MCCompanies
    Opportunities <- MCOpportunities
    Documents <- MCDocuments
    Stages <- MCStages
    None = None
SPECIFICATION Spec
SYMMETRY Symmetry
INVARIANT
    ConversionIsAtomic
