CONSTANTS
    s1 = s1
    s2 = s2
    i1 = i1
    i2 = i2
    d1 = d1
    d2 = d2
    off = off
    unusable = unusable
    r1 = r1
    r2 = r2
    r3 = r3
    r4 = r4
    first = first
    second = second
    biweekly = biweekly
    suspension = suspension
    Sessions <- MCSessions
    Items <- MCItems
    Details <- MCDetails
    Off = off
    Unusable = unusable
    Ids <- MCIds
    None = None
    Published <- MCPublished
    Payload <- MCPayload
    Suspended <- MCSuspended
    MaxFailures = 1
    MaxDuplicates = 2
SPECIFICATION Spec
INVARIANTS
    TypeOK
    OnePerOrigin
    SoleEventReflected
PROPERTIES
    AppliesAtomically
    LoneDeliveryApplies
CHECK_DEADLOCK FALSE
