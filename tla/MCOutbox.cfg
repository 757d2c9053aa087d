CONSTANTS
    w1 = w1
    w2 = w2
    e1 = e1
    e2 = e2
    e3 = e3
    Workers <- MCWorkers
    Events <- MCEvents
    Nobody = Nobody
    BatchSize = 2
    MaxAttempts = 2
    MaxReleases = 1
    MaxRetries = 1
    MaxCrashes = 1
SPECIFICATION Spec
INVARIANTS
    TypeOK
    BatchesOwned
    ClaimsExclusive
    FailuresBounded
    StrandedByCrashes
PROPERTIES
    DeliversAtLeastOnce
CHECK_DEADLOCK FALSE
