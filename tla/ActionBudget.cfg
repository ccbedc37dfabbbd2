SPECIFICATION Spec
CONSTANTS
    ads = ads
    listing = listing
    small = small
    large = large
    e1 = e1
    e2 = e2
    MaxSequence = 1
    MaxAmount = 2
    Limits = {2, 3}
    Sites <- TwoSites
    References <- TwoSitesReferences
    Requests <- TwoRequests
    Amount <- TwoAmounts
    Executors <- OneExecutor
    Idempotent <- HonoursKeys
    Lookup <- CanBeAsked
INVARIANTS
    TypeOK
    TotalsMatchEvents
    FailedMeansNoEffect
PROPERTIES
    LedgerSpec
    FollowsLifecycle
    NeverGrowsPastLimit
CHECK_DEADLOCK FALSE
