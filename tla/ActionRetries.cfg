SPECIFICATION FairSpec
CONSTANTS
    ads = ads
    listing = listing
    small = small
    large = large
    e1 = e1
    e2 = e2
    MaxSequence = 2
    MaxAmount = 2
    Limits = {2}
    Sites <- OneSite
    References <- OneSiteReferences
    Requests <- OneRequest
    Amount <- OneAmount
    Executors <- TwoExecutors
    Idempotent <- IgnoresKeys
    Lookup <- NoLookup
INVARIANTS
    OneEffectAfterTheBoundary
    SiteAdvancesWhenClosed
    ReservationFollowsOutcome
PROPERTIES
    NothingStaysUnderway
CHECK_DEADLOCK FALSE
