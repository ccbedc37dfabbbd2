SPECIFICATION FairSpec
CONSTANTS
    p1 = p1
    p2 = p2
    ours = ours
    theirs = theirs
    e1 = e1
    e2 = e2
    e3 = e3
    webhook = webhook
    other = other
    sweeper = sweeper
    NoRefund = NoRefund
    Due = 2
    MaxAmount = 2
    MaxReconcile = 2
    Attempts <- OneAttempt
    OwnRefunds <- Nobody
    ProviderRefunds <- Nobody
    Events <- TwoEvents
    Ingress <- OneIngress
    Sweepers <- OneSweeper
PROPERTIES
    EventsSettle
CHECK_DEADLOCK FALSE
