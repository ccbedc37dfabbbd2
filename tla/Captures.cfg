SPECIFICATION Spec
CONSTANTS
    p1 = p1
    p2 = p2
    ours = ours
    theirs = theirs
    e1 = e1
    e2 = e2
    e3 = e3
    webhook = webhook
    other = other
    sweeper = sweeper
    NoRefund = NoRefund
    Due = 2
    MaxAmount = 2
    MaxReconcile = 1
    Attempts <- TwoAttempts
    OwnRefunds <- Nobody
    ProviderRefunds <- Nobody
    Events <- TwoEvents
    Ingress <- OneIngress
    Sweepers <- OneSweeper
SYMMETRY Symmetric
INVARIANTS
    PaidByOneCapture
    NoCaptureIsLost
    OneLiveAttempt
    RowsFollowCalls
PROPERTIES
    NothingIsUndone
CHECK_DEADLOCK FALSE
