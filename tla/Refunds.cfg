SPECIFICATION Spec
CONSTANTS
    p1 = p1
    p2 = p2
    ours = ours
    theirs = theirs
    e1 = e1
    e2 = e2
    e3 = e3
    webhook = webhook
    other = other
    sweeper = sweeper
    NoRefund = NoRefund
    Due = 2
    MaxAmount = 2
    MaxReconcile = 0
    Attempts <- OneAttempt
    OwnRefunds <- OneRefund
    ProviderRefunds <- OneProviderRefund
    Events <- ThreeEvents
    Ingress <- TwoIngress
    Sweepers <- Nobody
SYMMETRY RefundSymmetry
INVARIANTS
    TypeOK
    RefundsFit
    EntriesMatchMoney
    ApplyNeverRaises
CHECK_DEADLOCK FALSE
