SPECIFICATION Spec
CONSTANTS
    a = a
    r1 = r1
    r2 = r2
    f1 = f1
    f2 = f2
    Lines = {a}
    Requests = {r1, r2}
    Fulfilments = {f1, f2}
    Quantity <- MCQuantity
    Supplier <- MCSupplier
    MaxSequence = 2
    MaxCaptured = 1
    MaxTurns = 1
SYMMETRY Symmetry
CHECK_DEADLOCK FALSE
INVARIANTS TypeOK NothingIsBoughtTwice FulfilmentFollowsCalls OrdersEndDelivered
