SPECIFICATION Spec
CONSTANTS
    Nobody = Nobody
    j1 = j1
    w1 = w1
    w2 = w2
    operator1 = operator1
    Jobs = {j1}
    Workers = {w1, w2}
    Mortal = {}
    Operators = {operator1}
    MaxAttempts = 2
    MaxRequests = 0
PROPERTY NeverTwoWorkers
CHECK_DEADLOCK FALSE
