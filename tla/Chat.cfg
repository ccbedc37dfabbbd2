SPECIFICATION Spec
CONSTANTS
    r1 = r1
    r2 = r2
    p1 = p1
    p2 = p2
    task = task
    approval1 = approval1
    k1 = k1
    k2 = k2
    Requests = {r1, r2}
    Proposals = {p1, p2}
    Tasks = {task}
    Approvals = {approval1}
    Reserved = {approval1}
    Keys = {k1, k2}
    MaxToolRounds = 1
    MaxProposals = 1
    MaxVersion = 2
    MaxServed = 3
    MaxCrashes = 1
CONSTRAINT BoundOverlap
SYMMETRY Symmetry
CHECK_DEADLOCK FALSE
INVARIANTS TypeOK OnceOnly
