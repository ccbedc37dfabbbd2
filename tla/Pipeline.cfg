SPECIFICATION Spec
CONSTANTS
    w1 = w1
    w2 = w2
    Workers = {w1, w2}
    N = 5
    Halting <- MCHalting
    Costing <- MCCosting
    Counselling <- MCCounselling
    Effects <- MCEffects
    ActionOf <- MCActionOf
    Role = "operator"
    Environment = "production"
    Simulated = FALSE
    MaxAttempts = 2
    MaxSequence = 2
    MaxReviews = 2
    MaxRequests = 2
CONSTRAINT BoundOverlap
SYMMETRY Symmetry
CHECK_DEADLOCK FALSE
INVARIANTS TypeOK EveryEffectWasAuthorised NothingInTheAir CompletedRunsAreDone
