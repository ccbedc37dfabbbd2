SPECIFICATION Spec
CONSTANTS
    reach = reach
    toys = toys
    decree = decree
    chemical = chemical
    safety = safety
    a1 = a1
    Requirements = {chemical, safety}
    Norms = {reach, toys}
    Nationals = {decree}
    NormOf <- MCNormOf
    KindOf <- MCKindOf
    Directives = {toys}
    EuSays <- MCEuSays
    NationalSays <- MCNationalSays
    Analysts = {a1}
    MaxLookups = 3
    MaxChanges = 4
    MaxReports = 1
CHECK_DEADLOCK FALSE
INVARIANTS TypeOK VerdictsAreGrounded
