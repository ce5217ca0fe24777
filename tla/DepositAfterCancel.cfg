SPECIFICATION Spec
CONSTANTS
    Call = {c1}
    Key = {k1}
    Transmission = {t1}
    Abandoned = {}
    Amount = 1
    Cancellation = {1}
    None = None
INVARIANT
    PaidMeansStanding
CHECK_DEADLOCK FALSE
