SPECIFICATION Spec
CONSTANTS
    Call = {c1, c2}
    Key = {k1, k2}
    Transmission = {t1, t2}
    Abandoned = {t2}
    Amount = 2
    Cancellation = {1, 2}
    None = None
SYMMETRY Symmetry
CONSTRAINT Focus
INVARIANTS
    TypeOK
    RefundStaysOwed
    PendingRefundRetryable
    RetriesExcludeEachOther
    HandledOnce
    OnePayment
PROPERTIES
    ImplementsAccount
CHECK_DEADLOCK FALSE
