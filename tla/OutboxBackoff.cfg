SPECIFICATION Spec
CONSTANTS
    n1 = n1  n2 = n2  e1 = e1  e2 = e2
    Notification = {n1}
    Worker = {w1, w2}
    LockId = {l1, l2, l3}
    Endpoint = {e1}
    Target <- AllTargets
    None = None
    MaxAttempts = 2
    BatchSize = 1
    LockTtl = 1
    RetryBase = 1
    RetryCap = 2
    MaxToken = 1
    MaxChange = 1
    MaxCrash = 1
    MaxOverrun = 1
PROPERTIES
    RetryWaits
CHECK_DEADLOCK FALSE
