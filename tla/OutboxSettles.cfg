SPECIFICATION FairSpec
CONSTANTS
    n1 = n1  n2 = n2  e1 = e1  e2 = e2
    Notification = {n1, n2}
    Worker = {w1}
    LockId = {l1, l2}
    Endpoint = {e1}
    Target <- OneTarget
    None = None
    MaxAttempts = 2
    BatchSize = 2
    LockTtl = 1
    RetryBase = 1
    RetryCap = 2
    MaxToken = 1
    MaxChange = 0
    MaxCrash = 1
    MaxOverrun = 1
PROPERTIES
    EverySettles
CHECK_DEADLOCK FALSE
