SPECIFICATION Spec
CONSTANTS
    Call = {c1, c2}
    Transmission = {t1, t2}
    Role = {"MEMBER", "REGISTRANT"}
    Message <- Messages
    MaxAttempts = 2
    MaxTime = 1
    RunningTimeout = 1
    ValidFor = 1
    None = None
PROPERTY
    FinalForGood
CHECK_DEADLOCK FALSE
