SPECIFICATION AloneSpec
CONSTANTS
    Request = {r1, r2}
    None = None
    MessageId = {i1, i2}
    Text = {b1, b2}
    MaxMessages = 2
    Session = {s1}
    MaxTokens = 3
    MaxResets = 1
    MaxChallenges = 2
    MaxFailures = 3
    LockAfter = 2
    MaxAttempts = 2
    Report = {t1, t2}
    Price = {p1, p2}
    Target = {"AVAILABLE", "RESERVED", "COMPLETED"}
    Upload = {u1}
    MaxVersion = 5
    MaxImages = 3
    ImageLimit = 2
    MaxJobAttempts = 2
INVARIANTS
    ServicesTypeOK
    MessagesAreGapless
    ToldIsStored
    SessionsStayEnded
    OldPasswordSessionsEnd
    GuessesAreBounded
    ChangesAreTrue
    PublicListingsAreSound
    UploadsAreWhole
    ReportsAreFollowed
    CondemnedStaysOff
PROPERTIES
    ImplementsRoomLog
CONSTRAINT
    Focus
SYMMETRY Symmetry
CHECK_DEADLOCK FALSE
