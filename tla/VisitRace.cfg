SPECIFICATION Spec
CONSTANTS
    r1 = r1  r2 = r2
    p1 = p1  p2 = p2
    ann = ann  bob = bob  cho = cho
    Reservation = {r1, r2}
    Property = {p1}
    User = {ann, bob}
    Registrant <- RegistrantOne
    PhoneVerified = {ann}
    Window <- TwoWindows
    Request = {q1, q2}
    None = None
    MinLead = 2
    MaxAhead = 4
    MinDuration = 1
    MaxDuration = 2
    ResponseLimit = 2
    ResponseLead = 1
    MaxTime = 2
INVARIANTS
    TypeOK
    LedgerIsUnbroken
    ConfirmedByBothParties
PROPERTIES
    ImplementsAgreement
SYMMETRY RaceSymmetry
CHECK_DEADLOCK FALSE
