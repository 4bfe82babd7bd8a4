SPECIFICATION Spec
CONSTANTS
    ann = ann  bob = bob  bad = bad  idn = idn
    p1 = p1  p2 = p2
    Addresses = {ann, bob, bad, idn}
    Invalid = {bad}
    Foreign = {idn}
    Lists <- SampleLists
    MaxTime = 2
    MaxReports = 2
    Procs = {p1, p2}
    Mailer = p1
INVARIANTS TypeOK SentIsComplete LateFailureIsEmailError AuditTrail TestSendsTheLatest
PROPERTIES ImplementsNotification
CHECK_DEADLOCK FALSE
