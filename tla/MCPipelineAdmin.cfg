SPECIFICATION AdminSpec
CONSTANTS
    Tenders = {t1, t2}
    MaxFeed = 2
    MaxFiles = 2
    Runs = {cli}
    DryRunners = {cli}
    SendWhenEmpty = FALSE
SYMMETRY Interchangeable
INVARIANTS StatusHonest EmailedIsRemembered NewIsUnreported
PROPERTIES ImplementsOrderly
