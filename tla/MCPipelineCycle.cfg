SPECIFICATION Spec
CONSTANTS
    Tenders = {t1, t2}
    MaxFeed = 3
    MaxFiles = 1
    Runs = {cli}
    DryRunners = {cli}
    SendWhenEmpty = TRUE
SYMMETRY Interchangeable
INVARIANTS NoSilentLoss StatusHonest NewIsNotReminded
PROPERTIES DryRunInert CursorAdvances
