SPECIFICATION Spec
CONSTANTS
    Tenders = {t1, t2}
    MaxFeed = 2
    MaxFiles = 1
    Runs = {scheduled, manual}
    DryRunners = {}
    SendWhenEmpty = FALSE
SYMMETRY Interchangeable
INVARIANTS IInv NoSilentLoss CursorBehindHistory HistoryIsDelivered
PROPERTIES ImplementsSubscription
