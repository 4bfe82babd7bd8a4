SPECIFICATION FairSpec
CONSTANTS
    Tenders = {t1}
    MaxFeed = 2
    MaxFiles = 1
    Runs = {scheduled}
    DryRunners = {}
    SendWhenEmpty = FALSE
PROPERTIES CursorCatchesUp EveryEntryIsSettled
