SPECIFICATION AdminSpec
CONSTANTS
    Tenders = {t1}
    MaxFeed = 1
    MaxFiles = 1
    Runs = {cli}
    DryRunners = {}
    SendWhenEmpty = FALSE
PROPERTIES ResetSeenReReports
