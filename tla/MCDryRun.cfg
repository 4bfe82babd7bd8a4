SPECIFICATION Spec
CONSTANTS
    Tenders = {t1}
    MaxFeed = 1
    MaxFiles = 1
    Runs = {cli}
    DryRunners = {cli}
    SendWhenEmpty = FALSE
PROPERTIES DryRunLeavesDatabaseAlone
