SPECIFICATION FairSpec
CONSTANTS
    Tenders = {t1}
    DayLength = 3
    TriggerTime = 1
    CronFirst = 1
    CronLast = 5
    Offset = 1
    Window = 9
    MaxAhead = 10
PROPERTIES RunsMondayToFriday
