SPECIFICATION FairSpec
CONSTANTS
    Tenders = {t1, t2, t3}
    MaxFeed = 3
    PageSize = 2
    MaxFeedPages = 2
    MaxRetries = 3
    DetailConcurrency = 2
INVARIANTS TypeOK CursorBehindListings StaleListingsDropped
PROPERTIES ImplementsCrawl CrawlProgresses CrawlEnds
