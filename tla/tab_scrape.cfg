SPECIFICATION FairScrape
CONSTANTS
    w1 = w1
    w2 = w2
    t1 = t1
    t2 = t2
    u1 = u1
    u2 = u2
    NoPage = NoPage
    NoPlace = NoPlace
    NoWorker = NoWorker
    Wall = Wall
    Workers = {w1, w2}
    Pages = {t1, t2}
    MaxPages = 1
    MaxUses = 2
    URLs <- TwoURLs
    NavRetries = 1
INVARIANTS ScrapeTypeOK SlotsBalance PageOwnedOnce WaitersAreSpare TabDrivenOnce EntryIsOfItsPlace WallsLeavePool
PROPERTIES PoolSpec ClaimsEnd GoroutinesEnd
CHECK_DEADLOCK FALSE
