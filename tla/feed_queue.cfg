SPECIFICATION FairSpec
CONSTANTS
    q1 = q1
    q2 = q2
    a = a
    b = b
    c = c
    d = d
    en = en
    fr = fr
    Queries <- TwoQueries
    Direct <- DirectURL
    Feed <- Feeds
    Distance <- Distances
    Radius = 1
    Langs <- TwoLangs
    Scraped <- ScrapedOnes
    Limit = 2
    MaxDepth = 2
    MaxLives = 3
INVARIANTS StallLosesNothing DiscoveredOnce
PROPERTIES QueueIsWhatWasFound DiscoveryEnds
CHECK_DEADLOCK FALSE
