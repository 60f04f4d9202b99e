CONSTANTS
    Start = 1
    End = 6
    BatchSize = 2
    MaxWorkers = 2
    Workers = {w1, w2, w3}
    ResultCap = 1
    RateLimited = TRUE
SPECIFICATION FairSpec
INVARIANTS
    OwnedOnce
    NothingUnnoticed
    VerdictHonest
    NoSendAfterClose
PROPERTIES
    FetchReturns
    ImplementsRangeFetch
