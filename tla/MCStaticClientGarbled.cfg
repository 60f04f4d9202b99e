SPECIFICATION FairSpec
CONSTANTS
    TileHeight = 1
    MaxLevel = 2
    Workers = {}
    Poller = poller
    Views <- OneView
    Honest <- TheLog
    CacheMax = 2
    MaxRange = 1
    Garbled <- NoBody
    None = None
    a = a
    b = b
PROPERTY RetriesRecover
