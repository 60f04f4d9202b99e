SPECIFICATION Spec
CONSTANTS
    TileHeight = 1
    MaxLevel = 2
    Workers = {}
    Poller = poller
    Views <- TwoViews
    Honest <- TheLog
    CacheMax = 6
    MaxRange = 1
    Garbled <- NoGarbling
    None = None
    a = a
    b = b
INVARIANT SavedIsPrefix
