SPECIFICATION Spec
CONSTANTS
    TileHeight = 1
    MaxLevel = 2
    Workers = {w1, w2}
    Poller = poller
    Views <- TwoViews
    Honest <- TheLog
    CacheMax = 2
    MaxRange = 1
    Garbled <- NoBody
    None = None
    a = a
    b = b
SYMMETRY Symmetry
INVARIANTS CacheBounded ServedIsSigned
PROPERTIES HeadsExtend
