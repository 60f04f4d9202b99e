CONSTANTS
    MaxInt = 7
    Counts <- OptionValues
    Starts <- OptionValues
    Sizes <- TreeSizes
    Bounds <- IndexValues
    TailDefault = 2
    None = None
    TileHeight = 2
    MaxLevel = 2
    Entries <- LeafValues
    Trees <- GrowingTrees
    DataWidth = 3
    Radix = 2
    Group = 2
    Tiles <- ShortTiles
    Char <- Chars
    Upper <- Letters
    OptionSets <- SingleOptions
    Names <- CertNames
    DomainNames <- ShortDomains
    MaxBlanks = 1
    MaxLeaves = 16
    MaxName = 4
SPECIFICATION MCSpec
INVARIANTS
    RangeIsWanted
    SkipsOnlyProven
    ResumesWhereProven
    PrefixRootIsOldRoot
    InclusionIsExact
    RangeReadsItself
    BindingDeterminesFilter
    SelectsSubdomains
    TileReadsBack
CHECK_DEADLOCK FALSE
